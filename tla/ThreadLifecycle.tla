-------------------------- MODULE ThreadLifecycle --------------------------
(***************************************************************************)
(* What the thread object of thread.hpp promises: the "Thread state        *)
(* diagram" of its header comment, with the result that the diagram hands  *)
(* over at its end.  Thread.tla is shown to implement this module.         *)
(***************************************************************************)

CONSTANTS Args,     \* arguments (and, here, results) of user functions
          NoResult  \* the null result of a thread that has not returned

VARIABLES phase,    \* what thread_is_ready / _running / _stopped report
          arg,      \* the argument given to the latest thread_create
          out       \* what thread_result may hand out

vars == <<phase, arg, out>>

Init == phase = "invalid" /\ arg = NoResult /\ out = NoResult

\* thread_create: a new object, a destroyed one, or one that is not running.
Create(a) ==
  /\ phase \in {"invalid", "ready", "stopped"}
  /\ phase' = "ready" /\ arg' = a /\ out' = NoResult

\* The new thread reaches its entry point.
Run == phase = "ready" /\ phase' = "running" /\ UNCHANGED <<arg, out>>

\* "Thread function exits": its result becomes visible with the new phase.
Stop == phase = "running" /\ phase' = "stopped" /\ out' = arg /\ UNCHANGED arg

\* thread_destroy: "Thread should be ready or stopped before being destroyed".
Destroy ==
  /\ phase \in {"ready", "stopped"}
  /\ phase' = "invalid" /\ arg' = NoResult /\ out' = NoResult

Next == (\E a \in Args : Create(a)) \/ Run \/ Stop \/ Destroy

Spec == Init /\ [][Next]_vars
=============================================================================
