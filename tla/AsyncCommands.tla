--------------------------- MODULE AsyncCommands ---------------------------
(***************************************************************************)
(* What async_io.hpp promises for the commands given to it: each one is    *)
(* carried out once, and its result is handed over once, by the await of   *)
(* the task it was given, unless the context is closed first.              *)
(***************************************************************************)
EXTENDS FiniteSets

CONSTANTS
  Jobs,       \* the commands of a behaviour
  MayRefuse   \* whether the system may refuse to start a command

VARIABLE cmd   \* the stage each command is at

Init == cmd = [j \in Jobs |-> "none"]

Move(S, from, to) ==
  /\ S # {} /\ \A j \in S : cmd[j] = from
  /\ cmd' = [j \in Jobs |-> IF j \in S THEN to ELSE cmd[j]]

Issue(j)   == Move({j}, "none", "queued")
Start(S)   == Move(S, "queued", "running")   \* one submit starts several
Finish(j)  == Move({j}, "running", "done")
Collect(j) == Move({j}, "done", "collected")
Refuse(j)  == MayRefuse /\ Move({j}, "queued", "collected")   \* the submit says so
Close      == cmd' = [j \in Jobs |-> "closed"]

Next ==
  \/ \E j \in Jobs : Issue(j) \/ Finish(j) \/ Collect(j) \/ Refuse(j)
  \/ \E S \in SUBSET Jobs : Start(S)
  \/ Close

Spec == Init /\ [][Next]_cmd
=============================================================================
