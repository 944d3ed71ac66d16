--------------------------- MODULE ExitFunctions ---------------------------
(***************************************************************************)
(* exit.cpp: functions called when the program ends.  They are kept in an  *)
(* array (array.hpp), which may move when it grows.  The loop that calls   *)
(* them holds a pointer into the array and asks for its size every time,   *)
(* and a function that is called may itself register or unregister some.   *)
(***************************************************************************)
EXTENDS Integers, Sequences, SequencesExt, Bits

CONSTANTS
  ExitNames,      \* the functions
  MayUnregister,  \* whether a function that is called unregisters functions
  MostChanges     \* bound: calls that functions make while they are called

VARIABLES
  exits,    \* the functions registered, in a row; reserved_size; where the array is
  leaving,  \* whether the process ends; the pointer: the array it points into and
            \* the function it points at; how many were called
  called,   \* the functions called, in order
  history   \* the functions that should be: those registered by then, in order; the
            \* changes made by called functions; whether one of them unregistered some

exitVars == <<exits, leaving, called, history>>

NoExits == [names |-> <<>>, reserved |-> 0, block |-> 0]

ExitInit ==
  /\ exits = NoExits /\ called = <<>>
  /\ leaving = [at |-> "running", block |-> 0, index |-> 0]
  /\ history = [due |-> <<>>, changes |-> 0, dropped |-> FALSE]

Holds(name) == name \in ToSet(exits.names)

\* While a function runs, which is while the loop is between two of them.
Calling == leaving.at = "calling" /\ history.changes < MostChanges
MayCall == leaving.at = "running" \/ Calling
Count   == IF leaving.at = "running" THEN 0 ELSE history.changes + 1

(***************************************************************************)
(* Registering                                                             *)
(***************************************************************************)

\* Variant: a function is registered as often as it is given.
RegisterAgain(name) ==
  /\ MayCall /\ Len(exits.names) < Cardinality(ExitNames) + 1
  /\ exits' = [exits EXCEPT !.names = Append(@, name)]
  /\ history' = [history EXCEPT !.due = IF Holds(name) THEN @ ELSE Append(@, name), !.changes = Count]
  /\ UNCHANGED <<leaving, called>>

\* register_exit_function: one that is registered is refused.  realloc leaves the
\* array where it is or moves it.
Register(name) ==
  /\ MayCall /\ ~Holds(name)
  /\ LET size == Len(exits.names)
         grows == ~(size + 1 < exits.reserved)
     IN  \E block \in IF grows THEN {exits.block, exits.block + 1} ELSE {exits.block} :
           exits' = [names |-> Append(exits.names, name), block |-> block,
                     reserved |-> IF grows THEN CeilExp2(exits.reserved + 1) ELSE exits.reserved]
  /\ history' = [history EXCEPT !.due = Append(@, name), !.changes = Count]
  /\ UNCHANGED <<leaving, called>>

\* unregister_exit_function: the functions behind it move up.
Unregister(name) ==
  /\ MayCall /\ Holds(name) /\ (Calling => MayUnregister)
  /\ exits' = [exits EXCEPT !.names = RemoveFirst(@, name)]
  /\ history' = [history EXCEPT !.due = RemoveFirst(@, name), !.changes = Count,
                                !.dropped = @ \/ leaving.at = "calling"]
  /\ UNCHANGED <<leaving, called>>

(***************************************************************************)
(* Ending                                                                  *)
(***************************************************************************)

\* _atexit_callback: the pointer is taken before the first call.
Leave ==
  /\ leaving.at = "running"
  /\ leaving' = [at |-> "next", block |-> exits.block, index |-> 0]
  /\ UNCHANGED <<exits, called, history>>

\* The next function, through the pointer; an array that has moved is gone.
CallNext ==
  /\ leaving.at = "next"
  /\ IF leaving.index < Len(exits.names)
     THEN IF leaving.block # exits.block
          THEN leaving' = [leaving EXCEPT !.at = "lost"] /\ UNCHANGED called
          ELSE /\ called' = Append(called, exits.names[leaving.index + 1])
               /\ leaving' = [leaving EXCEPT !.at = "calling"]
     ELSE leaving' = [leaving EXCEPT !.at = "done"] /\ UNCHANGED called
  /\ UNCHANGED <<exits, history>>

Returns ==
  /\ leaving.at = "calling"
  /\ leaving' = [leaving EXCEPT !.at = "next", !.index = @ + 1]
  /\ UNCHANGED <<exits, called, history>>

ExitNext ==
  \/ \E name \in ExitNames : Register(name) \/ Unregister(name)
  \/ Leave \/ CallNext \/ Returns

(***************************************************************************)
(* Properties                                                              *)
(***************************************************************************)

\* "call all of the functions registered with register_exit_function in order of
\* registration" (exit.hpp): so it is, of those registered while others are called,
\* too, as long as the array stays where it is and none is unregistered by then.
ExitsAreCalled ==
  /\ IsPrefix(called, history.due) \/ history.dropped
  /\ leaving.at = "done" /\ ~history.dropped => called = history.due

\* The same, whatever the functions do.
AllExitsAreCalled == leaving.at = "done" => \A name \in ToSet(history.due) : name \in ToSet(called)
=============================================================================
