----------------------------- MODULE Overlapped -----------------------------
(***************************************************************************)
(* async_context.cpp: the context behind async_io.hpp on Windows.  Every   *)
(* command has an OVERLAPPED with a manual-reset event; the thread that    *)
(* owns the context submits commands one after the other and waits for any *)
(* of the events.                                                          *)
(*                                                                         *)
(* A command (read, write, scatter or gather: they differ in the call that *)
(* starts them) is a job, numbered in the order of its call.  There are as *)
(* many entries as one wait takes events (ASYNC_ENTRIES and                *)
(* MAXIMUM_WAIT_OBJECTS are 64), so the loop over batches is taken once.   *)
(* Assertions do nothing, as in a build with NDEBUG.                       *)
(***************************************************************************)
EXTENDS Integers, Sequences, FiniteSets, FiniteSetsExt

CONSTANTS
  WinEntries,         \* ASYNC_ENTRIES
  WinCommands,        \* bound: commands issued in a behaviour
  StartMayFail,       \* whether ReadFile and the like may refuse a command
  OperationMayFail    \* whether an operation may end with an error

ASSUME OverlappedAssumption ==
  /\ WinEntries \in Nat \ {0} /\ WinCommands \in Nat
  /\ StartMayFail \in BOOLEAN /\ OperationMayFail \in BOOLEAN

VARIABLES
  winCtx,     \* "unset", "open" or "closed"
  commands,   \* status, job (0: none) and result of each command
  submit,     \* submit_queue, submit_count and submit_index
  events,     \* the commands whose event is signalled
  overlapped, \* how the latest operation of each command ended
  flying,     \* operations the system carries out
  winIssued,  \* number of commands issued so far
  owner       \* the owning thread: idle, or where in submit, process or await

winVars == <<winCtx, commands, submit, events, overlapped, flying, winIssued, owner>>

WinSlots == 0..(WinEntries - 1)
WinJobs  == 1..WinCommands
Ready    == [status |-> "READY", job |-> 0, result |-> 0]
Resting  == [pc |-> "idle", at |-> 0]

WinTypeOK ==
  /\ winCtx \in {"unset", "open", "closed"}
  /\ commands \in [WinSlots -> [status : {"READY", "SETUP", "RUNNING", "DONE"},
                                job : 0..WinCommands, result : (-WinCommands)..WinCommands]]
  /\ submit \in [queue : [WinSlots -> WinSlots], count : 0..WinEntries, index : WinSlots]
  /\ events \subseteq WinSlots
  /\ overlapped \in [WinSlots -> {"none", "ok", "failed"}]
  /\ flying \subseteq [slot : WinSlots, job : WinJobs]
  /\ winIssued \in 0..WinCommands
  /\ owner \in [pc : {"idle", "submit", "process", "await"}, at : 0..WinEntries]

WinInit ==
  /\ winCtx = "unset"
  /\ commands = [i \in WinSlots |-> Ready]
  /\ submit = [queue |-> [i \in WinSlots |-> 0], count |-> 0, index |-> 0]
  /\ events = {} /\ overlapped = [i \in WinSlots |-> "none"] /\ flying = {}
  /\ winIssued = 0 /\ owner = Resting

WinIdle == winCtx = "open" /\ owner = Resting

\* init, on the first use of the thread-local context.
WinCreate ==
  /\ winCtx = "unset" /\ winCtx' = "open"
  /\ UNCHANGED <<commands, submit, events, overlapped, flying, winIssued, owner>>

\* free, as the exit function: the events are closed, the commands zeroed.
WinDestroy ==
  /\ WinIdle /\ winCtx' = "closed"
  /\ commands' = [i \in WinSlots |-> Ready]
  /\ submit' = [queue |-> [i \in WinSlots |-> 0], count |-> 0, index |-> 0]
  /\ events' = {} /\ overlapped' = [i \in WinSlots |-> "none"]
  /\ UNCHANGED <<flying, winIssued, owner>>

(***************************************************************************)
(* Issuing and submitting                                                  *)
(***************************************************************************)

WinSlotAt(k) == (submit.index + k) % WinEntries
WinFree == {k \in WinSlots : commands[WinSlotAt(k)].status = "READY"}

\* async_cmd_*, with _next_command_index.  The caller leaves an entry free, as
\* the assertions demand.
WinCommand ==
  /\ WinIdle /\ winIssued < WinCommands /\ WinFree # {}
  /\ LET skip == Min(WinFree)
         i    == WinSlotAt(skip)
     IN  /\ submit' = [queue |-> [submit.queue EXCEPT ![submit.count] = i],
                       count |-> submit.count + 1,
                       index |-> WinSlotAt(skip + 1)]
         /\ commands' = [commands EXCEPT ![i] =
                           [status |-> "SETUP", job |-> winIssued + 1, result |-> 0]]
  /\ winIssued' = winIssued + 1
  /\ UNCHANGED <<winCtx, events, overlapped, flying, owner>>

WinSubmitBegin ==
  /\ WinIdle /\ submit.count > 0
  /\ owner' = [pc |-> "submit", at |-> 0]
  /\ UNCHANGED <<winCtx, commands, submit, events, overlapped, flying, winIssued>>

\* One round of the loop of async_submit_commands goes on only if its command was
\* not refused; the queue is not moved up.
NextRound(ok) ==
  /\ submit' = [submit EXCEPT !.count = @ - 1]
  /\ owner' = IF ok /\ submit.count > 1 THEN [owner EXCEPT !.at = @ + 1] ELSE Resting

Submitted == submit.queue[owner.at]

\* A command that an earlier submit, which stopped half-way, has started already.
WinSubmitSkips ==
  /\ owner.pc = "submit" /\ commands[Submitted].status # "SETUP"
  /\ NextRound(TRUE)
  /\ UNCHANGED <<winCtx, commands, events, overlapped, flying, winIssued>>

\* _submit_cmd: starting an operation resets its event.
WinSubmitStarts ==
  /\ owner.pc = "submit" /\ commands[Submitted].status = "SETUP"
  /\ NextRound(TRUE)
  /\ commands' = [commands EXCEPT ![Submitted].status = "RUNNING"]
  /\ events' = events \ {Submitted}
  /\ flying' = flying \cup {[slot |-> Submitted, job |-> commands[Submitted].job]}
  /\ overlapped' = [overlapped EXCEPT ![Submitted] = "none"]
  /\ UNCHANGED <<winCtx, winIssued>>

\* Variant: the event stays as it is.
ResetLeavesEvent(cs, i) ==
  /\ commands' = [cs EXCEPT ![i] = Ready]
  /\ overlapped' = [overlapped EXCEPT ![i] = "none"]
  /\ UNCHANGED events

\* _reset_cmd of command i, in the commands cs.
Reset(cs, i) ==
  /\ commands' = [cs EXCEPT ![i] = Ready]
  /\ events' = events \ {i}
  /\ overlapped' = [overlapped EXCEPT ![i] = "none"]

WinSubmitFails ==
  /\ StartMayFail
  /\ owner.pc = "submit" /\ commands[Submitted].status = "SETUP"
  /\ NextRound(FALSE) /\ Reset(commands, Submitted)
  /\ UNCHANGED <<winCtx, flying, winIssued>>

(***************************************************************************)
(* The system and the waits                                                *)
(***************************************************************************)

\* An operation ends while somebody can look; it may outlive the context.
WinComplete(e) ==
  /\ winCtx = "open" /\ e \in flying /\ flying' = flying \ {e}
  /\ events' = events \cup {e.slot}
  /\ \E how \in {"ok"} \cup (IF OperationMayFail THEN {"failed"} ELSE {}) :
       overlapped' = [overlapped EXCEPT ![e.slot] = how]
  /\ UNCHANGED <<winCtx, commands, submit, winIssued, owner>>

WinCompleteAny == \E e \in flying : WinComplete(e)

\* WaitForMultipleObjectsEx names the first of the events that are signalled.
Signalled == Min(events)

\* What GetOverlappedResult says of command i is its result.
Ended(i) ==
  [commands EXCEPT ![i].status = "DONE",
                   ![i].result = IF overlapped[i] = "ok" THEN commands[i].job
                                 ELSE -commands[i].job]

\* The commands and events after one round over an event: that of an operation
\* that failed stays signalled.
Processed ==
  /\ commands' = Ended(Signalled)
  /\ events' = IF overlapped[Signalled] = "ok" THEN events \ {Signalled} ELSE events
  /\ UNCHANGED overlapped

\* async_process_open_commands, which goes on until no event is signalled.
WinProcessBegin ==
  /\ WinIdle /\ events # {}
  /\ owner' = [pc |-> "process", at |-> 0]
  /\ UNCHANGED <<winCtx, commands, submit, events, overlapped, flying, winIssued>>

WinProcessOne ==
  /\ owner.pc = "process" /\ events # {} /\ Processed
  /\ UNCHANGED <<winCtx, submit, flying, winIssued, owner>>

WinProcessEnds ==
  /\ owner.pc = "process" /\ events = {} /\ owner' = Resting
  /\ UNCHANGED <<winCtx, commands, submit, events, overlapped, flying, winIssued>>

\* async_await_task of a command already DONE; other states than RUNNING are
\* refused without a change.
WinAwaitDone(i) ==
  /\ WinIdle /\ commands[i].status = "DONE"
  /\ Reset(commands, i)
  /\ UNCHANGED <<winCtx, submit, flying, winIssued, owner>>

WinAwaitBegin(i) ==
  /\ WinIdle /\ commands[i].status = "RUNNING"
  /\ owner' = [pc |-> "await", at |-> i]
  /\ UNCHANGED <<winCtx, commands, submit, events, overlapped, flying, winIssued>>

\* The wait returns with an event: of another command, which is DONE then, or of
\* the one that is awaited.
WinAwaitOne ==
  /\ owner.pc = "await" /\ events # {}
  /\ IF Signalled = owner.at
     THEN Reset(Ended(owner.at), owner.at) /\ owner' = Resting
     ELSE Processed /\ UNCHANGED owner
  /\ UNCHANGED <<winCtx, submit, flying, winIssued>>

\* The wait fails; the command stays RUNNING.
WinAwaitFails ==
  /\ owner.pc = "await" /\ owner' = Resting
  /\ UNCHANGED <<winCtx, commands, submit, events, overlapped, flying, winIssued>>

WinThread ==
  \/ WinSubmitSkips \/ WinSubmitStarts \/ WinSubmitFails
  \/ WinProcessOne \/ WinProcessEnds \/ WinAwaitOne

WinNext ==
  \/ WinCreate \/ WinDestroy
  \/ WinCommand \/ WinSubmitBegin \/ WinProcessBegin
  \/ \E i \in WinSlots : WinAwaitDone(i) \/ WinAwaitBegin(i)
  \/ WinThread \/ WinAwaitFails
  \/ WinCompleteAny

\* The system finishes what was started, and a thread inside a call runs.
WinFair == WF_winVars(WinThread) /\ WF_winVars(WinCompleteAny)

WinSpec == WinInit /\ [][WinNext]_winVars

(***************************************************************************)
(* Properties                                                              *)
(***************************************************************************)

Reported(i) == commands[i].status = "DONE"

\* An operation under way and an event that is signalled belong to the command in
\* whose entry they are found, no running command is without both, and a command that
\* was refused leaves no more in the queue than commands that wait for a submit: no
\* entry is handed out again while the system may still write through it, and the
\* queue has room as long as an entry is free, whichever submit stopped half-way.
EventFindsItsCommand ==
  winCtx = "open" =>
    /\ \A e \in flying : commands[e.slot].status = "RUNNING" /\ commands[e.slot].job = e.job
                         /\ e.slot \notin events
    /\ \A i \in events : commands[i].status = "RUNNING" \/ (Reported(i) /\ overlapped[i] = "failed")
    /\ \A i \in WinSlots : commands[i].status = "RUNNING" =>
         i \in events \/ \E e \in flying : e.slot = i
    /\ submit.count <= Cardinality({i \in WinSlots : commands[i].status = "SETUP"})

\* An await of a running command returns, however many others end before it, unless
\* one in an earlier entry failed: its event is signalled for ever.
WinAwaitReturns ==
  owner.pc = "await" ~> (owner.pc # "await" \/ \E k \in events : k < owner.at /\ Reported(k))

\* Where command j is, in the terms of AsyncCommands.
WinStage(j) ==
  IF winCtx = "closed" THEN "closed"
  ELSE IF j > winIssued THEN "none"
  ELSE IF \E e \in flying : e.job = j THEN "running"
  ELSE IF \E i \in WinSlots : commands[i].job = j
       THEN IF \E i \in WinSlots : commands[i].job = j /\ commands[i].status = "SETUP"
            THEN "queued" ELSE "done"
  ELSE "collected"

WinOnce == INSTANCE AsyncCommands WITH
  Jobs <- WinJobs, MayRefuse <- StartMayFail, cmd <- [j \in WinJobs |-> WinStage(j)]

\* On Windows, too, a command is carried out at most once and its result handed over
\* once, also after a submit that stopped half-way left started commands in the queue.
WinCommandOnce == WinOnce!Spec
=============================================================================
