------------------------------ MODULE IoUring ------------------------------
(***************************************************************************)
(* The io_uring context behind async_io.hpp on Linux: the thread that owns *)
(* it, and the kernel, which takes submission entries in ring order and    *)
(* completes them in any order.                                            *)
(*                                                                         *)
(* A command (read, write, readv, writev or timeout: they differ only in   *)
(* the entry's payload) is a job, numbered in the order of its call, and   *)
(* its result is the job itself.  Slots are numbered 0..N-1 as in the code.*)
(***************************************************************************)
EXTENDS Naturals, Sequences, FiniteSets, FiniteSetsExt

CONSTANTS
  N,          \* ASYNC_ENTRIES: slots of the ring and of the task array
  Wrap,       \* bound: ring counters count modulo this multiple of N (2^32)
  MaxCommands,    \* bound: commands issued in a behaviour
  InOrder,        \* whether the caller frees slots in ring order
  KernelMayStop   \* whether io_uring_enter may take fewer entries than asked

ASSUME IoUringAssumption ==
  /\ N \in Nat \ {0} /\ MaxCommands \in Nat
  /\ Wrap \in Nat /\ Wrap > N /\ Wrap % N = 0
  /\ InOrder \in BOOLEAN /\ KernelMayStop \in BOOLEAN

Slots == 0..(N - 1)
Jobs  == 1..MaxCommands

VARIABLES
  ctx,       \* the descriptor: "unset" (0), "open" or "closed" (-1)
  sqTail,    \* *sq.tail
  sqHead,    \* *sq.head, advanced by the kernel
  array,     \* sq.array
  sqe,       \* the job of each submission entry (0: none yet)
  task,      \* status and result of each async_task
  queue,     \* submit_queue[0 .. submit_count-1]
  issued,    \* number of commands issued so far
  taken,     \* how often the kernel has taken each job
  inflight,  \* operations the kernel carries out: slot, job and which taking
  cq,        \* the completion queue, from *cq.head to *cq.tail
  user       \* the owning thread: free, or where in io_uring_task_await

kernel == <<sqHead, taken, inflight>>
ring   == <<sqTail, array, sqe>>
vars   == <<ctx, sqTail, sqHead, array, sqe, task, queue, issued, taken, inflight, cq, user>>

Free == [pc |-> "free", slot |-> 0]

TypeOK ==
  /\ ctx \in {"unset", "open", "closed"}
  /\ sqTail \in 0..(Wrap - 1) /\ sqHead \in 0..(Wrap - 1)
  /\ array \in [Slots -> Slots] /\ sqe \in [Slots -> Jobs \cup {0}]
  /\ task \in [Slots -> [status : {"READY", "SETUP", "RUNNING", "DONE"},
                         result : Jobs \cup {0}]]
  /\ queue \in Seq(Slots) /\ Len(queue) <= N
  /\ issued \in 0..MaxCommands
  /\ taken \in [Jobs -> Nat]
  /\ inflight \subseteq [slot : Slots, job : Jobs, nth : Nat \ {0}]
  /\ cq \in Seq([slot : Slots, job : Jobs])
  /\ user \in [pc : {"free", "poll", "sleep"}, slot : Slots]

Init ==
  /\ ctx = "unset" /\ sqTail = 0 /\ sqHead = 0
  /\ array = [i \in Slots |-> 0] /\ sqe = [i \in Slots |-> 0]
  /\ task = [i \in Slots |-> [status |-> "READY", result |-> 0]]
  /\ queue = <<>> /\ issued = 0
  /\ taken = [j \in Jobs |-> 0] /\ inflight = {} /\ cq = <<>>
  /\ user = Free

(***************************************************************************)
(* The owning thread.                                                      *)
(***************************************************************************)

\* The first use of the thread-local context; a failed setup leaves it unset.
CreateContext ==
  /\ ctx = "unset" /\ ctx' = "open"
  /\ UNCHANGED <<ring, kernel, task, queue, issued, cq, user>>

\* The exit function: closing the descriptor cancels what is in flight.
DestroyContext ==
  /\ ctx = "open" /\ user = Free
  /\ ctx' = "closed" /\ inflight' = {} /\ cq' = <<>> /\ queue' = <<>>
  /\ UNCHANGED <<ring, sqHead, taken, task, issued, user>>

SlotAt(pos) == pos % N

\* io_uring_next_free_sqe_index: positions from the tail on whose task is READY.
FreeSteps == {k \in Slots : task[SlotAt(sqTail + k)].status = "READY"}

\* io_uring_cmd_* and io_uring_timeout.  With no READY task they return nullptr
\* and change nothing; busy slots at the tail are stepped over.
Command ==
  /\ ctx = "open" /\ user = Free /\ issued < MaxCommands
  /\ FreeSteps # {}
  /\ InOrder => 0 \in FreeSteps
  /\ LET skip == Min(FreeSteps)
         i    == SlotAt(sqTail + skip)
     IN /\ sqTail' = (sqTail + skip + 1) % Wrap
        /\ array' = [array EXCEPT ![i] = i]
        /\ sqe' = [sqe EXCEPT ![i] = issued + 1]
        /\ queue' = Append(queue, i)
        /\ task' = [task EXCEPT ![i] = [status |-> "SETUP", result |-> 0]]
  /\ issued' = issued + 1
  /\ UNCHANGED <<ctx, kernel, cq, user>>

\* The loop over submit_queue that follows a successful io_uring_enter.
MarkRunning ==
  task' = [i \in Slots |->
             IF \E q \in DOMAIN queue : queue[q] = i
             THEN [task[i] EXCEPT !.status = "RUNNING"] ELSE task[i]]

\* io_uring_enter: the kernel takes n entries from the head of the ring.
KernelTakes(n) ==
  LET slotOf(k) == array[SlotAt(sqHead + k)]
      times(j, upto) == Cardinality({k \in 0..(upto - 1) : sqe[slotOf(k)] = j})
  IN /\ sqHead' = (sqHead + n) % Wrap
     /\ inflight' = inflight \cup
          {[slot |-> slotOf(k), job |-> sqe[slotOf(k)],
            nth |-> taken[sqe[slotOf(k)]] + times(sqe[slotOf(k)], k + 1)] : k \in 0..(n - 1)}
     /\ taken' = [j \in Jobs |-> taken[j] + times(j, n)]

\* Variant: submit_count is not reset.
SubmitKeepsQueue ==
  /\ ctx = "open" /\ user = Free /\ queue # <<>>
  /\ LET most == Min({Len(queue), (sqTail + Wrap - sqHead) % Wrap})
     IN \E n \in 1..most : (n = most \/ KernelMayStop) /\ KernelTakes(n)
  /\ MarkRunning
  /\ UNCHANGED <<ctx, ring, queue, issued, cq, user>>

\* io_uring_submit_commands.  The kernel takes at most the submit_count entries
\* it is told of; the return value says how many, and the code only looks at its
\* sign.  A wait for entries delays the return and nothing else.
Submit ==
  /\ ctx = "open" /\ user = Free /\ queue # <<>>
  /\ LET most == Min({Len(queue), (sqTail + Wrap - sqHead) % Wrap})
     IN \E n \in 1..most : (n = most \/ KernelMayStop) /\ KernelTakes(n)
  /\ MarkRunning
  /\ queue' = <<>>
  /\ UNCHANGED <<ctx, ring, issued, cq, user>>

\* io_uring_process_open_completion_queue over the entries es.
Drained(es) ==
  [i \in Slots |->
     LET mine == {k \in DOMAIN es : es[k].slot = i}
     IN IF mine = {} THEN task[i]
        ELSE [status |-> "DONE", result |-> es[Max(mine)].job]]

Process ==
  /\ ctx = "open" /\ user = Free /\ cq # <<>>
  /\ task' = Drained(cq) /\ cq' = <<>>
  /\ UNCHANGED <<ctx, ring, kernel, queue, issued, user>>

\* io_uring_task_await of a task already DONE; other states than RUNNING are
\* refused without a change.
AwaitDone(i) ==
  /\ ctx = "open" /\ user = Free /\ task[i].status = "DONE"
  /\ task' = [task EXCEPT ![i].status = "READY"]
  /\ UNCHANGED <<ctx, ring, kernel, queue, issued, cq, user>>

AwaitBegin(i) ==
  /\ ctx = "open" /\ user = Free /\ task[i].status = "RUNNING"
  /\ user' = [pc |-> "poll", slot |-> i]
  /\ UNCHANGED <<ctx, ring, kernel, task, queue, issued, cq>>

\* Variant: every completion drained ends the wait.
AwaitPollAny ==
  /\ user.pc = "poll"
  /\ LET drained == Drained(cq)
     IN IF cq # <<>>
        THEN task' = [drained EXCEPT ![user.slot].status = "READY"] /\ user' = Free
        ELSE task' = drained /\ user' = [user EXCEPT !.pc = "sleep"]
  /\ cq' = <<>>
  /\ UNCHANGED <<ctx, ring, kernel, queue, issued>>

\* One round of the loop: drain the queue, then return or wait in the kernel.
AwaitPoll ==
  /\ user.pc = "poll"
  /\ LET drained == Drained(cq)
     IN IF drained[user.slot].status = "DONE"
        THEN task' = [drained EXCEPT ![user.slot].status = "READY"] /\ user' = Free
        ELSE task' = drained /\ user' = [user EXCEPT !.pc = "sleep"]
  /\ cq' = <<>>
  /\ UNCHANGED <<ctx, ring, kernel, queue, issued>>

\* Variant: io_uring_enter waits for two completions.
AwaitWakeTwo ==
  /\ user.pc = "sleep" /\ Len(cq) >= 2
  /\ user' = [user EXCEPT !.pc = "poll"]
  /\ UNCHANGED <<ctx, ring, kernel, task, queue, issued, cq>>

\* io_uring_enter(fd, 0, 1, GETEVENTS) returns once there is a completion.
AwaitWake ==
  /\ user.pc = "sleep" /\ cq # <<>>
  /\ user' = [user EXCEPT !.pc = "poll"]
  /\ UNCHANGED <<ctx, ring, kernel, task, queue, issued, cq>>

\* A signal ends the wait with an error; the task stays RUNNING.
AwaitInterrupted ==
  /\ user.pc = "sleep" /\ user' = Free
  /\ UNCHANGED <<ctx, ring, kernel, task, queue, issued, cq>>

\* The kernel finishes an operation and posts its completion.
Complete(e) ==
  /\ e \in inflight
  /\ inflight' = inflight \ {e}
  /\ cq' = Append(cq, [slot |-> e.slot, job |-> e.job])
  /\ UNCHANGED <<ctx, ring, sqHead, taken, task, queue, issued, user>>

CompleteAny == \E e \in inflight : Complete(e)

Next ==
  \/ CreateContext \/ DestroyContext
  \/ Command \/ Submit \/ Process
  \/ \E i \in Slots : AwaitDone(i) \/ AwaitBegin(i)
  \/ AwaitPoll \/ AwaitWake \/ AwaitInterrupted
  \/ CompleteAny

Spec == Init /\ [][Next]_vars

\* The kernel finishes what it has taken, and a thread inside an await runs.
RingFair == WF_vars(CompleteAny) /\ WF_vars(AwaitPoll) /\ WF_vars(AwaitWake)

(***************************************************************************)
(* Properties                                                              *)
(***************************************************************************)

\* Every operation and completion under way finds its task waiting for exactly
\* this command, at most one of them exists per slot, and a finished task holds
\* the result of its own command: no slot (and so no buffer of the caller) is
\* handed out again while the kernel may still write through it.
CompletionFindsItsTask ==
  /\ \A e \in inflight : task[e.slot].status = "RUNNING" /\ sqe[e.slot] = e.job
  /\ \A k \in DOMAIN cq : task[cq[k].slot].status = "RUNNING" /\ sqe[cq[k].slot] = cq[k].job
  /\ \A i \in Slots :
       Cardinality({e \in inflight : e.slot = i}) + Cardinality({k \in DOMAIN cq : cq[k].slot = i}) <= 1
  /\ \A i \in Slots : ctx = "open" /\ task[i].status = "DONE" => task[i].result = sqe[i]

\* An await of a command that the kernel has taken returns, however many other
\* commands complete before it.
AwaitReturns ==
  (user.pc \in {"poll", "sleep"} /\ taken[sqe[user.slot]] > 0) ~> (user.pc = "free")

Stage(j) ==
  CASE ctx = "closed"  -> "closed"
    [] ctx # "closed" /\ j > issued -> "none"
    [] ctx # "closed" /\ j <= issued /\ taken[j] = 0 -> "queued"
    [] ctx # "closed" /\ taken[j] > 0 /\ (\E e \in inflight : e.job = j) -> "running"
    [] ctx # "closed" /\ taken[j] > 0 /\ (\A e \in inflight : e.job # j)
         /\ (\E i \in Slots : sqe[i] = j /\ task[i].status \in {"RUNNING", "DONE"}) -> "done"
    [] OTHER -> "collected"

Commands == INSTANCE AsyncCommands WITH
  MayRefuse <- FALSE, cmd <- [j \in Jobs |-> Stage(j)]

\* A command is carried out once and its result is handed over once, whatever
\* the order in which tasks are issued, submitted, completed and awaited.
EachCommandOnce == Commands!Spec

(***************************************************************************)
(* A statement of the header that the code does not keep                   *)
(***************************************************************************)

\* io_uring_context.hpp: "submits all unsubmitted commands in the queue".
RunningIsWithKernel ==
  \A i \in Slots : task[i].status = "RUNNING" => taken[sqe[i]] > 0
=============================================================================
