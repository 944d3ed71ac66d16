------------------------------- MODULE Thread -------------------------------
(***************************************************************************)
(* One thread object of thread.hpp on Linux: the thread struct, the stacks *)
(* that mmap hands out with a thread_stack_head near their end, the kernel *)
(* threads started on them, and the threads that call thread_stop, which   *)
(* sleeps on the futex inside the head.                                    *)
(*                                                                         *)
(* A stack is a region of pages 1..size.  Its head lies in the page below  *)
(* the Storage pages at its high end, and the running thread's frames grow *)
(* down from the head.  A head is named by <<region, size>>.               *)
(***************************************************************************)
EXTENDS Naturals

CONSTANTS
  Regions,       \* address ranges the kernel may return from mmap
  MaxPages,      \* bound: the largest stack, in pages
  Sizes,         \* stack_size arguments; 0 asks for the default or the old size
  DefaultPages,  \* THREAD_STACKSIZE_DEFAULT
  Storage,       \* pages of thread storage (THREAD_STACKSIZE_STORAGE_DEFAULT)
  MmapMayFail,   \* whether mmap may report an error
  MaxStarts,     \* bound: kernel threads started in a behaviour
  Callers,       \* threads that may call thread_stop
  Args, NoResult, NoHead

ASSUME ThreadAssumption ==
  /\ MaxPages \in Nat /\ Storage \in Nat /\ MaxStarts \in Nat
  /\ Sizes \subseteq 0..MaxPages
  /\ DefaultPages \in 1..MaxPages
  /\ MmapMayFail \in BOOLEAN
  /\ NoResult \notin Args
  /\ NoHead \notin Regions \X (1..MaxPages)

VARIABLES
  obj,     \* the thread struct: os_thread_data and thread_id (0 stands for -1)
  head,    \* contents of the thread_stack_head at each <<region, size>>
  mapped,  \* pages of each region that are mapped
  kt,      \* kernel threads: where in _clone_entry each is, and on which head
  call,    \* callers of thread_stop: where each is, and whether it is timed
  fault,   \* "none", or why the process died
  careful  \* history: whether every call of the owner was a careful one

vars == <<obj, head, mapped, kt, call, fault, careful>>

Tids  == 1..MaxStarts
Heads == Regions \X (1..MaxPages)

BeforeReturn == {"entry", "user", "publish"}      \* user function not yet published
LivePcs      == BeforeReturn \cup {"wake", "exit"}  \* still executing on the stack
InStop       == {"join", "wait", "woken"}           \* inside thread_stop

HeadPage(h)   == h[2] - Storage
Readable(h)   == HeadPage(h) \in mapped[h[1]]
Live(k)       == kt[k].pc \in LivePcs
Alone(k)      == \A j \in Tids \ {k} : Live(j) => kt[j].on[1] # kt[k].on[1]

TypeOK ==
  /\ obj \in [data : Heads \cup {NoHead}, tid : 0..MaxStarts]
  /\ head \in [Heads -> [state : {"ready", "running", "stopped"},
                         arg : Args \cup {NoResult}, out : Args \cup {NoResult}]]
  /\ mapped \in [Regions -> SUBSET (1..MaxPages)]
  /\ kt \in [Tids -> [pc : LivePcs \cup {"none", "gone"}, on : Heads \cup {NoHead}]]
  /\ call \in [Callers -> [pc : InStop \cup {"idle", "true", "false"}, timed : BOOLEAN]]
  /\ fault \in {"none", "unmapped", "shared stack"}
  /\ careful \in BOOLEAN

\* What a head holds when nobody can read it: fresh pages are zero.
Blank == [state |-> "ready", arg |-> NoResult, out |-> NoResult]

Init ==
  /\ obj = [data |-> NoHead, tid |-> 0]
  /\ head = [h \in Heads |-> Blank]
  /\ mapped = [r \in Regions |-> {}]
  /\ kt = [k \in Tids |-> [pc |-> "none", on |-> NoHead]]
  /\ call = [c \in Callers |-> [pc |-> "idle", timed |-> FALSE]]
  /\ fault = "none"
  /\ careful = TRUE

(***************************************************************************)
(* The owner.  Its calls are guarded by what the code asserts and no more: *)
(* destroy and start by "not running", create by nothing.  Nobody is       *)
(* inside thread_stop of an object that is created again or destroyed.     *)
(*                                                                         *)
(* A call is careful if the header's diagram allows it in the state the    *)
(* object reports (create and destroy: not running; start: ready), and if  *)
(* no started thread has its first store still to do: between clone3 and   *)
(* that store the object goes on reporting READY, the assertions pass, and *)
(* create, destroy and start pull the stack from under the new thread.     *)
(* The history variable careful is read by the properties only.            *)
(***************************************************************************)

Crash(why) == fault' = why /\ UNCHANGED <<obj, head, mapped, kt, call, careful>>

NobodyWaits == \A c \in Callers : call[c].pc \notin InStop

Starting == \E k \in Tids : kt[k].pc = "entry"

CarefulIf(allowed) == careful' = (careful /\ allowed /\ ~Starting)

NotRunning == obj.data # NoHead => head[obj.data].state # "running"

\* Variant: thread_id keeps what an uninitialised struct holds.
SetUpKeepsId(r, s, a) ==
  /\ head' = [head EXCEPT ![<<r, s>>] = [state |-> "ready", arg |-> a, out |-> NoResult]]
  /\ obj' = [data |-> <<r, s>>, tid |-> MaxStarts + 1]

\* get_thread_stack_head, which zeroes the head, and the rest of thread_create.
SetUp(r, s, a) ==
  /\ head' = [head EXCEPT ![<<r, s>>] = [state |-> "ready", arg |-> a, out |-> NoResult]]
  /\ obj' = [data |-> <<r, s>>, tid |-> 0]

\* thread_create of a new or destroyed object.  A stack too small to hold the
\* head behind its storage is unmapped again and changes nothing.
CreateFresh(s0, a) ==
  LET s == IF s0 = 0 THEN DefaultPages ELSE s0
  IN /\ fault = "none" /\ obj.data = NoHead /\ NobodyWaits
     /\ s > Storage
     /\ \E r \in Regions :
          /\ mapped[r] = {}
          /\ mapped' = [mapped EXCEPT ![r] = 1..s]
          /\ SetUp(r, s, a)
     /\ CarefulIf(NotRunning) /\ UNCHANGED <<kt, call, fault>>

\* thread_create of an object that has a stack at least as large as asked for:
\* the stack is reused, with a head where the new size puts it.
CreateReuse(s0, a) ==
  LET r == obj.data[1]
      s == IF s0 = 0 THEN obj.data[2] ELSE s0
  IN /\ fault = "none" /\ obj.data # NoHead /\ NobodyWaits
     /\ Readable(obj.data) /\ s <= obj.data[2]
     /\ IF s <= Storage
        THEN /\ mapped' = [mapped EXCEPT ![r] = @ \ (1..s)]
             /\ UNCHANGED <<obj, head>>
        ELSE Readable(<<r, s>>) /\ SetUp(r, s, a) /\ UNCHANGED mapped
     /\ CarefulIf(NotRunning) /\ UNCHANGED <<kt, call, fault>>

\* thread_create of an object whose stack is too small: the old stack goes
\* first, then a larger one is mapped, which may fail.
CreateLarger(s, a) ==
  LET r == obj.data[1]
      unmapped == [mapped EXCEPT ![r] = @ \ (1..obj.data[2])]
  IN /\ fault = "none" /\ obj.data # NoHead /\ NobodyWaits
     /\ Readable(obj.data) /\ s > obj.data[2]
     /\ \/ \E n \in Regions :
             /\ unmapped[n] = {}
             /\ mapped' = [unmapped EXCEPT ![n] = 1..s]
             /\ SetUp(n, s, a)
        \/ MmapMayFail /\ mapped' = unmapped /\ UNCHANGED <<obj, head>>
     /\ CarefulIf(NotRunning) /\ UNCHANGED <<kt, call, fault>>

ThreadDestroy ==
  /\ fault = "none" /\ obj.data # NoHead /\ NobodyWaits
  /\ Readable(obj.data) /\ NotRunning
  /\ mapped' = [mapped EXCEPT ![obj.data[1]] = @ \ (1..obj.data[2])]
  /\ obj' = [data |-> NoHead, tid |-> 0]
  /\ head' = [head EXCEPT ![obj.data] = Blank]
  /\ CarefulIf(NotRunning) /\ UNCHANGED <<kt, call, fault>>

\* thread_start: clone3 stores the new id through CLONE_PARENT_SETTID and
\* returns; the state stays READY until the new thread runs.
ThreadStart ==
  /\ fault = "none" /\ obj.data # NoHead
  /\ Readable(obj.data) /\ NotRunning
  /\ \E k \in Tids :
       /\ kt[k].pc = "none" /\ \A j \in 1..(k - 1) : kt[j].pc # "none"
       /\ kt' = [kt EXCEPT ![k] = [pc |-> "entry", on |-> obj.data]]
       /\ obj' = [obj EXCEPT !.tid = k]
  /\ CarefulIf(head[obj.data].state = "ready") /\ UNCHANGED <<head, mapped, call, fault>>

\* Any use of an object whose head is no longer mapped kills the process.
UseDangling ==
  /\ fault = "none" /\ obj.data # NoHead /\ ~Readable(obj.data)
  /\ Crash("unmapped")

(***************************************************************************)
(* The new thread, in _clone_entry.  Each step runs on the thread's stack. *)
(***************************************************************************)

At(k, pc) ==
  fault = "none" /\ kt[k].pc = pc /\ Readable(kt[k].on) /\ Alone(k)
Goto(k, pc) == kt' = [kt EXCEPT ![k].pc = pc]

\* Variant: the STOPPED store comes before the call of the user function.
EnterPublishes(k) ==
  /\ At(k, "entry") /\ Goto(k, "user")
  /\ head' = [head EXCEPT ![kt[k].on].state = "stopped"]
  /\ UNCHANGED <<obj, mapped, call, fault, careful>>

Enter(k) ==
  /\ At(k, "entry") /\ Goto(k, "user")
  /\ head' = [head EXCEPT ![kt[k].on].state = "running"]
  /\ UNCHANGED <<obj, mapped, call, fault, careful>>

\* Variant: the result is dropped.
UserReturnsNothing(k) ==
  At(k, "user") /\ Goto(k, "publish") /\ UNCHANGED <<obj, head, mapped, call, fault, careful>>

\* The user function returns, and its result is stored in the head.
UserReturns(k) ==
  /\ At(k, "user") /\ Goto(k, "publish")
  /\ head' = [head EXCEPT ![kt[k].on].out = head[kt[k].on].arg]
  /\ UNCHANGED <<obj, mapped, call, fault, careful>>

Publish(k) ==
  /\ At(k, "publish") /\ Goto(k, "wake")
  /\ head' = [head EXCEPT ![kt[k].on].state = "stopped"]
  /\ UNCHANGED <<obj, mapped, call, fault, careful>>

\* futex_wake(&head->join_futex): everybody asleep on this futex.
Wake(k) ==
  /\ At(k, "wake") /\ Goto(k, "exit")
  /\ call' = [c \in Callers |->
                IF call[c].pc = "wait" /\ kt[k].on = obj.data
                THEN [call[c] EXCEPT !.pc = "woken"] ELSE call[c]]
  /\ UNCHANGED <<obj, head, mapped, fault, careful>>

Exit(k) ==
  /\ At(k, "exit")
  /\ kt' = [kt EXCEPT ![k] = [pc |-> "gone", on |-> NoHead]]
  /\ UNCHANGED <<obj, head, mapped, call, fault, careful>>

\* The thread executes an instruction with its stack unmapped, or while
\* another thread runs on the same stack.
Faults(k) ==
  /\ fault = "none" /\ Live(k)
  /\ \/ ~Readable(kt[k].on) /\ Crash("unmapped")
     \/ ~Alone(k) /\ Crash("shared stack")

(***************************************************************************)
(* thread_stop.  The futex word is never written, so futex_wait(.., 0, ..) *)
(* always goes to sleep.                                                   *)
(***************************************************************************)

Moves(c, from, to) ==
  /\ fault = "none" /\ call[c].pc = from
  /\ call' = [call EXCEPT ![c] = [pc |-> to, timed |-> @.timed /\ to \in InStop]]
  /\ UNCHANGED <<obj, head, mapped, kt, fault, careful>>

\* The early returns: no thread data, or already stopped.
StopBegin(c, timed) ==
  /\ fault = "none" /\ call[c].pc \notin InStop
  /\ obj.data # NoHead => Readable(obj.data)
  /\ call' = [call EXCEPT ![c] =
                IF obj.data = NoHead THEN [pc |-> "true", timed |-> FALSE]
                ELSE IF head[obj.data].state = "stopped" THEN [pc |-> "true", timed |-> FALSE]
                ELSE [pc |-> "join", timed |-> timed]]
  /\ UNCHANGED <<obj, head, mapped, kt, fault, careful>>

\* Variant: the timeout is not handed to futex_wait.
StopWaitUntimed(c) ==
  /\ fault = "none" /\ call[c].pc = "join"
  /\ call' = [call EXCEPT ![c] = [pc |-> "wait", timed |-> FALSE]]
  /\ UNCHANGED <<obj, head, mapped, kt, fault, careful>>

StopWait(c)    == Moves(c, "join", "wait")
StopTimeout(c) == call[c].timed /\ Moves(c, "wait", "false")

\* Variant: every wakeup is taken for the end of the thread.
StopCheckTrusts(c) == Moves(c, "woken", "true")

\* futex_wait returned 0: thread_stop returns linux_thread_is_stopped(head).
StopCheck(c) ==
  Moves(c, "woken", IF head[obj.data].state = "stopped" THEN "true" ELSE "false")

OwnerStep ==
  \/ \E s \in Sizes, a \in Args :
       CreateFresh(s, a) \/ CreateReuse(s, a) \/ CreateLarger(s, a)
  \/ ThreadDestroy
  \/ ThreadStart
  \/ UseDangling

ThreadStep(k) ==
  Enter(k) \/ UserReturns(k) \/ Publish(k) \/ Wake(k) \/ Exit(k) \/ Faults(k)

CallerStep(c) == StopWait(c) \/ StopTimeout(c) \/ StopCheck(c)

Next ==
  \/ OwnerStep
  \/ \E k \in Tids : ThreadStep(k)
  \/ \E c \in Callers : CallerStep(c) \/ \E timed \in BOOLEAN : StopBegin(c, timed)

Spec == Init /\ [][Next]_vars

\* The kernel schedules every runnable thread and every timeout expires; the
\* owner and the callers may stop making calls at any time.
FairSpec ==
  /\ Spec
  /\ \A k \in Tids : WF_vars(ThreadStep(k))
  /\ \A c \in Callers : WF_vars(CallerStep(c))

(***************************************************************************)
(* Properties                                                              *)
(***************************************************************************)

\* As long as the owner is careful, a thread that has not returned from its
\* user function keeps its stack, which is the one of the object, and is the
\* thread the object names: create, destroy and start (thread.cpp) never pull
\* the stack from under it.  Not covered, and refuted without careful: a call
\* between clone3 and the new thread's first store, which the code allows.
UserCodeKeepsItsStack ==
  careful => \A k \in Tids : kt[k].pc \in BeforeReturn =>
    obj.data = kt[k].on /\ obj.tid = k /\ Readable(kt[k].on)

\* As long as the owner is careful, thread_stop returns true only for an
\* object without a thread, or after the user function of the latest start has
\* returned, whichever of the early return, the wakeup and a recycled stack it
\* comes from.
StopTruth ==
  [][careful => \A c \in Callers :
       call[c].pc # "true" /\ call'[c].pc = "true" =>
         \/ obj.data = NoHead
         \/ obj.tid # 0 /\ kt[obj.tid].pc \notin BeforeReturn]_vars

\* A caller that gave thread_stop a timeout returns from it.
TimedStopReturns ==
  \A c \in Callers :
    (call[c].pc \in InStop /\ call[c].timed)
      ~> (call[c].pc \notin InStop \/ fault # "none")

\* The refinement: an object whose stack is gone is the diagram's invalid
\* state, and a result counts once the state is STOPPED.
Usable == IF obj.data = NoHead THEN FALSE ELSE Readable(obj.data)
Diagram ==
  INSTANCE ThreadLifecycle WITH
    phase <- IF Usable THEN head[obj.data].state ELSE "invalid",
    arg   <- IF Usable THEN head[obj.data].arg ELSE NoResult,
    out   <- IF Usable /\ head[obj.data].state = "stopped"
             THEN head[obj.data].out ELSE NoResult

\* As long as the owner is careful, the thread object follows the state
\* diagram of thread.hpp, and the result of the run becomes visible exactly
\* when the state becomes STOPPED.
FollowsDiagram == Diagram!Init /\ [][careful' => Diagram!Next]_(Diagram!vars)

(***************************************************************************)
(* Statements of the documentation that the code does not keep             *)
(***************************************************************************)

\* "Waits until the thread is stopped" (thread.hpp, thread_stop).
StopReturns ==
  \A c \in Callers :
    (call[c].pc \in InStop /\ obj.tid # 0)
      ~> (call[c].pc \notin InStop \/ fault # "none" \/ ~careful)

\* The diagram lets thread_destroy and thread_create follow thread_is_stopped,
\* so doing that must not take the stack from a live thread.
NoFault == careful => fault = "none"
=============================================================================
