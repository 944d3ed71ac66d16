---------------------------- MODULE ThreadProofs ----------------------------
(***************************************************************************)
(* Proofs about Thread, for every set of regions, callers and arguments    *)
(* and every number of pages and starts.                                   *)
(***************************************************************************)
EXTENDS Thread, TLAPS

\* What holds whatever the owner does: types, and heads under whoever needs them.
LiveOnHeads == \A k \in Tids : Live(k) => kt[k].on \in Heads

CallersHold ==
  \A c \in Callers : call[c].pc \in InStop => obj.data # NoHead /\ Readable(obj.data)

Base == TypeOK /\ LiveOnHeads /\ CallersHold

\* What holds as long as the owner is careful.
OnItsStack ==
  \A k \in Tids : kt[k].pc \in BeforeReturn =>
    obj.data = kt[k].on /\ obj.tid = k /\ Readable(kt[k].on)

NotYetStopped ==
  \A k \in Tids : kt[k].pc \in BeforeReturn => head[kt[k].on].state # "stopped"

NeverStarted ==
  obj.data # NoHead /\ obj.tid = 0 /\ Readable(obj.data)
    => head[obj.data].state = "ready"

IInv ==
  /\ Base
  /\ OnItsStack
  /\ NotYetStopped
  /\ NeverStarted

\* Between its first store and its last a thread has a RUNNING head, and one
\* about to publish has left its result there.
RunsWhileInUser ==
  \A k \in Tids : kt[k].pc \in {"user", "publish"} => head[kt[k].on].state = "running"

ResultIsKept ==
  \A k \in Tids : kt[k].pc = "publish" => head[kt[k].on].out = head[kt[k].on].arg

DInv == IInv /\ RunsWhileInUser /\ ResultIsKept

\* The inductive invariant of the whole.
Always == Base /\ (careful => DInv)

\* What a careful call that creates again or destroys has found.
Recyclable == NobodyWaits /\ NotRunning /\ ~Starting

-----------------------------------------------------------------------------

\* Nobody becomes careful again, and a careful call is one that may be made.
LEMMA CarefulBefore == ASSUME [Next]_vars, careful' PROVE careful
<1>1. ASSUME NEW allowed, CarefulIf(allowed) PROVE careful
  BY <1>1 DEF CarefulIf
<1>2. (\E s \in Sizes, a \in Args :
         CreateFresh(s, a) \/ CreateReuse(s, a) \/ CreateLarger(s, a)) \/ ThreadDestroy
       => CarefulIf(NotRunning)
  BY DEF CreateFresh, CreateReuse, CreateLarger, ThreadDestroy
<1>3. ThreadStart => CarefulIf(head[obj.data].state = "ready")
  BY DEF ThreadStart
<1>4. UseDangling \/ UNCHANGED vars => careful' = careful
  BY DEF UseDangling, Crash, vars
<1>5. ASSUME NEW k \in Tids, ThreadStep(k) PROVE careful' = careful
  BY <1>5 DEF ThreadStep, Enter, UserReturns, Publish, Wake, Exit, Faults, Crash
<1>6. ASSUME NEW c \in Callers,
             CallerStep(c) \/ \E timed \in BOOLEAN : StopBegin(c, timed)
      PROVE  careful' = careful
  BY <1>6 DEF CallerStep, StopWait, StopTimeout, StopCheck, Moves, StopBegin
<1> QED
  BY <1>1, <1>2, <1>3, <1>4, <1>5, <1>6 DEF Next, OwnerStep

LEMMA CarefulCall ==
  ASSUME NEW allowed, CarefulIf(allowed), careful'
  PROVE  allowed /\ ~Starting
BY DEF CarefulIf

LEMMA CarefulType ==
  ASSUME TypeOK, NEW allowed, CarefulIf(allowed)
  PROVE  careful' \in BOOLEAN
BY DEF CarefulIf, TypeOK

\* Whatever thread_create sets up is well typed, whether it maps a new stack
\* or reuses the old one (thread.cpp, thread_create).
LEMMA SetUpTypes ==
  ASSUME TypeOK, NEW r \in Regions, NEW s \in 1..MaxPages, NEW a \in Args, SetUp(r, s, a)
  PROVE  /\ obj' = [data |-> <<r, s>>, tid |-> 0]
         /\ obj' \in [data : Heads \cup {NoHead}, tid : 0..MaxStarts]
         /\ head' \in [Heads -> [state : {"ready", "running", "stopped"},
                                 arg : Args \cup {NoResult}, out : Args \cup {NoResult}]]
         /\ head'[<<r, s>>].state = "ready"
<1>1. <<r, s>> \in Heads
  BY DEF Heads
<1>2. obj' = [data |-> <<r, s>>, tid |-> 0]
  BY DEF SetUp
<1>3. obj' \in [data : Heads \cup {NoHead}, tid : 0..MaxStarts]
  BY <1>1, <1>2, ThreadAssumption
<1>4. head' = [head EXCEPT ![<<r, s>>] = [state |-> "ready", arg |-> a, out |-> NoResult]]
  BY DEF SetUp
<1>5. head' \in [Heads -> [state : {"ready", "running", "stopped"},
                           arg : Args \cup {NoResult}, out : Args \cup {NoResult}]]
  BY <1>1, <1>4 DEF TypeOK
<1>6. head'[<<r, s>>].state = "ready"
  BY <1>1, <1>4 DEF TypeOK
<1> QED
  BY <1>2, <1>3, <1>5, <1>6

\* A head names a region and a size in pages.
LEMMA HeadParts ==
  ASSUME NEW h \in Heads
  PROVE  h[1] \in Regions /\ h[2] \in 1..MaxPages /\ h = <<h[1], h[2]>>
BY DEF Heads

\* A careful owner that recycles the object finds nobody in its user function
\* (thread_create and thread_destroy as the header's diagram allows them).
LEMMA NobodyInUserCode ==
  ASSUME DInv, Recyclable
  PROVE  \A k \in Tids : kt[k].pc \notin BeforeReturn
<1>1. SUFFICES ASSUME NEW k \in Tids, kt[k].pc \in BeforeReturn PROVE FALSE
  OBVIOUS
<1>2. kt[k].pc \in {"user", "publish"}
  BY <1>1 DEF Recyclable, Starting, BeforeReturn
<1>3. obj.data = kt[k].on /\ kt[k].on \in Heads
  BY <1>1 DEF DInv, IInv, Base, OnItsStack, LiveOnHeads, Live, LivePcs
<1>4. obj.data # NoHead
  BY <1>3, ThreadAssumption DEF Heads
<1> QED
  BY <1>2, <1>3, <1>4 DEF DInv, RunsWhileInUser, Recyclable, NotRunning

\* A call of thread_create leaves every thread and caller alone, and either
\* leaves the object and its head as they were or sets up a new head.
CreateEffect ==
  /\ UNCHANGED <<kt, call, fault>>
  /\ mapped' \in [Regions -> SUBSET (1..MaxPages)]
  /\ \/ UNCHANGED <<obj, head>> /\ obj.data # NoHead
     \/ \E r \in Regions, s \in 1..MaxPages, a \in Args : SetUp(r, s, a)

\* Every way through thread_create (thread.cpp) has that effect.
LEMMA CreateHasEffect ==
  ASSUME TypeOK, NEW s0 \in Sizes, NEW a \in Args,
         CreateFresh(s0, a) \/ CreateReuse(s0, a) \/ CreateLarger(s0, a)
  PROVE  /\ CreateEffect /\ NobodyWaits /\ CarefulIf(NotRunning)
         /\ obj.data # NoHead => Readable(obj.data)
<1>0. /\ TypeOK /\ s0 \in 0..MaxPages
      /\ mapped \in [Regions -> SUBSET (1..MaxPages)]
      /\ obj.data # NoHead => obj.data \in Heads
  BY ThreadAssumption DEF TypeOK
<1>1. CASE CreateFresh(s0, a)
  <2> DEFINE s == IF s0 = 0 THEN DefaultPages ELSE s0
  <2>1. s \in 1..MaxPages
    BY <1>0, ThreadAssumption
  <2>2. PICK r \in Regions : mapped' = [mapped EXCEPT ![r] = 1..s] /\ SetUp(r, s, a)
    BY <1>1 DEF CreateFresh
  <2>3. 1..s \subseteq 1..MaxPages
    BY <2>1, ThreadAssumption
  <2>4. mapped' \in [Regions -> SUBSET (1..MaxPages)]
    <3> HIDE DEF s
    <3> QED BY <1>0, <2>2, <2>3
  <2>5. \E q \in Regions, n \in 1..MaxPages, b \in Args : SetUp(q, n, b)
    BY <2>1, <2>2
  <2> QED
    BY <1>1, <2>4, <2>5 DEF CreateFresh, CreateEffect
<1>2. CASE CreateReuse(s0, a)
  <2> DEFINE r == obj.data[1]
             s == IF s0 = 0 THEN obj.data[2] ELSE s0
  <2>1. obj.data \in Heads /\ r \in Regions /\ s \in 1..MaxPages
    <3>1. obj.data \in Heads
      BY <1>0, <1>2 DEF CreateReuse
    <3> QED BY <1>0, <3>1, HeadParts, ThreadAssumption
  <2>2. CASE s <= Storage
    <3>1. mapped' = [mapped EXCEPT ![r] = @ \ (1..s)] /\ UNCHANGED <<obj, head>>
      BY <1>2, <2>2 DEF CreateReuse
    <3>2. mapped' \in [Regions -> SUBSET (1..MaxPages)]
      <4> HIDE DEF s, r
      <4> QED BY <1>0, <2>1, <3>1
    <3> QED
      BY <1>2, <3>1, <3>2 DEF CreateReuse, CreateEffect
  <2>3. CASE ~(s <= Storage)
    <3>1. SetUp(r, s, a) /\ UNCHANGED mapped
      BY <1>2, <2>3 DEF CreateReuse
    <3>2. \E q \in Regions, n \in 1..MaxPages, b \in Args : SetUp(q, n, b)
      <4> HIDE DEF s, r
      <4> QED BY <2>1, <3>1
    <3> QED
      BY <1>0, <1>2, <3>1, <3>2 DEF CreateReuse, CreateEffect
  <2> QED
    BY <2>2, <2>3
<1>3. CASE CreateLarger(s0, a)
  <2> DEFINE r == obj.data[1]
             unmapped == [mapped EXCEPT ![r] = @ \ (1..obj.data[2])]
  <2>1. obj.data \in Heads /\ r \in Regions /\ obj.data[2] \in 1..MaxPages
    BY <1>0, <1>3, HeadParts DEF CreateLarger
  <2>2. s0 \in 1..MaxPages /\ 1..s0 \subseteq 1..MaxPages
    BY <1>0, <1>3, <2>1, ThreadAssumption DEF CreateLarger
  <2>3. unmapped \in [Regions -> SUBSET (1..MaxPages)]
    <3> HIDE DEF r
    <3> QED BY <1>0, <2>1
  <2>4. CASE mapped' = unmapped /\ UNCHANGED <<obj, head>>
    BY <1>3, <2>3, <2>4 DEF CreateLarger, CreateEffect
  <2>5. CASE \E n \in Regions : mapped' = [unmapped EXCEPT ![n] = 1..s0] /\ SetUp(n, s0, a)
    <3>1. PICK n \in Regions : mapped' = [unmapped EXCEPT ![n] = 1..s0] /\ SetUp(n, s0, a)
      BY <2>5
    <3>2. mapped' \in [Regions -> SUBSET (1..MaxPages)]
      <4> HIDE DEF unmapped
      <4> QED BY <2>2, <2>3, <3>1
    <3>3. \E q \in Regions, m \in 1..MaxPages, b \in Args : SetUp(q, m, b)
      BY <2>2, <3>1
    <3> QED
      BY <1>3, <3>2, <3>3 DEF CreateLarger, CreateEffect
  <2> QED
    BY <1>3, <2>4, <2>5 DEF CreateLarger
<1> QED
  BY <1>1, <1>2, <1>3

-----------------------------------------------------------------------------

\* An object that was never created satisfies the inductive invariant.
LEMMA InitAlways == Init => DInv
<1> SUFFICES ASSUME Init PROVE DInv
  OBVIOUS
<1>1. TypeOK
  BY ThreadAssumption DEF Init, TypeOK, Blank
<1>2. \A k \in Tids : kt[k].pc = "none"
  BY DEF Init
<1>3. LiveOnHeads /\ OnItsStack /\ NotYetStopped /\ RunsWhileInUser /\ ResultIsKept
  BY <1>2 DEF LiveOnHeads, OnItsStack, NotYetStopped, RunsWhileInUser, ResultIsKept,
              Live, LivePcs, BeforeReturn
<1>4. NeverStarted /\ CallersHold
  BY DEF Init, NeverStarted, CallersHold, InStop
<1> QED
  BY <1>1, <1>3, <1>4 DEF DInv, IInv, Base

\* thread_create, careful or not.
LEMMA CreateKeepsBase ==
  ASSUME Base, CreateEffect, NobodyWaits, CarefulIf(NotRunning)
  PROVE  Base'
<1>1. \A c \in Callers : call'[c] = call[c] /\ call[c].pc \notin InStop
  BY DEF CreateEffect, NobodyWaits
<1>2. LiveOnHeads' /\ CallersHold'
  BY <1>1 DEF Base, LiveOnHeads, CallersHold, Live, CreateEffect
<1>3. TypeOK /\ careful' \in BOOLEAN
  BY CarefulType DEF Base
<1>4. CASE UNCHANGED <<obj, head>>
  BY <1>2, <1>3, <1>4 DEF Base, TypeOK, CreateEffect
<1>5. ASSUME NEW r \in Regions, NEW s \in 1..MaxPages, NEW a \in Args, SetUp(r, s, a)
      PROVE  Base'
  <2>1. /\ obj' \in [data : Heads \cup {NoHead}, tid : 0..MaxStarts]
        /\ head' \in [Heads -> [state : {"ready", "running", "stopped"},
                                arg : Args \cup {NoResult}, out : Args \cup {NoResult}]]
    BY <1>3, <1>5, SetUpTypes
  <2> QED
    BY <1>2, <1>3, <2>1 DEF Base, TypeOK, CreateEffect
<1> QED
  BY <1>4, <1>5 DEF CreateEffect

\* A careful thread_create keeps what a careful owner relies on.
LEMMA CreateKeepsDInv ==
  ASSUME DInv, CreateEffect, Recyclable, CarefulIf(NotRunning),
         obj.data # NoHead => Readable(obj.data)
  PROVE  DInv'
<1>1. \A k \in Tids : kt'[k] = kt[k] /\ kt[k].pc \notin BeforeReturn
  BY NobodyInUserCode DEF CreateEffect
<1>2. (OnItsStack /\ NotYetStopped /\ RunsWhileInUser /\ ResultIsKept)'
  BY <1>1 DEF OnItsStack, NotYetStopped, RunsWhileInUser, ResultIsKept, BeforeReturn
<1>3. Base'
  BY CreateKeepsBase DEF DInv, IInv, Recyclable
<1>4. CASE UNCHANGED <<obj, head>> /\ obj.data # NoHead
  <2>1. NeverStarted'
    BY <1>4 DEF DInv, IInv, NeverStarted
  <2> QED
    BY <1>2, <1>3, <2>1 DEF DInv, IInv
<1>5. ASSUME NEW r \in Regions, NEW s \in 1..MaxPages, NEW a \in Args, SetUp(r, s, a)
      PROVE  DInv'
  <2>1. TypeOK
    BY DEF DInv, IInv, Base
  <2>2. obj' = [data |-> <<r, s>>, tid |-> 0] /\ head'[<<r, s>>].state = "ready"
    BY <1>5, <2>1, SetUpTypes
  <2>3. NeverStarted'
    BY <2>2 DEF NeverStarted
  <2> QED
    BY <1>2, <1>3, <2>3 DEF DInv, IInv
<1> QED
  BY <1>4, <1>5 DEF CreateEffect

\* thread_destroy.
LEMMA DestroyKeepsBase == ASSUME Base, ThreadDestroy PROVE Base'
<1>1. obj.data \in Heads /\ TypeOK /\ careful' \in BOOLEAN
  BY CarefulType DEF Base, TypeOK, ThreadDestroy
<1>2. \A c \in Callers : call'[c] = call[c] /\ call[c].pc \notin InStop
  BY DEF ThreadDestroy, NobodyWaits
<1>3. (LiveOnHeads /\ CallersHold)'
  BY <1>2 DEF ThreadDestroy, Base, LiveOnHeads, CallersHold, Live
<1>4. obj' \in [data : Heads \cup {NoHead}, tid : 0..MaxStarts]
  BY ThreadAssumption DEF ThreadDestroy
<1>5. head' \in [Heads -> [state : {"ready", "running", "stopped"},
                           arg : Args \cup {NoResult}, out : Args \cup {NoResult}]]
  BY <1>1 DEF TypeOK, ThreadDestroy, Blank
<1>6. mapped' \in [Regions -> SUBSET (1..MaxPages)]
  BY <1>1, HeadParts DEF TypeOK, ThreadDestroy
<1>7. TypeOK'
  BY <1>1, <1>4, <1>5, <1>6 DEF TypeOK, ThreadDestroy
<1> QED
  BY <1>3, <1>7 DEF Base

LEMMA DestroyKeepsDInv == ASSUME DInv, ThreadDestroy, Recyclable PROVE DInv'
<1>1. \A k \in Tids : kt'[k] = kt[k] /\ kt[k].pc \notin BeforeReturn
  BY NobodyInUserCode DEF ThreadDestroy
<1>2. (OnItsStack /\ NotYetStopped /\ RunsWhileInUser /\ ResultIsKept)'
  BY <1>1 DEF OnItsStack, NotYetStopped, RunsWhileInUser, ResultIsKept, BeforeReturn
<1>3. NeverStarted'
  BY DEF ThreadDestroy, NeverStarted
<1>4. Base'
  BY DestroyKeepsBase DEF DInv, IInv
<1> QED
  BY <1>2, <1>3, <1>4 DEF DInv, IInv

\* What thread_start does to the object and the kernel threads.
LEMMA StartEffect ==
  ASSUME Base, ThreadStart
  PROVE  /\ obj.data \in Heads /\ Readable(obj.data)
         /\ UNCHANGED <<head, mapped, call, fault>>
         /\ obj'.data = obj.data
         /\ obj' \in [data : Heads \cup {NoHead}, tid : 0..MaxStarts]
         /\ kt' \in [Tids -> [pc : LivePcs \cup {"none", "gone"}, on : Heads \cup {NoHead}]]
         /\ \E k \in Tids :
              /\ obj'.tid = k
              /\ kt'[k] = [pc |-> "entry", on |-> obj.data]
              /\ \A j \in Tids \ {k} : kt'[j] = kt[j]
<1>1. PICK k \in Tids :
        /\ kt[k].pc = "none"
        /\ kt' = [kt EXCEPT ![k] = [pc |-> "entry", on |-> obj.data]]
        /\ obj' = [obj EXCEPT !.tid = k]
  BY DEF ThreadStart
<1>2. /\ obj.data \in Heads /\ Readable(obj.data)
      /\ UNCHANGED <<head, mapped, call, fault>>
  BY DEF Base, TypeOK, ThreadStart
<1>3. /\ obj'.data = obj.data /\ obj'.tid = k
      /\ obj' \in [data : Heads \cup {NoHead}, tid : 0..MaxStarts]
  <2>1. k \in 0..MaxStarts
    BY ThreadAssumption DEF Tids
  <2>2. obj \in [data : Heads \cup {NoHead}, tid : 0..MaxStarts]
    BY DEF Base, TypeOK
  <2> QED BY <1>1, <2>1, <2>2
<1>4. /\ kt'[k] = [pc |-> "entry", on |-> obj.data]
      /\ \A j \in Tids \ {k} : kt'[j] = kt[j]
      /\ kt' \in [Tids -> [pc : LivePcs \cup {"none", "gone"}, on : Heads \cup {NoHead}]]
  BY <1>1, <1>2 DEF Base, TypeOK, LivePcs, BeforeReturn
<1> QED
  BY <1>2, <1>3, <1>4

LEMMA StartKeepsBase == ASSUME Base, ThreadStart PROVE Base'
<1>1. TypeOK /\ careful' \in BOOLEAN
  BY CarefulType DEF Base, ThreadStart
<1>2. TypeOK'
  BY <1>1, StartEffect DEF TypeOK
<1>3. LiveOnHeads'
  BY StartEffect DEF Base, LiveOnHeads, Live
<1>4. CallersHold'
  BY StartEffect DEF Base, CallersHold, Readable, HeadPage
<1> QED
  BY <1>2, <1>3, <1>4 DEF Base

\* A careful thread_start: the new kernel thread is the only one on its head.
LEMMA StartKeepsDInv ==
  ASSUME DInv, ThreadStart, head[obj.data].state = "ready", ~Starting
  PROVE  DInv'
<1>1. Base /\ Base'
  BY StartKeepsBase DEF DInv, IInv
<1>2. \A j \in Tids : kt[j].pc \notin BeforeReturn
  <2>1. SUFFICES ASSUME NEW j \in Tids, kt[j].pc \in BeforeReturn PROVE FALSE
    OBVIOUS
  <2>2. kt[j].pc \in {"user", "publish"}
    BY <2>1 DEF Starting, BeforeReturn
  <2>3. obj.data = kt[j].on
    BY <2>1 DEF DInv, IInv, OnItsStack
  <2> QED
    BY <2>2, <2>3 DEF DInv, RunsWhileInUser
<1>3. PICK k \in Tids :
         /\ obj'.tid = k
         /\ kt'[k] = [pc |-> "entry", on |-> obj.data]
         /\ \A j \in Tids \ {k} : kt'[j] = kt[j]
  BY <1>1, StartEffect
<1>4. /\ obj'.data = obj.data /\ UNCHANGED <<head, mapped>> /\ Readable(obj.data)
  BY <1>1, StartEffect
<1>5. OnItsStack'
  BY <1>2, <1>3, <1>4 DEF OnItsStack, Readable, HeadPage
<1>6. NotYetStopped'
  BY <1>2, <1>3, <1>4 DEF NotYetStopped
<1>7. NeverStarted'
  BY <1>3, ThreadAssumption DEF NeverStarted, Tids
<1>8. (RunsWhileInUser /\ ResultIsKept)'
  BY <1>2, <1>3 DEF RunsWhileInUser, ResultIsKept, BeforeReturn
<1> QED
  BY <1>1, <1>5, <1>6, <1>7, <1>8 DEF DInv, IInv

\* The contents of a thread_stack_head.
HeadRecords == [state : {"ready", "running", "stopped"},
                arg : Args \cup {NoResult}, out : Args \cup {NoResult}]

\* A store to the state of one head (Enter and Publish) leaves the others alone.
LEMMA StateStore ==
  ASSUME head \in [Heads -> HeadRecords], NEW h \in Heads,
         NEW st \in {"ready", "running", "stopped"},
         head' = [head EXCEPT ![h].state = st]
  PROVE  /\ head' \in [Heads -> HeadRecords]
         /\ head'[h].state = st
         /\ \A g \in Heads \ {h} : head'[g] = head[g]
<1> DEFINE new == [head[h] EXCEPT !.state = st]
<1>1. head[h] \in HeadRecords
  OBVIOUS
<1>2. new \in HeadRecords /\ new.state = st
  BY <1>1 DEF HeadRecords
<1>3. head' = [head EXCEPT ![h] = new]
  OBVIOUS
<1> HIDE DEF new
<1> QED
  BY <1>2, <1>3

\* The store of a result leaves every state and every other head alone.
LEMMA ResultStore ==
  ASSUME head \in [Heads -> HeadRecords], NEW h \in Heads,
         head' = [head EXCEPT ![h].out = head[h].arg]
  PROVE  /\ head' \in [Heads -> HeadRecords]
         /\ \A g \in Heads : head'[g].state = head[g].state
<1> DEFINE new == [head[h] EXCEPT !.out = head[h].arg]
<1>1. head[h] \in HeadRecords
  OBVIOUS
<1>2. new \in HeadRecords /\ new.state = head[h].state
  BY <1>1 DEF HeadRecords
<1>3. head' = [head EXCEPT ![h] = new]
  OBVIOUS
<1> HIDE DEF new
<1> QED
  BY <1>2, <1>3

\* A step of _clone_entry changes one head and the thread's place, no stack.
LEMMA ThreadStepShape ==
  ASSUME Base, NEW k \in Tids, ThreadStep(k)
  PROVE  /\ UNCHANGED <<obj, mapped, careful>>
         /\ kt' \in [Tids -> [pc : LivePcs \cup {"none", "gone"}, on : Heads \cup {NoHead}]]
         /\ \A j \in Tids \ {k} : kt'[j] = kt[j]
         /\ kt'[k].pc = "gone" \/ kt'[k].on = kt[k].on
         /\ Live(k)
         /\ kt'[k].pc \in BeforeReturn => kt[k].pc \in BeforeReturn
<1> USE DEF At, Goto, Base
<1>1. TypeOK
  OBVIOUS
<1>2. UNCHANGED <<obj, mapped, careful>>
  BY DEF ThreadStep, Enter, UserReturns, Publish, Wake, Exit, Faults, Crash
<1>3. CASE Faults(k)
  <2>1. kt' = kt /\ Live(k)
    BY <1>3 DEF Faults, Crash
  <2> QED
    BY <1>1, <1>2, <2>1 DEF TypeOK
<1>4. CASE Exit(k)
  <2>1. kt[k].pc = "exit" /\ kt' = [kt EXCEPT ![k] = [pc |-> "gone", on |-> NoHead]]
    BY <1>4 DEF Exit
  <2> QED
    BY <1>1, <1>2, <2>1 DEF TypeOK, Live, LivePcs, BeforeReturn
<1>5. CASE Enter(k) \/ UserReturns(k) \/ Publish(k) \/ Wake(k)
  <2> DEFINE To(from, to) ==
               /\ kt[k].pc = from /\ kt' = [kt EXCEPT ![k].pc = to]
               /\ to \in BeforeReturn => from \in BeforeReturn
  <2>a. Enter(k) => To("entry", "user")
    BY DEF Enter, BeforeReturn
  <2>b. UserReturns(k) => To("user", "publish")
    BY DEF UserReturns, BeforeReturn
  <2>c. Publish(k) => To("publish", "wake")
    BY DEF Publish, BeforeReturn
  <2>d. Wake(k) => To("wake", "exit")
    BY DEF Wake, BeforeReturn
  <2>e. /\ "entry" \in LivePcs /\ "user" \in LivePcs /\ "publish" \in LivePcs
        /\ "wake" \in LivePcs /\ "exit" \in LivePcs
    BY DEF LivePcs, BeforeReturn
  <2>1. PICK from \in LivePcs, to \in LivePcs : To(from, to)
    <3>1. To("entry", "user") \/ To("user", "publish") \/ To("publish", "wake")
            \/ To("wake", "exit")
      BY <1>5, <2>a, <2>b, <2>c, <2>d
    <3> HIDE DEF To
    <3> QED  BY <3>1, <2>e, Zenon
  <2>g. kt' = [kt EXCEPT ![k].pc = to] /\ kt[k].pc = from
        /\ (to \in BeforeReturn => from \in BeforeReturn)
    BY <2>1
  <2>h. kt \in [Tids -> [pc : LivePcs \cup {"none", "gone"}, on : Heads \cup {NoHead}]]
    BY <1>1 DEF TypeOK
  <2> HIDE DEF To, Base
  <2>2. /\ kt'[k].pc = to /\ kt'[k].on = kt[k].on
        /\ \A j \in Tids \ {k} : kt'[j] = kt[j]
        /\ kt' \in [Tids -> [pc : LivePcs \cup {"none", "gone"}, on : Heads \cup {NoHead}]]
    BY <2>g, <2>h
  <2> QED
    BY <1>2, <2>g, <2>2 DEF Live
<1> QED
  BY <1>3, <1>4, <1>5 DEF ThreadStep

\* Whatever the owner did, a step of a thread keeps types and heads.
LEMMA ThreadStepKeepsBase ==
  ASSUME Base, NEW k \in Tids, ThreadStep(k)
  PROVE  Base'
<1> USE DEF At, Goto
<1>1. /\ TypeOK /\ kt[k].on \in Heads /\ UNCHANGED <<obj, mapped, careful>>
      /\ kt' \in [Tids -> [pc : LivePcs \cup {"none", "gone"}, on : Heads \cup {NoHead}]]
  BY ThreadStepShape DEF Base, LiveOnHeads
<1>2. head' \in [Heads -> HeadRecords]
  <2>1. CASE Enter(k) \/ Publish(k)
    <3>1. PICK st \in {"ready", "running", "stopped"} :
            head' = [head EXCEPT ![kt[k].on].state = st]
      BY <2>1 DEF Enter, Publish
    <3> QED
      BY <1>1, <3>1, StateStore DEF TypeOK, HeadRecords
  <2>2. CASE UserReturns(k)
    BY <1>1, <2>2, ResultStore DEF UserReturns, TypeOK, HeadRecords
  <2>3. CASE Wake(k) \/ Exit(k) \/ Faults(k)
    BY <1>1, <2>3 DEF Wake, Exit, Faults, Crash, TypeOK, HeadRecords
  <2> QED
    BY <2>1, <2>2, <2>3 DEF ThreadStep
<1>3. /\ call' \in [Callers -> [pc : InStop \cup {"idle", "true", "false"}, timed : BOOLEAN]]
      /\ \A c \in Callers : call'[c].pc \in InStop => call[c].pc \in InStop
  <2>1. CASE Wake(k)
    <3>1. call' = [c \in Callers |->
                     IF call[c].pc = "wait" /\ kt[k].on = obj.data
                     THEN [call[c] EXCEPT !.pc = "woken"] ELSE call[c]]
      BY <2>1 DEF Wake
    <3> QED
      BY <1>1, <3>1 DEF TypeOK, InStop
  <2>2. CASE ~Wake(k)
    <3>1. call' = call
      BY <2>2 DEF ThreadStep, Enter, UserReturns, Publish, Exit, Faults, Crash
    <3> QED
      BY <1>1, <3>1 DEF TypeOK
  <2> QED
    BY <2>1, <2>2
<1>4. fault' \in {"none", "unmapped", "shared stack"}
  BY <1>1 DEF TypeOK, ThreadStep, Enter, UserReturns, Publish, Wake, Exit, Faults, Crash
<1>5. TypeOK'
  BY <1>1, <1>2, <1>3, <1>4 DEF TypeOK, HeadRecords
<1>6. LiveOnHeads'
  BY <1>1, ThreadStepShape DEF Base, LiveOnHeads, Live, LivePcs, BeforeReturn
<1>7. CallersHold'
  BY <1>1, <1>3 DEF Base, CallersHold, Readable, HeadPage
<1> QED
  BY <1>5, <1>6, <1>7 DEF Base

\* As long as the owner is careful, it keeps the rest.
LEMMA ThreadStepKeepsIInv ==
  ASSUME IInv, NEW k \in Tids, ThreadStep(k)
  PROVE  IInv'
<1> USE DEF At, Goto
<1>0. TypeOK /\ Base' /\ kt[k].on \in Heads /\ UNCHANGED <<obj, mapped>>
  BY ThreadStepKeepsBase, ThreadStepShape DEF IInv, Base, LiveOnHeads
<1>1. OnItsStack'
  BY <1>0, ThreadStepShape DEF IInv, OnItsStack, Readable, HeadPage, BeforeReturn
<1>2. kt[k].pc \in BeforeReturn => obj.tid = k /\ k # 0
  BY ThreadAssumption DEF IInv, OnItsStack, Tids
<1>3. \A j \in Tids : kt'[j].pc \in BeforeReturn => kt[j].pc \in BeforeReturn /\ kt'[j].on = kt[j].on
  BY ThreadStepShape DEF IInv, BeforeReturn
<1>4. ASSUME \A h \in Heads : head'[h].state = head[h].state
      PROVE  NotYetStopped' /\ NeverStarted'
  <2>1. NotYetStopped'
    BY <1>3, <1>4 DEF IInv, Base, NotYetStopped, LiveOnHeads, Live, LivePcs
  <2>2. NeverStarted'
    BY <1>0, <1>4 DEF IInv, TypeOK, NeverStarted, Readable, HeadPage
  <2> QED
    BY <2>1, <2>2
<1>5. CASE Enter(k)
  <2>1. kt[k].pc = "entry" /\ head' = [head EXCEPT ![kt[k].on].state = "running"]
    BY <1>5 DEF Enter
  <2>2. \A h \in Heads : head'[h].state # "stopped" \/ head'[h] = head[h]
    BY <1>0, <2>1, StateStore DEF TypeOK, HeadRecords
  <2>3. NotYetStopped'
    BY <1>3, <2>2 DEF IInv, Base, NotYetStopped, LiveOnHeads, Live, LivePcs
  <2>4. NeverStarted'
    BY <1>0, <1>2, <2>1 DEF NeverStarted, BeforeReturn
  <2> QED
    BY <1>0, <1>1, <2>3, <2>4 DEF IInv
<1>6. CASE UserReturns(k)
  BY <1>0, <1>1, <1>4, <1>6, ResultStore DEF IInv, UserReturns, TypeOK, HeadRecords
<1>7. CASE Publish(k)
  <2>1. kt[k].pc = "publish" /\ kt'[k].pc = "wake"
    BY <1>0, <1>7 DEF Publish, TypeOK
  <2>2. \A j \in Tids : kt'[j].pc \notin BeforeReturn
    BY <1>2, <1>3, <2>1 DEF IInv, OnItsStack, BeforeReturn
  <2>3. NotYetStopped' /\ NeverStarted'
    BY <1>0, <1>2, <2>1, <2>2 DEF NotYetStopped, NeverStarted, BeforeReturn
  <2> QED
    BY <1>0, <1>1, <2>3 DEF IInv
<1>8. CASE Wake(k) \/ Exit(k) \/ Faults(k)
  BY <1>0, <1>1, <1>4, <1>8 DEF IInv, Wake, Exit, Faults, Crash
<1> QED
  BY <1>5, <1>6, <1>7, <1>8 DEF ThreadStep

\* A step inside thread_stop changes only that caller, and enters thread_stop
\* only on an object whose head can be read.
LEMMA CallerKeepsBase ==
  ASSUME Base, NEW c \in Callers,
         CallerStep(c) \/ \E timed \in BOOLEAN : StopBegin(c, timed)
  PROVE  Base' /\ UNCHANGED <<obj, head, mapped, kt, fault, careful>>
<1>0. TypeOK
  BY DEF Base
<1>1. UNCHANGED <<obj, head, mapped, kt, fault, careful>>
  BY DEF CallerStep, StopWait, StopTimeout, StopCheck, StopBegin, Moves
<1>2. LiveOnHeads'
  BY <1>1 DEF Base, LiveOnHeads, Live
<1>3. ASSUME NEW from \in InStop, NEW to \in InStop \cup {"true", "false"}, Moves(c, from, to)
      PROVE  TypeOK' /\ CallersHold'
  <2>1. /\ call[c].pc \in InStop
        /\ call' = [call EXCEPT ![c] = [pc |-> to, timed |-> @.timed /\ to \in InStop]]
    BY <1>3 DEF Moves
  <2>2. (call[c].timed /\ to \in InStop) \in BOOLEAN
    BY <1>0 DEF TypeOK
  <2>3. call' \in [Callers -> [pc : InStop \cup {"idle", "true", "false"}, timed : BOOLEAN]]
    BY <1>0, <2>1, <2>2 DEF TypeOK
  <2>4. TypeOK'
    BY <1>0, <1>1, <2>3 DEF TypeOK
  <2>5. CallersHold'
    BY <1>0, <1>1, <2>1 DEF Base, TypeOK, CallersHold, Readable, HeadPage
  <2> QED
    BY <2>4, <2>5
<1>4. CASE CallerStep(c)
  BY <1>0, <1>1, <1>2, <1>3, <1>4 DEF Base, CallerStep, StopWait, StopTimeout, StopCheck, InStop
<1>5. ASSUME NEW timed \in BOOLEAN, StopBegin(c, timed) PROVE Base'
  <2> DEFINE new == IF obj.data = NoHead THEN [pc |-> "true", timed |-> FALSE]
                    ELSE IF head[obj.data].state = "stopped"
                         THEN [pc |-> "true", timed |-> FALSE]
                         ELSE [pc |-> "join", timed |-> timed]
  <2>1. call' = [call EXCEPT ![c] = new] /\ (obj.data # NoHead => Readable(obj.data))
    BY <1>5 DEF StopBegin
  <2>2. /\ new \in [pc : InStop \cup {"idle", "true", "false"}, timed : BOOLEAN]
        /\ new.pc \in InStop => obj.data # NoHead
    BY DEF InStop
  <2> HIDE DEF new
  <2>3. TypeOK'
    BY <1>0, <1>1, <2>1, <2>2 DEF TypeOK
  <2>4. CallersHold'
    BY <1>0, <1>1, <2>1, <2>2 DEF Base, TypeOK, CallersHold, Readable, HeadPage
  <2> QED
    BY <1>2, <2>3, <2>4 DEF Base
<1> QED
  BY <1>1, <1>4, <1>5

\* What a step that leaves object, heads, stacks and threads alone keeps.
LEMMA StillKeepsDInv ==
  ASSUME DInv, Base', UNCHANGED <<obj, head, mapped, kt>>
  PROVE  DInv'
BY DEF DInv, IInv, OnItsStack, NotYetStopped, NeverStarted, RunsWhileInUser,
       ResultIsKept, Readable, HeadPage

\* At most one thread is before its return, on the head of the object.
LEMMA OnlyOneInUser ==
  ASSUME IInv, NEW j \in Tids, NEW k \in Tids,
         kt[j].pc \in BeforeReturn, kt[k].pc \in BeforeReturn
  PROVE  j = k
BY DEF IInv, OnItsStack

\* The object of a thread before its return is usable, and its head is the thread's.
LEMMA UsableInUser ==
  ASSUME IInv, NEW k \in Tids, kt[k].pc \in BeforeReturn
  PROVE  Usable /\ obj.data = kt[k].on /\ obj.data \in Heads
<1>1. obj.data = kt[k].on /\ Readable(kt[k].on)
  BY DEF IInv, OnItsStack
<1>2. kt[k].on \in Heads
  BY DEF IInv, Base, LiveOnHeads, Live, LivePcs
<1> QED
  BY <1>1, <1>2, ThreadAssumption DEF Usable, Heads

\* What a thread relies on between its stores is kept by every thread's steps.
LEMMA ThreadStepKeeps ==
  ASSUME DInv, NEW k \in Tids, ThreadStep(k)
  PROVE  RunsWhileInUser' /\ ResultIsKept'
<1> USE DEF At, Goto
<1>0. TypeOK /\ IInv /\ RunsWhileInUser /\ ResultIsKept
  BY DEF DInv, IInv, Base
<1>1. \A j \in Tids \ {k} : kt'[j] = kt[j]
  BY <1>0 DEF ThreadStep, Enter, UserReturns, Publish, Wake, Exit, Faults, Crash, TypeOK
<1>2. CASE Enter(k)
  <2>1. kt[k].pc = "entry" /\ kt'[k].pc = "user" /\ kt'[k].on = kt[k].on
    BY <1>0, <1>2 DEF Enter, TypeOK
  <2>2. \A j \in Tids : kt'[j].pc \in {"user", "publish"} => j = k
    BY <1>0, <1>1, <2>1, OnlyOneInUser DEF BeforeReturn
  <2>3. kt[k].on \in Heads
    BY <1>0, <2>1, UsableInUser DEF BeforeReturn
  <2>4. head'[kt[k].on].state = "running"
    BY <1>0, <1>2, <2>3, StateStore DEF Enter, TypeOK, HeadRecords
  <2> QED
    BY <2>1, <2>2, <2>4 DEF RunsWhileInUser, ResultIsKept
<1>3. CASE UserReturns(k)
  <2>1. kt[k].pc = "user" /\ kt'[k].pc = "publish" /\ kt'[k].on = kt[k].on
    BY <1>0, <1>3 DEF UserReturns, TypeOK
  <2>2. \A j \in Tids : kt'[j].pc \in {"user", "publish"} => j = k
    BY <1>0, <1>1, <2>1, OnlyOneInUser DEF BeforeReturn
  <2>3. kt[k].on \in Heads
    BY <1>0, <2>1, UsableInUser DEF BeforeReturn
  <2>4. head[kt[k].on].state = "running"
    BY <1>0, <2>1 DEF RunsWhileInUser
  <2>5. head'[kt[k].on].out = head'[kt[k].on].arg /\ head'[kt[k].on].state = "running"
    BY <1>0, <1>3, <2>3, <2>4 DEF UserReturns, TypeOK
  <2> QED
    BY <2>1, <2>2, <2>5 DEF RunsWhileInUser, ResultIsKept
<1>4. CASE Publish(k)
  <2>1. kt[k].pc = "publish" /\ kt'[k].pc = "wake"
    BY <1>0, <1>4 DEF Publish, TypeOK
  <2>2. \A j \in Tids : kt'[j].pc \notin {"user", "publish"}
    BY <1>0, <1>1, <2>1, OnlyOneInUser DEF BeforeReturn
  <2> QED
    BY <2>2 DEF RunsWhileInUser, ResultIsKept
<1>5. CASE Wake(k) \/ Exit(k) \/ Faults(k)
  <2>1. UNCHANGED head
    BY <1>5 DEF Wake, Exit, Faults, Crash
  <2>2. \A j \in Tids : kt'[j].pc \in {"user", "publish"} => kt'[j] = kt[j]
    <3>1. Wake(k) => kt'[k].pc = "exit"
      BY <1>0 DEF Wake, TypeOK
    <3>2. Exit(k) => kt'[k].pc = "gone"
      BY <1>0 DEF Exit, TypeOK
    <3>3. Faults(k) => kt' = kt
      BY DEF Faults, Crash
    <3> QED
      BY <1>1, <1>5, <3>1, <3>2, <3>3
  <2> QED
    BY <1>0, <2>1, <2>2 DEF RunsWhileInUser, ResultIsKept
<1> QED
  BY <1>2, <1>3, <1>4, <1>5 DEF ThreadStep

\* Every step keeps types and heads, whatever the owner does.
LEMMA NextKeepsBase == Base /\ [Next]_vars => Base'
<1> SUFFICES ASSUME Base, [Next]_vars PROVE Base'
  OBVIOUS
<1>0. TypeOK
  BY DEF Base
<1>1. ASSUME NEW s \in Sizes, NEW a \in Args,
             CreateFresh(s, a) \/ CreateReuse(s, a) \/ CreateLarger(s, a)
      PROVE  Base'
  BY <1>0, <1>1, CreateHasEffect, CreateKeepsBase
<1>2. CASE ThreadDestroy
  BY <1>2, DestroyKeepsBase
<1>3. CASE ThreadStart
  BY <1>3, StartKeepsBase
<1>4. CASE UseDangling \/ UNCHANGED vars
  <2>1. UNCHANGED <<obj, head, mapped, kt, call, careful>>
        /\ (fault' = fault \/ fault' = "unmapped")
    BY <1>4 DEF UseDangling, Crash, vars
  <2> QED
    BY <2>1 DEF Base, TypeOK, LiveOnHeads, CallersHold, Live, Readable, HeadPage
<1>5. ASSUME NEW k \in Tids, ThreadStep(k) PROVE Base'
  BY <1>5, ThreadStepKeepsBase
<1>6. ASSUME NEW c \in Callers,
             CallerStep(c) \/ \E timed \in BOOLEAN : StopBegin(c, timed)
      PROVE  Base'
  BY <1>6, CallerKeepsBase
<1> QED
  BY <1>1, <1>2, <1>3, <1>4, <1>5, <1>6 DEF Next, OwnerStep

\* A careful step keeps all of it.
LEMMA NextKeepsDInv == ASSUME DInv, [Next]_vars, careful' PROVE DInv'
<1>0. IInv /\ Base /\ Base' /\ TypeOK
  BY NextKeepsBase DEF DInv, IInv, Base
<1>1. ASSUME NEW s \in Sizes, NEW a \in Args,
             CreateFresh(s, a) \/ CreateReuse(s, a) \/ CreateLarger(s, a)
      PROVE  DInv'
  <2>1. /\ CreateEffect /\ NobodyWaits /\ CarefulIf(NotRunning)
        /\ obj.data # NoHead => Readable(obj.data)
    BY <1>0, <1>1, CreateHasEffect
  <2>2. Recyclable
    BY <2>1, CarefulCall DEF Recyclable
  <2> QED
    BY <2>1, <2>2, CreateKeepsDInv
<1>2. CASE ThreadDestroy
  <2>1. Recyclable
    BY <1>2, CarefulCall DEF Recyclable, ThreadDestroy
  <2> QED
    BY <1>2, <2>1, DestroyKeepsDInv
<1>3. CASE ThreadStart
  <2>1. head[obj.data].state = "ready" /\ ~Starting
    BY <1>3, CarefulCall DEF ThreadStart
  <2> QED
    BY <1>3, <2>1, StartKeepsDInv
<1>4. ASSUME NEW k \in Tids, ThreadStep(k) PROVE DInv'
  BY <1>0, <1>4, ThreadStepKeepsIInv, ThreadStepKeeps DEF DInv
<1>5. ASSUME NEW c \in Callers,
             CallerStep(c) \/ \E timed \in BOOLEAN : StopBegin(c, timed)
      PROVE  DInv'
  BY <1>0, <1>5, CallerKeepsBase, StillKeepsDInv
<1>6. UseDangling \/ UNCHANGED vars => UNCHANGED <<obj, head, mapped, kt>>
  BY DEF UseDangling, Crash, vars
<1> QED
  BY <1>0, <1>1, <1>2, <1>3, <1>4, <1>5, <1>6, StillKeepsDInv DEF Next, OwnerStep

LEMMA NextKeepsAlways == Always /\ [Next]_vars => Always'
<1> SUFFICES ASSUME Always, [Next]_vars PROVE Base' /\ (careful' => DInv')
  BY DEF Always
<1>1. Base'
  BY NextKeepsBase DEF Always
<1>2. ASSUME careful' PROVE DInv'
  BY <1>2, CarefulBefore, NextKeepsDInv DEF Always
<1> QED
  BY <1>1, <1>2

\* The inductive invariant holds throughout every behaviour.
THEOREM Inductive == Spec => []Always
<1>1. Init => Always
  BY InitAlways DEF Always, DInv, IInv
<1> QED
  BY <1>1, NextKeepsAlways, PTL DEF Spec

\* The variables of Thread keep their types (thread.hpp, impl/linux/thread.hpp).
THEOREM TypeCorrect == Spec => []TypeOK
<1>1. Always => TypeOK
  BY DEF Always, Base
<1> QED
  BY <1>1, Inductive, PTL

\* As long as the owner is careful, and in particular keeps out of the time
\* between clone3 and the first store of the new thread, create, destroy and
\* start never take the stack from a thread before its return (thread.cpp).
THEOREM StackSafety == Spec => []UserCodeKeepsItsStack
<1>1. Always => UserCodeKeepsItsStack
  BY DEF Always, DInv, IInv, OnItsStack, UserCodeKeepsItsStack
<1> QED
  BY <1>1, Inductive, PTL

\* A STOPPED head belongs to a started thread whose user function is over.
LEMMA StoppedMeansOver ==
  ASSUME IInv, obj.data # NoHead, Readable(obj.data), head[obj.data].state = "stopped"
  PROVE  obj.tid # 0 /\ kt[obj.tid].pc \notin BeforeReturn
<1>1. obj.tid # 0
  BY DEF IInv, NeverStarted
<1>2. obj.tid \in Tids
  <2>1. obj.tid \in 0..MaxStarts
    BY DEF IInv, Base, TypeOK
  <2> QED BY <1>1, <2>1, ThreadAssumption DEF Tids
<1> QED
  BY <1>1, <1>2 DEF IInv, OnItsStack, NotYetStopped

\* One step: whoever gets "true" gets it for an object without a thread or
\* one whose user function has returned.
TruthStep ==
  \A c \in Callers :
    call[c].pc # "true" /\ call'[c].pc = "true" =>
      \/ obj.data = NoHead
      \/ obj.tid # 0 /\ kt[obj.tid].pc \notin BeforeReturn

\* A step into the answer true is a truthful one.
LEMMA NextTellsTruth == IInv /\ Next => TruthStep
<1> SUFFICES ASSUME IInv, Next, NEW c \in Callers,
                    call[c].pc # "true", call'[c].pc = "true", obj.data # NoHead
             PROVE  obj.tid # 0 /\ kt[obj.tid].pc \notin BeforeReturn
  BY DEF TruthStep
<1>0. TypeOK
  BY DEF IInv, Base
<1>1. ASSUME NEW k \in Tids, Wake(k) PROVE FALSE
  BY <1>0, <1>1 DEF Wake, TypeOK
<1>2. ASSUME NEW d \in Callers, CallerStep(d) PROVE head[obj.data].state = "stopped"
                                                  /\ Readable(obj.data)
  <2>1. d = c
    BY <1>0, <1>2 DEF CallerStep, StopWait, StopTimeout, StopCheck, Moves, TypeOK
  <2>2. call[c].pc \in InStop
    BY <1>2, <2>1 DEF CallerStep, StopWait, StopTimeout, StopCheck, Moves, InStop
  <2>3. Readable(obj.data)
    BY <2>2 DEF IInv, Base, CallersHold
  <2>4. StopCheck(c)
    <3>1. ASSUME NEW from, NEW to, Moves(c, from, to) PROVE to = "true"
      BY <1>0, <3>1 DEF Moves, TypeOK
    <3>2. ~StopWait(c) /\ ~StopTimeout(c)
      BY <3>1 DEF StopWait, StopTimeout
    <3> QED BY <1>2, <2>1, <3>2 DEF CallerStep
  <2>5. head[obj.data].state = "stopped"
    BY <1>0, <2>4 DEF StopCheck, Moves, TypeOK
  <2> QED
    BY <2>3, <2>5
<1>3. ASSUME NEW d \in Callers, NEW timed \in BOOLEAN, StopBegin(d, timed)
      PROVE  head[obj.data].state = "stopped" /\ Readable(obj.data)
  <2>1. d = c
    BY <1>0, <1>3 DEF StopBegin, TypeOK
  <2> QED
    BY <1>0, <1>3, <2>1 DEF StopBegin, TypeOK
<1>4. ASSUME NEW k \in Tids, ThreadStep(k), ~Wake(k) PROVE FALSE
  BY <1>4 DEF ThreadStep, Enter, UserReturns, Publish, Exit, Faults, Crash
<1>5. CASE OwnerStep
  BY <1>5 DEF OwnerStep, CreateFresh, CreateReuse, CreateLarger, ThreadDestroy,
              ThreadStart, UseDangling, Crash
<1> QED
  BY <1>1, <1>2, <1>3, <1>4, <1>5, StoppedMeansOver DEF Next

\* thread_stop of a careful owner's object says "stopped" only when it is true.
THEOREM StopTellsTruth == Spec => StopTruth
<1>1. Always /\ [Next]_vars => [careful => TruthStep]_vars
  BY NextTellsTruth DEF Always, DInv
<1> QED
  BY <1>1, Inductive, PTL DEF Spec, StopTruth, TruthStep

-----------------------------------------------------------------------------
(***************************************************************************)
(* Thread implements ThreadLifecycle: every step of the owner, of a kernel *)
(* thread and of a caller maps to one step of the header's state diagram   *)
(* or changes nothing that it shows.                                       *)
(***************************************************************************)

\* What the diagram shows, as state functions of Thread.
Phase == IF Usable THEN head[obj.data].state ELSE "invalid"
Given == IF Usable THEN head[obj.data].arg ELSE NoResult
Result ==
  IF Usable /\ head[obj.data].state = "stopped" THEN head[obj.data].out ELSE NoResult

Unseen == Phase' = Phase /\ Given' = Given /\ Result' = Result

-----------------------------------------------------------------------------

\* How the diagram's actions read in terms of what the object shows.
LEMMA AsDiagram ==
  /\ Unseen => UNCHANGED Diagram!vars
  /\ \A a \in Args :
       /\ Phase \in {"invalid", "ready", "stopped"}
       /\ Phase' = "ready" /\ Given' = a /\ Result' = NoResult
       => Diagram!Next
  /\ Phase = "ready" /\ Phase' = "running" /\ Given' = Given
       /\ Result' = Result => Diagram!Next
  /\ Phase = "running" /\ Phase' = "stopped" /\ Given' = Given
       /\ Result' = Given => Diagram!Next
  /\ Phase \in {"ready", "stopped"} /\ Phase' = "invalid" /\ Given' = NoResult
       /\ Result' = NoResult => Diagram!Next
<1> USE DEF Phase, Given, Result
<1>1. Unseen => UNCHANGED Diagram!vars
  BY DEF Unseen, Diagram!vars
<1>2. ASSUME NEW a \in Args, Phase \in {"invalid", "ready", "stopped"},
             Phase' = "ready", Given' = a, Result' = NoResult
      PROVE  Diagram!Create(a)
  BY <1>2 DEF Diagram!Create
<1>3. Phase = "ready" /\ Phase' = "running" /\ Given' = Given /\ Result' = Result
        => Diagram!Run
  BY DEF Diagram!Run
<1>4. Phase = "running" /\ Phase' = "stopped" /\ Given' = Given /\ Result' = Given
        => Diagram!Stop
  BY DEF Diagram!Stop
<1>5. ASSUME Phase \in {"ready", "stopped"},
             Phase' = "invalid", Given' = NoResult, Result' = NoResult
      PROVE  Diagram!Destroy
  BY <1>5 DEF Diagram!Destroy
<1> HIDE DEF Phase, Given, Result
<1> QED
  BY <1>1, <1>2, <1>3, <1>4, <1>5 DEF Diagram!Next

\* Nothing shows of a step that leaves the object's data, the heads and the
\* mappings alone.
LEMMA NothingShows ==
  ASSUME obj'.data = obj.data, UNCHANGED <<head, mapped>>
  PROVE  Unseen
BY DEF Unseen, Phase, Given, Result, Usable, Readable, HeadPage

\* An object that a careful owner recycles shows no running thread.
LEMMA RecycledIsStill ==
  ASSUME IInv, Recyclable
  PROVE  Phase \in {"invalid", "ready", "stopped"}
<1>1. CASE ~Usable
  BY <1>1 DEF Phase
<1>2. CASE Usable
  <2>1. obj.data \in Heads /\ head[obj.data].state # "running"
    BY <1>2 DEF Usable, Recyclable, NotRunning, IInv, Base, TypeOK
  <2> QED
    BY <1>2, <2>1 DEF Phase, IInv, Base, TypeOK
<1> QED
  BY <1>1, <1>2

\* A new head that can be read shows as the diagram's create.
LEMMA SetUpShows ==
  ASSUME IInv, NEW r \in Regions, NEW s \in 1..MaxPages, NEW a \in Args,
         SetUp(r, s, a), (s - Storage) \in mapped'[r]
  PROVE  Phase' = "ready" /\ Given' = a /\ Result' = NoResult
<1>1. <<r, s>> \in Heads
  BY DEF Heads
<1>2. obj'.data = <<r, s>> /\ obj'.data # NoHead
  BY <1>1, ThreadAssumption DEF SetUp, Heads
<1>3. head'[<<r, s>>] = [state |-> "ready", arg |-> a, out |-> NoResult]
  BY <1>1 DEF SetUp, IInv, Base, TypeOK
<1>4. Usable'
  BY <1>2 DEF Usable, Readable, HeadPage
<1> QED
  BY <1>2, <1>3, <1>4 DEF Phase, Given, Result

\* A stack that goes shows as the diagram's destroy.
LEMMA StackGoes ==
  ASSUME IInv, Recyclable, Usable, ~Usable'
  PROVE  Diagram!Next
<1>1. Phase \in {"ready", "stopped"}
  <2>1. Phase # "invalid"
    BY DEF Phase, Usable, IInv, Base, TypeOK
  <2> QED  BY <2>1, RecycledIsStill
<1> QED
  BY <1>1, AsDiagram DEF Phase, Given, Result

\* A careful thread_create, in every way it can end (thread.cpp).
LEMMA CreateRefines ==
  ASSUME IInv, Recyclable, NEW s0 \in Sizes, NEW a \in Args,
         CreateFresh(s0, a) \/ CreateReuse(s0, a) \/ CreateLarger(s0, a)
  PROVE  Diagram!Next \/ UNCHANGED Diagram!vars
<1>0. /\ TypeOK /\ s0 \in 0..MaxPages /\ Storage \in Nat /\ MaxPages \in Nat
      /\ mapped \in [Regions -> SUBSET (1..MaxPages)]
      /\ obj.data # NoHead => obj.data \in Heads
  BY ThreadAssumption DEF IInv, Base, TypeOK
<1>1. (obj.data # NoHead => Usable) /\ Phase \in {"invalid", "ready", "stopped"}
  BY <1>0, CreateHasEffect, RecycledIsStill DEF Usable
<1>2. ASSUME NEW r \in Regions, NEW s \in 1..MaxPages, SetUp(r, s, a),
             (s - Storage) \in mapped'[r]
      PROVE  Diagram!Next
  BY <1>1, <1>2, SetUpShows, AsDiagram
<1>3. ASSUME UNCHANGED <<obj, head>>, obj.data # NoHead
      PROVE  Diagram!Next \/ UNCHANGED Diagram!vars
  <2>1. CASE Usable'
    BY <1>1, <1>3, <2>1, AsDiagram DEF Unseen, Phase, Given, Result
  <2>2. CASE ~Usable'
    BY <1>1, <1>3, <2>2, StackGoes
  <2> QED  BY <2>1, <2>2
<1>4. CASE CreateFresh(s0, a)
  <2> DEFINE s == IF s0 = 0 THEN DefaultPages ELSE s0
  <2>1. s \in 1..MaxPages
    BY <1>0, ThreadAssumption
  <2>2. PICK r \in Regions : mapped' = [mapped EXCEPT ![r] = 1..s] /\ SetUp(r, s, a)
    BY <1>4 DEF CreateFresh
  <2>3. s > Storage
    BY <1>4 DEF CreateFresh
  <2>4. mapped'[r] = 1..s /\ (s - Storage) \in 1..s
    <3> HIDE DEF s
    <3> QED  BY <1>0, <2>1, <2>2, <2>3
  <2> HIDE DEF s
  <2> QED
    BY <1>2, <2>1, <2>2, <2>4
<1>5. CASE CreateReuse(s0, a)
  <2> DEFINE r == obj.data[1]
             s == IF s0 = 0 THEN obj.data[2] ELSE s0
  <2>1. obj.data # NoHead /\ obj.data \in Heads /\ r \in Regions /\ s \in 1..MaxPages
    <3>1. obj.data # NoHead /\ obj.data \in Heads
      BY <1>0, <1>5 DEF CreateReuse
    <3> QED  BY <1>0, <3>1, HeadParts, ThreadAssumption
  <2>2. CASE s <= Storage
    BY <1>3, <1>5, <2>1, <2>2 DEF CreateReuse
  <2>3. CASE ~(s <= Storage)
    <3>1. Readable(<<r, s>>) /\ SetUp(r, s, a) /\ UNCHANGED mapped
      BY <1>5, <2>3 DEF CreateReuse
    <3> HIDE DEF r, s
    <3>2. (s - Storage) \in mapped'[r]
      BY <3>1 DEF Readable, HeadPage
    <3> QED
      BY <1>2, <2>1, <3>1, <3>2
  <2> QED
    BY <2>2, <2>3
<1>6. CASE CreateLarger(s0, a)
  <2> DEFINE r == obj.data[1]
             unmapped == [mapped EXCEPT ![r] = @ \ (1..obj.data[2])]
  <2>1. /\ obj.data # NoHead /\ obj.data \in Heads /\ r \in Regions
        /\ obj.data[2] \in 1..MaxPages /\ s0 > obj.data[2] /\ Readable(obj.data)
    BY <1>0, <1>6, HeadParts DEF CreateLarger
  <2>2. s0 \in 1..MaxPages /\ s0 > Storage
    <3>1. (obj.data[2] - Storage) \in 1..MaxPages
      BY <1>0, <2>1 DEF Readable, HeadPage
    <3> QED  BY <1>0, <2>1, <3>1
  <2>3. CASE UNCHANGED <<obj, head>>
    BY <1>3, <2>1, <2>3
  <2>4. ASSUME NEW n \in Regions, mapped' = [unmapped EXCEPT ![n] = 1..s0], SetUp(n, s0, a)
        PROVE  Diagram!Next
    <3>1. unmapped \in [Regions -> SUBSET (1..MaxPages)]
      BY <1>0, <2>1
    <3> HIDE DEF unmapped
    <3>2. mapped'[n] = 1..s0 /\ (s0 - Storage) \in 1..s0
      BY <1>0, <2>2, <2>4, <3>1
    <3> QED
      BY <1>2, <2>2, <2>4, <3>2
  <2> QED
    BY <1>6, <2>3, <2>4 DEF CreateLarger
<1> QED
  BY <1>4, <1>5, <1>6

\* thread_destroy shows as the diagram's destroy.
LEMMA DestroyRefines == ASSUME IInv, Recyclable, ThreadDestroy PROVE Diagram!Next
<1>1. Usable
  BY DEF ThreadDestroy, Usable
<1>2. ~Usable'
  BY DEF ThreadDestroy, Usable
<1> QED
  BY <1>1, <1>2, StackGoes

\* _clone_entry: the state RUNNING and the state STOPPED with the result are the
\* two steps of a thread that show.
LEMMA ThreadStepRefines ==
  ASSUME DInv, NEW k \in Tids, ThreadStep(k)
  PROVE  Diagram!Next \/ UNCHANGED Diagram!vars
<1>0. TypeOK /\ IInv /\ head \in [Heads -> HeadRecords]
  BY DEF DInv, IInv, Base, TypeOK, HeadRecords
<1>1. ASSUME kt[k].pc \in BeforeReturn, UNCHANGED <<obj, mapped>>
      PROVE  /\ Usable /\ Usable' /\ obj.data = kt[k].on /\ obj.data \in Heads
             /\ obj' = obj /\ head[obj.data].state # "stopped"
  <2>1. Usable /\ obj.data = kt[k].on /\ obj.data \in Heads
    BY <1>0, <1>1, UsableInUser
  <2> QED
    BY <1>0, <1>1, <2>1 DEF Usable, Readable, HeadPage, IInv, NotYetStopped
<1>2. CASE Enter(k)
  <2>1. kt[k].pc = "entry" /\ UNCHANGED <<obj, mapped>>
    BY <1>2 DEF Enter, At
  <2>2. /\ head' = [head EXCEPT ![kt[k].on].state = "running"]
        /\ head'[kt[k].on].arg = head[kt[k].on].arg
        /\ head'[kt[k].on].state = "running"
    <3>1. kt[k].on \in Heads
      BY <1>1, <2>1 DEF BeforeReturn
    <3> QED  BY <1>0, <1>2, <3>1 DEF Enter, HeadRecords
  <2>3. /\ Phase = head[obj.data].state /\ Phase' = "running"
        /\ Given' = Given /\ Result' = Result
    BY <1>1, <2>1, <2>2 DEF BeforeReturn, Phase, Given, Result
  <2>4. Phase = "ready" \/ Phase = "running"
    BY <1>0, <1>1, <2>1, <2>3 DEF BeforeReturn, HeadRecords
  <2> QED
    BY <2>3, <2>4, AsDiagram DEF Unseen
<1>3. CASE UserReturns(k)
  <2>1. kt[k].pc = "user" /\ UNCHANGED <<obj, mapped>>
    BY <1>3 DEF UserReturns, At
  <2>2. /\ head'[kt[k].on].arg = head[kt[k].on].arg
        /\ head'[kt[k].on].state = head[kt[k].on].state
    <3>1. kt[k].on \in Heads
      BY <1>1, <2>1 DEF BeforeReturn
    <3> QED  BY <1>0, <1>3, <3>1 DEF UserReturns, HeadRecords
  <2>3. Unseen
    BY <1>1, <2>1, <2>2 DEF BeforeReturn, Unseen, Phase, Given, Result
  <2> QED
    BY <2>3, AsDiagram
<1>4. CASE Publish(k)
  <2>1. kt[k].pc = "publish" /\ UNCHANGED <<obj, mapped>>
    BY <1>4 DEF Publish, At
  <2>2. /\ head'[kt[k].on].arg = head[kt[k].on].arg
        /\ head'[kt[k].on].out = head[kt[k].on].out
        /\ head'[kt[k].on].state = "stopped"
    <3>1. kt[k].on \in Heads
      BY <1>1, <2>1 DEF BeforeReturn
    <3> QED  BY <1>0, <1>4, <3>1 DEF Publish, HeadRecords
  <2>3. head[kt[k].on].state = "running" /\ head[kt[k].on].out = head[kt[k].on].arg
    BY <2>1 DEF DInv, RunsWhileInUser, ResultIsKept
  <2>4. /\ Phase = "running" /\ Phase' = "stopped"
        /\ Given' = Given /\ Result' = Given
    BY <1>1, <2>1, <2>2, <2>3 DEF BeforeReturn, Phase, Given, Result
  <2> QED
    BY <2>4, AsDiagram
<1>5. CASE Wake(k) \/ Exit(k) \/ Faults(k)
  BY <1>5, NothingShows, AsDiagram DEF Wake, Exit, Faults, Crash
<1> QED
  BY <1>2, <1>3, <1>4, <1>5 DEF ThreadStep

\* Every careful step maps to a step of the diagram or to a stutter.
LEMMA NextRefines == Always /\ [Next]_vars => [careful' => Diagram!Next]_(Diagram!vars)
<1> SUFFICES ASSUME Always, [Next]_vars, careful'
             PROVE  Diagram!Next \/ UNCHANGED Diagram!vars
  OBVIOUS
<1>0. DInv /\ IInv /\ TypeOK
  BY CarefulBefore DEF Always, DInv, Base
<1>1. ASSUME obj'.data = obj.data, UNCHANGED <<head, mapped>>
      PROVE  UNCHANGED Diagram!vars
  BY <1>1, NothingShows, AsDiagram
<1>2. ASSUME NEW s \in Sizes, NEW a \in Args,
             CreateFresh(s, a) \/ CreateReuse(s, a) \/ CreateLarger(s, a)
      PROVE  Diagram!Next \/ UNCHANGED Diagram!vars
  <2>1. NobodyWaits /\ CarefulIf(NotRunning)
    BY <1>0, <1>2, CreateHasEffect
  <2>2. Recyclable
    BY <2>1, CarefulCall DEF Recyclable
  <2> QED
    BY <1>0, <1>2, <2>2, CreateRefines
<1>3. CASE ThreadDestroy
  <2>1. Recyclable
    BY <1>3, CarefulCall DEF Recyclable, ThreadDestroy
  <2> QED
    BY <1>0, <1>3, <2>1, DestroyRefines
<1>4. ThreadStart => obj'.data = obj.data /\ UNCHANGED <<head, mapped>>
  BY <1>0 DEF ThreadStart, TypeOK
<1>5. ASSUME NEW k \in Tids, ThreadStep(k)
      PROVE  Diagram!Next \/ UNCHANGED Diagram!vars
  BY <1>0, <1>5, ThreadStepRefines
<1>6. ASSUME NEW c \in Callers,
             CallerStep(c) \/ \E timed \in BOOLEAN : StopBegin(c, timed)
      PROVE  obj'.data = obj.data /\ UNCHANGED <<head, mapped>>
  BY <1>6 DEF CallerStep, StopWait, StopTimeout, StopCheck, Moves, StopBegin
<1>7. UseDangling \/ UNCHANGED vars => obj'.data = obj.data /\ UNCHANGED <<head, mapped>>
  BY DEF UseDangling, Crash, vars
<1> QED
  BY <1>1, <1>2, <1>3, <1>4, <1>5, <1>6, <1>7 DEF Next, OwnerStep

\* The diagram's first state.
LEMMA DiagramInit == Init => Diagram!Init
BY DEF Init, Usable, Diagram!Init

\* As long as the owner is careful, the thread object follows the state diagram
\* of thread.hpp, whatever the sizes asked for, the mappings handed out and the
\* callers waiting.
THEOREM DiagramIsFollowed == Spec => FollowsDiagram
BY Inductive, DiagramInit, NextRefines, PTL DEF Spec, FollowsDiagram
=============================================================================
