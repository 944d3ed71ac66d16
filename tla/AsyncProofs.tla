---------------------------- MODULE AsyncProofs ----------------------------
(***************************************************************************)
(* Proofs about the commands of async_io.hpp on both systems, for every    *)
(* number of entries and of commands: of IoUring for every size of the ring, *)
(* every width of its counters and whether or not the kernel stops half-way, *)
(* of Overlapped, and of a behaviour on either.                            *)
(*                                                                         *)
(* InOrder is assumed of the callers on Linux: with another order a busy slot *)
(* at the tail is stepped over, and the position that is skipped hands an old *)
(* entry to the kernel once more, as the run io_uring_skipped shows.       *)
(***************************************************************************)
EXTENDS MCAsync, NumberProofs, SequenceTheorems

(***************************************************************************)
(* The ring of Linux, whose slots the callers free in its order            *)
(***************************************************************************)

\* Entries between the head and the tail of the ring, and the slot of each.
Pending   == (sqTail + Wrap - sqHead) % Wrap
HeadAt(k) == SlotAt(sqHead + k)

\* What is in the ring are commands in the slots they were given, which the kernel has
\* not seen; the queue holds no more than the ring, and the ring not more than its slots.
RingHoldsUntaken ==
  /\ Pending <= N /\ Len(queue) <= Pending
  /\ \A k \in 0..(Pending - 1) :
       /\ array[HeadAt(k)] = HeadAt(k)
       /\ task[HeadAt(k)].status \in {"SETUP", "RUNNING"}
       /\ taken[sqe[HeadAt(k)]] = 0

\* The queue is the commands that wait for a submit, none of which the kernel has seen.
QueueIsSetUp ==
  /\ \A i \in Slots : task[i].status = "SETUP" => taken[sqe[i]] = 0
  /\ \A q \in DOMAIN queue : task[queue[q]].status = "SETUP"
  /\ \A i \in Slots : task[i].status = "SETUP" => \E q \in DOMAIN queue : queue[q] = i

\* A slot in use has a command that was issued, and no command is in two slots.
SlotsHaveTheirJobs ==
  /\ \A i \in Slots : /\ sqe[i] <= issued
                      /\ task[i].status # "READY" => sqe[i] \in Jobs
  /\ \A i, k \in Slots : sqe[i] = sqe[k] /\ sqe[i] # 0 => i = k

\* CompletionFindsItsTask without counting, and with what the kernel has taken.
OperationsAreApart ==
  /\ \A e, f \in inflight : e.slot = f.slot => e = f
  /\ \A k, l \in DOMAIN cq : cq[k].slot = cq[l].slot => k = l
  /\ \A e \in inflight, k \in DOMAIN cq : e.slot # cq[k].slot

OperationsAreTaken ==
  /\ \A e \in inflight :
       task[e.slot].status = "RUNNING" /\ sqe[e.slot] = e.job /\ taken[e.job] > 0
  /\ \A k \in DOMAIN cq :
       task[cq[k].slot].status = "RUNNING" /\ sqe[cq[k].slot] = cq[k].job /\ taken[cq[k].job] > 0
  /\ \A i \in Slots : task[i].status = "DONE" => task[i].result = sqe[i] /\ taken[sqe[i]] > 0
  /\ \A j \in Jobs : j > issued => taken[j] = 0

OpenInv ==
  RingHoldsUntaken /\ QueueIsSetUp /\ SlotsHaveTheirJobs /\ OperationsAreApart /\ OperationsAreTaken

\* Outside its life a context has nothing under way.
NothingOutside ==
  /\ ctx # "open" => user = Free /\ inflight = {} /\ cq = <<>>
  /\ ctx = "unset" =>
       /\ sqTail = 0 /\ sqHead = 0 /\ queue = <<>> /\ issued = 0
       /\ \A i \in Slots : task[i].status = "READY" /\ sqe[i] = 0
       /\ \A j \in Jobs : taken[j] = 0

\* The inductive invariant; a context that is closed is not used again.
RingInv == TypeOK /\ NothingOutside /\ (ctx = "open" => OpenInv)

-----------------------------------------------------------------------------

\* Positions that are Wrap apart are the same slot.
LEMMA WrappedSlot ==
  ASSUME NEW a \in Nat
  PROVE  SlotAt(a) \in Slots /\ SlotAt(a + Wrap) = SlotAt(a) /\ SlotAt(a + N) = SlotAt(a)
<1>1. PICK m \in Int : Wrap = N * m
  <2>1. Wrap = N * (Wrap \div N) + (Wrap % N) /\ Wrap \div N \in Int /\ Wrap % N = 0
    BY IoUringAssumption
  <2>2. N * (Wrap \div N) + 0 = N * (Wrap \div N)
    BY <2>1, IoUringAssumption
  <2> QED  BY <2>1, <2>2
<1>2. PICK q \in Int, r \in 0..(N - 1) : a = N * q + r
  <2>1. a = N * (a \div N) + (a % N) /\ a \div N \in Int /\ a % N \in 0..(N - 1)
    BY IoUringAssumption
  <2> QED  BY <2>1
<1>3. a + Wrap = N * (q + m) + r /\ a + Wrap \in Int /\ q + m \in Int
  BY <1>1, <1>2, IoUringAssumption
<1>4. a % N = r
  BY <1>2, RemainderIs, IoUringAssumption
<1>5. (a + Wrap) % N = r
  BY <1>2, <1>3, RemainderIs, IoUringAssumption
<1>6. (a + N) % N = r
  <2>1. a + N = N * (q + 1) + r /\ a + N \in Int /\ q + 1 \in Int
    BY <1>2, IoUringAssumption
  <2> QED  BY <1>2, <2>1, RemainderIs, IoUringAssumption
<1> QED  BY <1>4, <1>5, <1>6 DEF SlotAt, Slots

\* As many positions in a row as there are slots are different slots.
LEMMA SlotsApart ==
  ASSUME NEW h \in Nat, NEW k \in 0..(N - 1), NEW l \in 0..(N - 1), SlotAt(h + k) = SlotAt(h + l)
  PROVE  k = l
<1>1. PICK p \in Int, r \in 0..(N - 1) : h + k = N * p + r /\ (h + k) % N = r
  <2>1. h + k = N * ((h + k) \div N) + ((h + k) % N)
        /\ (h + k) \div N \in Int /\ (h + k) % N \in 0..(N - 1)
    BY IoUringAssumption
  <2> QED  BY <2>1
<1>2. PICK q \in Int, t \in 0..(N - 1) : h + l = N * q + t /\ (h + l) % N = t
  <2>1. h + l = N * ((h + l) \div N) + ((h + l) % N)
        /\ (h + l) \div N \in Int /\ (h + l) % N \in 0..(N - 1)
    BY IoUringAssumption
  <2> QED  BY <2>1
<1>3. r = t
  BY <1>1, <1>2 DEF SlotAt
<1>4. N * (p - q) = k - l
  BY <1>1, <1>2, <1>3, IoUringAssumption
<1>5. CASE p = q
  BY <1>4, <1>5, IoUringAssumption
<1>6. CASE p >= q + 1
  <2>1. N * (p - q) >= N * 1
    BY <1>6, IoUringAssumption
  <2> QED  BY <1>4, <2>1, IoUringAssumption
<1>7. CASE p + 1 <= q
  <2>1. N * (p - q) <= N * (-1)
    BY <1>7, IoUringAssumption
  <2> QED  BY <1>4, <2>1, IoUringAssumption
<1> QED  BY <1>5, <1>6, <1>7

\* A counter that has gone round once.
LEMMA OnceRound ==
  ASSUME NEW a \in 0..(2 * Wrap - 1)
  PROVE  a % Wrap = IF a < Wrap THEN a ELSE a - Wrap
<1>1. Wrap \in Nat \ {0}
  BY IoUringAssumption
<1>2. CASE a < Wrap
  <2>1. a = Wrap * 0 + a /\ a \in 0..(Wrap - 1) /\ a \in Int
    BY <1>1, <1>2
  <2> QED  BY <1>1, <1>2, <2>1, RemainderIs
<1>3. CASE ~(a < Wrap)
  <2>1. a = Wrap * 1 + (a - Wrap) /\ a - Wrap \in 0..(Wrap - 1) /\ a \in Int
    BY <1>1, <1>3
  <2> QED  BY <1>1, <1>3, <2>1, RemainderIs
<1> QED  BY <1>2, <1>3

LEMMA PendingIs ==
  ASSUME sqTail \in 0..(Wrap - 1), sqHead \in 0..(Wrap - 1)
  PROVE  /\ Pending = IF sqTail < sqHead THEN sqTail + Wrap - sqHead ELSE sqTail - sqHead
         /\ Pending \in 0..(Wrap - 1)
         /\ HeadAt(Pending) = SlotAt(sqTail)
<1>1. sqTail + Wrap - sqHead \in 0..(2 * Wrap - 1)
  BY IoUringAssumption
<1>2. /\ Pending = IF sqTail < sqHead THEN sqTail + Wrap - sqHead ELSE sqTail - sqHead
      /\ Pending \in 0..(Wrap - 1)
  BY <1>1, OnceRound, IoUringAssumption DEF Pending
<1>3. sqTail \in Nat /\ SlotAt(sqTail + Wrap) = SlotAt(sqTail)
  BY WrappedSlot, IoUringAssumption
<1>4. sqHead + Pending = sqTail \/ sqHead + Pending = sqTail + Wrap
  BY <1>2, IoUringAssumption
<1>5. HeadAt(Pending) = SlotAt(sqTail)
  BY <1>3, <1>4 DEF HeadAt
<1> QED  BY <1>2, <1>5

\* A command adds one to what is pending, behind all the others.
LEMMA TailMoves ==
  ASSUME sqTail \in 0..(Wrap - 1), sqHead \in 0..(Wrap - 1), Pending < N,
         sqTail' = (sqTail + 1) % Wrap, sqHead' = sqHead
  PROVE  /\ sqTail' \in 0..(Wrap - 1) /\ Pending' = Pending + 1
         /\ \A k \in 0..(Pending' - 1) : HeadAt(k)' = HeadAt(k)
<1>1. sqTail + 1 \in 0..(2 * Wrap - 1)
  BY IoUringAssumption
<1>2. sqTail' = (IF sqTail + 1 < Wrap THEN sqTail + 1 ELSE 0) /\ sqTail' \in 0..(Wrap - 1)
  BY <1>1, OnceRound, IoUringAssumption
<1>3. Pending = IF sqTail < sqHead THEN sqTail + Wrap - sqHead ELSE sqTail - sqHead
  BY PendingIs
<1>4. Pending' = IF sqTail' < sqHead THEN sqTail' + Wrap - sqHead ELSE sqTail' - sqHead
  <2>1. sqTail' + Wrap - sqHead \in 0..(2 * Wrap - 1)
    BY <1>2, IoUringAssumption
  <2>2. Pending' = (sqTail' + Wrap - sqHead) % Wrap
    BY DEF Pending
  <2>3. PICK t \in 0..(2 * Wrap - 1) : t = sqTail' + Wrap - sqHead
    BY <2>1
  <2>4. t % Wrap = IF t < Wrap THEN t ELSE t - Wrap
    BY OnceRound
  <2>5. Pending' = IF t < Wrap THEN t ELSE t - Wrap
    BY <2>2, <2>3, <2>4
  <2> QED  BY <1>2, <2>3, <2>5, IoUringAssumption
<1>5. Pending' = Pending + 1
  BY <1>2, <1>3, <1>4, IoUringAssumption
<1> QED  BY <1>2, <1>5 DEF HeadAt

\* What the kernel takes is no longer pending.
LEMMA HeadMoves ==
  ASSUME sqTail \in 0..(Wrap - 1), sqHead \in 0..(Wrap - 1), NEW n \in 1..Pending,
         sqHead' = (sqHead + n) % Wrap, sqTail' = sqTail
  PROVE  /\ sqHead' \in 0..(Wrap - 1) /\ Pending' = Pending - n
         /\ \A k \in Nat : HeadAt(k)' = HeadAt(k + n)
<1>1. /\ Pending = IF sqTail < sqHead THEN sqTail + Wrap - sqHead ELSE sqTail - sqHead
      /\ Pending \in 0..(Wrap - 1)
  BY PendingIs
<1>2. sqHead + n \in 0..(2 * Wrap - 1)
  BY <1>1, IoUringAssumption
<1>3. sqHead' = (IF sqHead + n < Wrap THEN sqHead + n ELSE sqHead + n - Wrap) /\ sqHead' \in 0..(Wrap - 1)
  BY <1>2, OnceRound, IoUringAssumption
<1>4. Pending' = IF sqTail < sqHead' THEN sqTail + Wrap - sqHead' ELSE sqTail - sqHead'
  <2>1. sqTail' + Wrap - sqHead' \in 0..(2 * Wrap - 1)
    BY <1>3, IoUringAssumption
  <2> QED  BY <1>3, <2>1, OnceRound, IoUringAssumption DEF Pending
<1>5. Pending' = Pending - n
  BY <1>1, <1>3, <1>4, IoUringAssumption
<1>6. ASSUME NEW k \in Nat
      PROVE  HeadAt(k)' = HeadAt(k + n)
  <2>1. CASE sqHead + n < Wrap
    BY <1>3, <2>1, IoUringAssumption DEF HeadAt
  <2>2. CASE ~(sqHead + n < Wrap)
    <3>1. sqHead' + k \in Nat /\ sqHead + (k + n) = (sqHead' + k) + Wrap
      BY <1>3, <2>2, IoUringAssumption
    <3> QED  BY <3>1, WrappedSlot DEF HeadAt
  <2> QED  BY <2>1, <2>2
<1> QED  BY <1>3, <1>5, <1>6

-----------------------------------------------------------------------------

LEMMA RingInit == Init => RingInv
<1> SUFFICES ASSUME Init PROVE RingInv
  OBVIOUS
<1>1. TypeOK
  <2>1. 0 \in Slots /\ 0 \in 0..(Wrap - 1)
    BY IoUringAssumption DEF Slots
  <2>2. queue \in Seq(Slots) /\ Len(queue) <= N /\ cq \in Seq([slot : Slots, job : Jobs])
    BY EmptySeq, IoUringAssumption DEF Init
  <2>3. issued \in 0..MaxCommands
    BY IoUringAssumption DEF Init
  <2> QED  BY <2>1, <2>2, <2>3 DEF Init, TypeOK, Free
<1>2. NothingOutside /\ ctx # "open"
  BY DEF Init, NothingOutside
<1> QED  BY <1>1, <1>2 DEF RingInv

LEMMA RingCreate ==
  ASSUME RingInv, CreateContext
  PROVE  RingInv'
<1>1. /\ ctx = "unset" /\ ctx' = "open"
      /\ UNCHANGED <<sqTail, array, sqe, sqHead, taken, inflight, task, queue, issued, cq, user>>
  BY DEF CreateContext, ring, kernel
<1>2. TypeOK' /\ NothingOutside'
  BY <1>1 DEF RingInv, TypeOK, NothingOutside
<1>3. /\ sqTail = 0 /\ sqHead = 0 /\ queue = <<>> /\ issued = 0 /\ inflight = {} /\ cq = <<>>
      /\ \A i \in Slots : task[i].status = "READY" /\ sqe[i] = 0
      /\ \A j \in Jobs : taken[j] = 0
  BY <1>1 DEF RingInv, NothingOutside
<1>4. RingHoldsUntaken'
  <2>1. sqTail' \in 0..(Wrap - 1) /\ sqHead' \in 0..(Wrap - 1) /\ Wrap \in Nat
    BY <1>2, IoUringAssumption DEF TypeOK
  <2>2. (sqTail' + Wrap - sqHead') = Wrap * 1 + 0 /\ Wrap \in Nat \ {0}
    BY <1>1, <1>3, IoUringAssumption
  <2>3. 0 \in 0..(Wrap - 1) /\ (sqTail' + Wrap - sqHead') \in Int
    BY <2>1, <2>2
  <2>4. Pending' = 0
    BY <2>2, <2>3, RemainderIs DEF Pending
  <2> QED  BY <1>1, <1>3, <2>4, IoUringAssumption DEF RingHoldsUntaken
<1>5. QueueIsSetUp' /\ OperationsAreApart'
  BY <1>1, <1>3 DEF QueueIsSetUp, OperationsAreApart
<1>6. SlotsHaveTheirJobs' /\ OperationsAreTaken'
  BY <1>1, <1>3 DEF SlotsHaveTheirJobs, OperationsAreTaken
<1> QED  BY <1>2, <1>4, <1>5, <1>6 DEF RingInv, OpenInv

LEMMA RingDestroy ==
  ASSUME RingInv, DestroyContext
  PROVE  RingInv'
<1>1. /\ ctx' = "closed" /\ inflight' = {} /\ cq' = <<>> /\ queue' = <<>> /\ user = Free
      /\ UNCHANGED <<sqTail, array, sqe, sqHead, taken, task, issued, user>>
  BY DEF DestroyContext, ring
<1>2. queue' \in Seq(Slots) /\ Len(queue') <= N /\ cq' \in Seq([slot : Slots, job : Jobs])
  BY <1>1, EmptySeq, IoUringAssumption
<1>3. TypeOK'
  BY <1>1, <1>2 DEF RingInv, TypeOK
<1> QED  BY <1>1, <1>3 DEF RingInv, NothingOutside

\* A step that leaves the ring, the queue and the tasks alone.
LEMMA RingUserMoves ==
  ASSUME RingInv, UNCHANGED <<ctx, sqTail, array, sqe, sqHead, taken, inflight, task, queue, issued, cq>>,
         user' \in [pc : {"free", "poll", "sleep"}, slot : Slots], ctx # "open" => user' = Free
  PROVE  RingInv'
<1>1. TypeOK' /\ NothingOutside'
  BY DEF RingInv, TypeOK, NothingOutside
<1>2. Pending' = Pending /\ \A k : HeadAt(k)' = HeadAt(k)
  BY DEF Pending, HeadAt
<1>3. RingHoldsUntaken' = RingHoldsUntaken
  BY <1>2 DEF RingHoldsUntaken
<1>4. /\ QueueIsSetUp' = QueueIsSetUp /\ SlotsHaveTheirJobs' = SlotsHaveTheirJobs
      /\ OperationsAreApart' = OperationsAreApart /\ OperationsAreTaken' = OperationsAreTaken
  BY DEF QueueIsSetUp, SlotsHaveTheirJobs, OperationsAreApart, OperationsAreTaken
<1> QED  BY <1>1, <1>3, <1>4 DEF RingInv, OpenInv

\* The slot at the tail is free, so the ring is not full, and a command takes it.
LEMMA CommandTakesTail ==
  ASSUME InOrder, RingInv, Command
  PROVE  /\ ctx = "open" /\ SlotAt(sqTail) \in Slots /\ Pending < N
         /\ task[SlotAt(sqTail)].status = "READY" /\ issued + 1 \in Jobs
         /\ sqTail' = (sqTail + 1) % Wrap
         /\ array' = [array EXCEPT ![SlotAt(sqTail)] = SlotAt(sqTail)]
         /\ sqe' = [sqe EXCEPT ![SlotAt(sqTail)] = issued + 1]
         /\ queue' = Append(queue, SlotAt(sqTail))
         /\ task' = [task EXCEPT ![SlotAt(sqTail)] = [status |-> "SETUP", result |-> 0]]
         /\ issued' = issued + 1
         /\ UNCHANGED <<ctx, sqHead, taken, inflight, cq, user>>
<1>1. ctx = "open" /\ issued < MaxCommands /\ 0 \in FreeSteps /\ FreeSteps \subseteq Slots
  BY DEF Command, FreeSteps
<1>2. /\ TypeOK /\ RingHoldsUntaken /\ sqTail \in Nat /\ sqHead \in Nat
      /\ sqTail \in 0..(Wrap - 1) /\ sqHead \in 0..(Wrap - 1)
  BY <1>1, IoUringAssumption DEF RingInv, OpenInv, TypeOK
<1>3. Min(FreeSteps) = 0
  <2>1. \A y \in FreeSteps : y \in Nat
    BY <1>1, IoUringAssumption DEF Slots
  <2>2. \A y \in FreeSteps : 0 <= y
    BY <2>1
  <2>3. \A x \in FreeSteps : (\A y \in FreeSteps : x <= y) <=> x = 0
    BY <1>1, <2>1, <2>2
  <2> QED  BY <1>1, <2>3 DEF Min
<1>4. SlotAt(sqTail + Min(FreeSteps)) = SlotAt(sqTail) /\ sqTail + Min(FreeSteps) + 1 = sqTail + 1
  BY <1>2, <1>3
<1>5. task[SlotAt(sqTail)].status = "READY"
  <2>1. sqTail + 0 = sqTail
    BY <1>2
  <2> QED  BY <1>1, <2>1 DEF FreeSteps
<1>6. Pending < N
  <2>1. Pending \in Nat /\ HeadAt(Pending) = SlotAt(sqTail)
    BY <1>2, PendingIs
  <2>2. ASSUME Pending = N PROVE FALSE
    <3>1. SlotAt(sqTail) = HeadAt(0)
      <4>1. SlotAt(sqHead + N) = SlotAt(sqHead) /\ sqHead + 0 = sqHead
        BY <1>2, WrappedSlot
      <4> QED  BY <2>1, <2>2, <4>1 DEF HeadAt
    <3>2. 0 \in 0..(Pending - 1)
      BY <2>2, IoUringAssumption
    <3>3. task[HeadAt(0)].status # "READY"
      BY <1>2, <3>2 DEF RingHoldsUntaken
    <3> QED  BY <1>5, <3>1, <3>3
  <2> QED  BY <1>2, <2>1, <2>2, IoUringAssumption DEF RingHoldsUntaken
<1>7. SlotAt(sqTail) \in Slots
  BY <1>2, WrappedSlot
<1>8. issued + 1 \in Jobs
  BY <1>1, <1>2, IoUringAssumption DEF TypeOK, Jobs
<1> QED  BY <1>1, <1>4, <1>5, <1>6, <1>7, <1>8 DEF Command, kernel

\* What was added to a sequence is its last.
LEMMA AppendedIs ==
  ASSUME NEW S, NEW s \in Seq(S), NEW x \in S, NEW t, t = Append(s, x)
  PROVE  /\ t \in Seq(S) /\ Len(s) \in Nat /\ Len(t) = Len(s) + 1
         /\ DOMAIN s = 1..Len(s) /\ DOMAIN t = 1..(Len(s) + 1) /\ t[Len(s) + 1] = x
         /\ \A k \in DOMAIN s : k \in DOMAIN t /\ t[k] = s[k] /\ k # Len(s) + 1
         /\ \A k \in DOMAIN t : k \in DOMAIN s \/ k = Len(s) + 1
<1>1. t \in Seq(S) /\ Len(t) = Len(s) + 1 /\ t[Len(s) + 1] = x
      /\ \A k \in 1..Len(s) : t[k] = s[k]
  BY AppendProperties
<1>2. Len(s) \in Nat /\ DOMAIN s = 1..Len(s) /\ DOMAIN t = 1..(Len(s) + 1)
  BY <1>1, LenProperties
<1> QED  BY <1>1, <1>2

LEMMA CompletionsTyped ==
  ASSUME TypeOK
  PROVE  /\ cq \in Seq([slot : Slots, job : Jobs]) /\ DOMAIN cq = 1..Len(cq) /\ Len(cq) \in Nat
         /\ \A k \in DOMAIN cq : cq[k] \in [slot : Slots, job : Jobs]
                                /\ cq[k].slot \in Slots /\ cq[k].job \in Jobs
<1>1. cq \in Seq([slot : Slots, job : Jobs])
  BY DEF TypeOK
<1>2. DOMAIN cq = 1..Len(cq) /\ Len(cq) \in Nat
  BY <1>1, LenProperties
<1>3. \A k \in DOMAIN cq : cq[k] \in [slot : Slots, job : Jobs]
  BY <1>1, <1>2, ElementOfSeq
<1> QED  BY <1>1, <1>2, <1>3

LEMMA RingCommand ==
  ASSUME InOrder, RingInv, Command
  PROVE  RingInv'
<1>1. PICK i \in Slots : i = SlotAt(sqTail)
  BY CommandTakesTail
<1>2. /\ ctx = "open" /\ Pending < N /\ task[i].status = "READY" /\ issued + 1 \in Jobs
      /\ sqTail' = (sqTail + 1) % Wrap /\ array' = [array EXCEPT ![i] = i]
      /\ sqe' = [sqe EXCEPT ![i] = issued + 1] /\ queue' = Append(queue, i)
      /\ task' = [task EXCEPT ![i] = [status |-> "SETUP", result |-> 0]]
      /\ issued' = issued + 1
      /\ UNCHANGED <<ctx, sqHead, taken, inflight, cq, user>>
  BY <1>1, CommandTakesTail
<1>3. TypeOK /\ OpenInv
  BY <1>2 DEF RingInv
<1>4. /\ sqTail' \in 0..(Wrap - 1) /\ Pending' = Pending + 1 /\ Pending \in Nat
      /\ \A k \in 0..(Pending' - 1) : HeadAt(k)' = HeadAt(k)
      /\ HeadAt(Pending) = i
  <2>1. sqTail \in 0..(Wrap - 1) /\ sqHead \in 0..(Wrap - 1)
    BY <1>3 DEF TypeOK
  <2> QED  BY <1>1, <1>2, <2>1, TailMoves, PendingIs
<1>5. /\ task'[i].status = "SETUP" /\ sqe'[i] = issued + 1 /\ array'[i] = i
      /\ \A k \in Slots : k # i => task'[k] = task[k] /\ sqe'[k] = sqe[k] /\ array'[k] = array[k]
      /\ issued \in Nat
  BY <1>2, <1>3, IoUringAssumption DEF TypeOK
<1>6. /\ queue' \in Seq(Slots) /\ Len(queue') = Len(queue) + 1 /\ Len(queue) \in Nat
      /\ queue'[Len(queue) + 1] = i /\ Len(queue) + 1 \in DOMAIN queue'
      /\ \A q \in DOMAIN queue : q \in DOMAIN queue' /\ queue'[q] = queue[q] /\ queue[q] \in Slots
      /\ \A q \in DOMAIN queue' : q \in DOMAIN queue \/ q = Len(queue) + 1
  <2>1. queue \in Seq(Slots)
    BY <1>3 DEF TypeOK
  <2>2. \A q \in DOMAIN queue : queue[q] \in Slots
    BY <2>1, LenProperties, ElementOfSeq
  <2>3. Len(queue) + 1 \in 1..(Len(queue) + 1)
    BY <2>1, LenProperties
  <2> QED  BY <1>2, <2>1, <2>2, <2>3, AppendedIs
<1>7. RingHoldsUntaken'
  <2>1. Pending' <= N /\ Len(queue') <= Pending'
    BY <1>2, <1>3, <1>4, <1>6, IoUringAssumption DEF OpenInv, RingHoldsUntaken
  <2>2. ASSUME NEW k \in 0..(Pending' - 1)
        PROVE  /\ array'[HeadAt(k)'] = HeadAt(k)'
               /\ task'[HeadAt(k)'].status \in {"SETUP", "RUNNING"}
               /\ taken'[sqe'[HeadAt(k)']] = 0
    <3>1. HeadAt(k)' = HeadAt(k)
      BY <1>4
    <3>2. CASE k = Pending
      <4>1. HeadAt(k) = i
        BY <1>4, <3>2
      <4>2. taken[issued + 1] = 0
        BY <1>2, <1>3, <1>5 DEF OpenInv, OperationsAreTaken
      <4> QED  BY <1>2, <1>5, <3>1, <4>1, <4>2
    <3>3. CASE k # Pending
      <4>1. k \in 0..(Pending - 1) /\ k \in Nat
        BY <1>4, <3>3
      <4>2. HeadAt(k) \in Slots
        BY <1>3, <4>1, WrappedSlot, IoUringAssumption DEF HeadAt, TypeOK
      <4>3. /\ array[HeadAt(k)] = HeadAt(k) /\ task[HeadAt(k)].status \in {"SETUP", "RUNNING"}
            /\ taken[sqe[HeadAt(k)]] = 0
        BY <1>3, <4>1 DEF OpenInv, RingHoldsUntaken
      <4>4. HeadAt(k) # i
        BY <1>2, <4>3
      <4> QED  BY <1>2, <1>5, <3>1, <4>2, <4>3, <4>4
    <3> QED  BY <3>2, <3>3
  <2> QED  BY <2>1, <2>2 DEF RingHoldsUntaken
<1>8. QueueIsSetUp'
  <2>1. taken[issued + 1] = 0
    BY <1>2, <1>3, <1>5 DEF OpenInv, OperationsAreTaken
  <2> QED  BY <1>2, <1>3, <1>5, <1>6, <2>1 DEF OpenInv, QueueIsSetUp
<1>9. SlotsHaveTheirJobs'
  <2>1. \A k \in Slots : sqe[k] \in Nat /\ sqe[k] <= issued
    BY <1>3 DEF OpenInv, SlotsHaveTheirJobs, TypeOK, Jobs
  <2> QED  BY <1>2, <1>3, <1>5, <2>1 DEF OpenInv, SlotsHaveTheirJobs, Jobs
<1>10. OperationsAreApart' /\ NothingOutside'
  BY <1>2, <1>3 DEF OpenInv, OperationsAreApart, RingInv, NothingOutside
<1>11. OperationsAreTaken'
  <2>1. \A e \in inflight : e.slot \in Slots /\ e.slot # i
    BY <1>2, <1>3 DEF OpenInv, OperationsAreTaken, TypeOK
  <2>2. \A k \in DOMAIN cq : cq[k].slot \in Slots /\ cq[k].slot # i
    BY <1>2, <1>3, CompletionsTyped DEF OpenInv, OperationsAreTaken
  <2>3. \A j \in Jobs : j > issued' => j > issued
    BY <1>2, <1>5 DEF Jobs
  <2> QED  BY <1>2, <1>3, <1>5, <2>1, <2>2, <2>3 DEF OpenInv, OperationsAreTaken
<1>12. TypeOK'
  <2>1. Len(queue') <= N
    BY <1>4, <1>6, <1>7, IoUringAssumption DEF RingHoldsUntaken
  <2>2. [status |-> "SETUP", result |-> 0] \in [status : {"READY", "SETUP", "RUNNING", "DONE"}, result : Jobs \cup {0}]
    OBVIOUS
  <2>3. issued' \in 0..MaxCommands
    BY <1>2, <1>5 DEF Jobs
  <2> QED  BY <1>2, <1>3, <1>4, <1>6, <2>1, <2>2, <2>3 DEF TypeOK
<1> QED  BY <1>2, <1>7, <1>8, <1>9, <1>10, <1>11, <1>12 DEF RingInv, OpenInv

\* What the kernel takes: the first n commands that are pending, each for the first time.
LEMMA KernelTakesPending ==
  ASSUME RingInv, ctx = "open", NEW n \in 1..Pending, KernelTakes(n)
  PROVE  /\ sqHead' = (sqHead + n) % Wrap
         /\ taken' \in [Jobs -> Nat]
         /\ \A k \in 0..(n - 1) : /\ HeadAt(k) \in Slots /\ sqe[HeadAt(k)] \in Jobs
                                  /\ taken'[sqe[HeadAt(k)]] > 0 /\ taken[sqe[HeadAt(k)]] = 0
                                  /\ task[HeadAt(k)].status \in {"SETUP", "RUNNING"}
         /\ \A j \in Jobs : /\ taken[j] > 0 => taken'[j] > 0
                            /\ (\A k \in 0..(n - 1) : sqe[HeadAt(k)] # j) => taken'[j] = taken[j]
         /\ \E nth \in [0..(n - 1) -> Nat \ {0}] :
              inflight' = inflight \cup
                {[slot |-> HeadAt(k), job |-> sqe[HeadAt(k)], nth |-> nth[k]] : k \in 0..(n - 1)}
<1>1. TypeOK /\ OpenInv /\ Pending \in Nat
  BY PendingIs, IoUringAssumption DEF RingInv, TypeOK
<1>2. ASSUME NEW k \in 0..(n - 1)
      PROVE  /\ HeadAt(k) \in Slots /\ array[HeadAt(k)] = HeadAt(k) /\ sqe[HeadAt(k)] \in Jobs
             /\ taken[sqe[HeadAt(k)]] = 0 /\ task[HeadAt(k)].status \in {"SETUP", "RUNNING"}
  <2>1. k \in 0..(Pending - 1) /\ k \in Nat /\ sqHead \in Nat
    BY <1>1, IoUringAssumption DEF TypeOK
  <2>2. /\ array[HeadAt(k)] = HeadAt(k) /\ taken[sqe[HeadAt(k)]] = 0
        /\ task[HeadAt(k)].status \in {"SETUP", "RUNNING"}
    BY <1>1, <2>1 DEF OpenInv, RingHoldsUntaken
  <2>3. HeadAt(k) \in Slots
    BY <2>1, WrappedSlot DEF HeadAt
  <2>4. sqe[HeadAt(k)] \in Jobs
    BY <1>1, <2>2, <2>3 DEF OpenInv, SlotsHaveTheirJobs
  <2> QED  BY <2>2, <2>3, <2>4
<1> DEFINE times(j, upto) == Cardinality({k \in 0..(upto - 1) : sqe[array[SlotAt(sqHead + k)]] = j})
<1>3. ASSUME NEW j, NEW upto \in 0..n
      PROVE  /\ times(j, upto) \in Nat
             /\ (\E k \in 0..(upto - 1) : sqe[HeadAt(k)] = j) => times(j, upto) > 0
             /\ (\A k \in 0..(upto - 1) : sqe[HeadAt(k)] # j) => times(j, upto) = 0
  <2> DEFINE T == {k \in 0..(upto - 1) : sqe[array[SlotAt(sqHead + k)]] = j}
  <2>1. IsFiniteSet(0..(upto - 1)) /\ T \in SUBSET (0..(upto - 1))
    BY FS_Interval, <1>1
  <2>2. IsFiniteSet(T)
    BY <2>1, FS_Subset
  <2>3. Cardinality(T) \in Nat /\ (Cardinality(T) = 0 <=> T = {})
    BY <2>2, FS_CardinalityType, FS_EmptySet
  <2>4. \A k \in 0..(upto - 1) : k \in 0..(n - 1)
    BY <1>1
  <2>5. \A k \in 0..(upto - 1) : sqe[array[SlotAt(sqHead + k)]] = sqe[HeadAt(k)]
    BY <1>2, <2>4 DEF HeadAt
  <2>6. (\E k \in 0..(upto - 1) : sqe[HeadAt(k)] = j) <=> T # {}
    BY <2>5
  <2>7. times(j, upto) = Cardinality(T)
    OBVIOUS
  <2> HIDE DEF T, times
  <2> QED  BY <2>3, <2>6, <2>7
<1>4. /\ sqHead' = (sqHead + n) % Wrap
      /\ inflight' = inflight \cup
           {[slot |-> array[SlotAt(sqHead + k)], job |-> sqe[array[SlotAt(sqHead + k)]],
             nth |-> taken[sqe[array[SlotAt(sqHead + k)]]] + times(sqe[array[SlotAt(sqHead + k)]], k + 1)]
              : k \in 0..(n - 1)}
      /\ taken' = [j \in Jobs |-> taken[j] + times(j, n)]
  BY DEF KernelTakes
<1> HIDE DEF times
<1>5. \A j \in Jobs : taken[j] \in Nat
  BY <1>1 DEF TypeOK
<1>6. n \in 0..n
  BY <1>1
<1>7. taken' \in [Jobs -> Nat]
  BY <1>3, <1>4, <1>5, <1>6
<1>8. \A k \in 0..(n - 1) : taken'[sqe[HeadAt(k)]] > 0
  <2>1. ASSUME NEW k \in 0..(n - 1)
        PROVE  taken'[sqe[HeadAt(k)]] > 0
    <3>1. PICK j \in Jobs : j = sqe[HeadAt(k)]
      BY <1>2
    <3>2. times(j, n) > 0 /\ times(j, n) \in Nat
      BY <1>3, <1>6, <3>1
    <3> QED  BY <1>4, <1>5, <3>1, <3>2
  <2> QED  BY <2>1
<1>9. ASSUME NEW j \in Jobs
      PROVE  /\ taken[j] > 0 => taken'[j] > 0
             /\ (\A k \in 0..(n - 1) : sqe[HeadAt(k)] # j) => taken'[j] = taken[j]
  <2>1. times(j, n) \in Nat /\ ((\A k \in 0..(n - 1) : sqe[HeadAt(k)] # j) => times(j, n) = 0)
    BY <1>3, <1>6
  <2>2. taken'[j] = taken[j] + times(j, n) /\ taken[j] \in Nat
    BY <1>4, <1>5
  <2> QED  BY <2>1, <2>2
<1>10. \E nth \in [0..(n - 1) -> Nat \ {0}] :
         inflight' = inflight \cup
           {[slot |-> HeadAt(k), job |-> sqe[HeadAt(k)], nth |-> nth[k]] : k \in 0..(n - 1)}
  <2> DEFINE nth == [k \in 0..(n - 1) |-> taken[sqe[HeadAt(k)]] + times(sqe[HeadAt(k)], k + 1)]
  <2>1. ASSUME NEW k \in 0..(n - 1)
        PROVE  taken[sqe[HeadAt(k)]] + times(sqe[HeadAt(k)], k + 1) \in Nat \ {0}
    <3>1. k + 1 \in 0..n /\ k \in 0..(k + 1 - 1)
      BY <1>1
    <3>2. times(sqe[HeadAt(k)], k + 1) \in Nat /\ times(sqe[HeadAt(k)], k + 1) > 0
      BY <1>3, <3>1
    <3> QED  BY <1>2, <3>2
  <2>2. nth \in [0..(n - 1) -> Nat \ {0}]
    BY <2>1
  <2> DEFINE entry(k) == [slot |-> array[SlotAt(sqHead + k)], job |-> sqe[array[SlotAt(sqHead + k)]],
                          nth |-> taken[sqe[array[SlotAt(sqHead + k)]]]
                                    + times(sqe[array[SlotAt(sqHead + k)]], k + 1)]
             op(k) == [slot |-> HeadAt(k), job |-> sqe[HeadAt(k)], nth |-> nth[k]]
  <2>3. \A k \in 0..(n - 1) : entry(k) = op(k)
    BY <1>2 DEF HeadAt
  <2> HIDE DEF nth
  <2>4. inflight' = inflight \cup {entry(k) : k \in 0..(n - 1)}
    BY <1>4
  <2>5. inflight' = inflight \cup {op(k) : k \in 0..(n - 1)}
    <3> HIDE DEF entry, op
    <3> QED  BY <2>3, <2>4
  <2> QED  BY <2>2, <2>5
<1> QED  BY <1>2, <1>4, <1>7, <1>8, <1>9, <1>10

LEMMA LesserIsMin ==
  ASSUME NEW a \in Nat, NEW b \in Nat, a <= b
  PROVE  Min({a, b}) = a
<1>1. \A x \in {a, b} : (\A y \in {a, b} : x <= y) <=> x = a
  OBVIOUS
<1> QED  BY <1>1 DEF Min

\* A submit takes no more than what is pending, and marks what waited.
LEMMA SubmitIs ==
  ASSUME RingInv, Submit
  PROVE  /\ ctx = "open" /\ queue' = <<>>
         /\ \E n \in 1..Pending : KernelTakes(n)
         /\ \A i \in Slots : /\ task'[i].result = task[i].result
                             /\ task'[i].status = IF task[i].status = "SETUP" THEN "RUNNING" ELSE task[i].status
         /\ task' \in [Slots -> [status : {"READY", "SETUP", "RUNNING", "DONE"}, result : Jobs \cup {0}]]
         /\ UNCHANGED <<ctx, sqTail, array, sqe, issued, cq, user>>
<1>1. ctx = "open" /\ queue' = <<>> /\ UNCHANGED <<ctx, sqTail, array, sqe, issued, cq, user>> /\ MarkRunning
  BY DEF Submit, ring
<1>2. TypeOK /\ OpenInv
  BY <1>1 DEF RingInv
<1>3. \E n \in 1..Pending : KernelTakes(n)
  <2>1. Len(queue) \in Nat /\ Pending \in Nat /\ Len(queue) <= Pending
    <3>1. queue \in Seq(Slots) /\ sqTail \in 0..(Wrap - 1) /\ sqHead \in 0..(Wrap - 1)
      BY <1>2 DEF TypeOK
    <3> QED  BY <1>2, <3>1, LenProperties, PendingIs DEF OpenInv, RingHoldsUntaken
  <2>2. Min({Len(queue), Pending}) = Len(queue)
    BY <2>1, LesserIsMin
  <2>3. \E n \in 1..Min({Len(queue), Pending}) : KernelTakes(n)
    BY DEF Submit, Pending
  <2> QED  BY <2>1, <2>2, <2>3
<1>4. ASSUME NEW i \in Slots
      PROVE  /\ task'[i].result = task[i].result
             /\ task'[i].status = IF task[i].status = "SETUP" THEN "RUNNING" ELSE task[i].status
             /\ task'[i] \in [status : {"READY", "SETUP", "RUNNING", "DONE"}, result : Jobs \cup {0}]
  <2>1. (\E q \in DOMAIN queue : queue[q] = i) <=> task[i].status = "SETUP"
    BY <1>2 DEF OpenInv, QueueIsSetUp
  <2>2. task[i] \in [status : {"READY", "SETUP", "RUNNING", "DONE"}, result : Jobs \cup {0}]
    BY <1>2 DEF TypeOK
  <2>3. task'[i] = IF task[i].status = "SETUP" THEN [task[i] EXCEPT !.status = "RUNNING"] ELSE task[i]
    BY <1>1, <2>1 DEF MarkRunning
  <2> QED  BY <2>2, <2>3
<1>5. task' \in [Slots -> [status : {"READY", "SETUP", "RUNNING", "DONE"}, result : Jobs \cup {0}]]
  <2>1. task' = [i \in Slots |-> task'[i]]
    BY <1>1 DEF MarkRunning
  <2> QED  BY <1>4, <2>1
<1> QED  BY <1>1, <1>3, <1>4, <1>5

LEMMA RingSubmit ==
  ASSUME RingInv, Submit
  PROVE  RingInv'
<1>1. /\ ctx = "open" /\ queue' = <<>>
      /\ \A i \in Slots : /\ task'[i].result = task[i].result
                          /\ task'[i].status = IF task[i].status = "SETUP" THEN "RUNNING" ELSE task[i].status
      /\ task' \in [Slots -> [status : {"READY", "SETUP", "RUNNING", "DONE"}, result : Jobs \cup {0}]]
      /\ UNCHANGED <<ctx, sqTail, array, sqe, issued, cq, user>>
  BY SubmitIs
<1>2. PICK n \in 1..Pending : KernelTakes(n)
  BY SubmitIs
<1>3. TypeOK /\ OpenInv /\ Pending \in Nat /\ Pending <= N /\ n \in Nat \ {0} /\ sqHead \in Nat
  BY <1>1, <1>2, PendingIs, IoUringAssumption DEF RingInv, OpenInv, RingHoldsUntaken, TypeOK
<1>4. /\ sqHead' = (sqHead + n) % Wrap
      /\ taken' \in [Jobs -> Nat]
      /\ \A k \in 0..(n - 1) : /\ HeadAt(k) \in Slots /\ sqe[HeadAt(k)] \in Jobs
                               /\ taken'[sqe[HeadAt(k)]] > 0 /\ taken[sqe[HeadAt(k)]] = 0
                               /\ task[HeadAt(k)].status \in {"SETUP", "RUNNING"}
      /\ \A j \in Jobs : /\ taken[j] > 0 => taken'[j] > 0
                         /\ (\A k \in 0..(n - 1) : sqe[HeadAt(k)] # j) => taken'[j] = taken[j]
  BY <1>1, <1>2, KernelTakesPending
<1>5. PICK nth \in [0..(n - 1) -> Nat \ {0}] :
         inflight' = inflight \cup
           {[slot |-> HeadAt(k), job |-> sqe[HeadAt(k)], nth |-> nth[k]] : k \in 0..(n - 1)}
  BY <1>1, <1>2, KernelTakesPending
<1>6. \A e \in inflight' : \/ e \in inflight
                           \/ \E k \in 0..(n - 1) : /\ e = [slot |-> HeadAt(k), job |-> sqe[HeadAt(k)], nth |-> nth[k]]
                                                    /\ e.slot = HeadAt(k) /\ e.job = sqe[HeadAt(k)]
  BY <1>5
<1>7. /\ sqHead' \in 0..(Wrap - 1) /\ Pending' = Pending - n
      /\ \A k \in Nat : HeadAt(k)' = HeadAt(k + n)
  BY <1>1, <1>2, <1>3, <1>4, HeadMoves DEF TypeOK
<1>8. \A k, l \in 0..(Pending - 1) : HeadAt(k) = HeadAt(l) => k = l
  <2>1. \A k \in 0..(Pending - 1) : k \in 0..(N - 1)
    BY <1>3, IoUringAssumption
  <2> QED  BY <1>3, <2>1, SlotsApart DEF HeadAt
<1>9. RingHoldsUntaken'
  <2>1. Pending' <= N /\ Len(queue') <= Pending'
    <3>1. Len(queue') = 0
      BY <1>1
    <3> QED  BY <1>2, <1>3, <1>7, <3>1, IoUringAssumption
  <2>2. ASSUME NEW k \in 0..(Pending' - 1)
        PROVE  /\ array'[HeadAt(k)'] = HeadAt(k)'
               /\ task'[HeadAt(k)'].status \in {"SETUP", "RUNNING"}
               /\ taken'[sqe'[HeadAt(k)']] = 0
    <3>1. k \in Nat /\ k + n \in 0..(Pending - 1) /\ k + n \notin 0..(n - 1)
          /\ sqHead + (k + n) \in Nat /\ HeadAt(k)' = HeadAt(k + n)
      BY <1>2, <1>3, <1>7
    <3> DEFINE i == HeadAt(k + n)
    <3>2. /\ array[i] = i /\ task[i].status \in {"SETUP", "RUNNING"} /\ taken[sqe[i]] = 0
      BY <1>3, <3>1 DEF OpenInv, RingHoldsUntaken
    <3>3. i \in Slots
      BY <3>1, WrappedSlot DEF HeadAt
    <3>4. sqe[i] \in Jobs
      BY <1>3, <3>2, <3>3 DEF OpenInv, SlotsHaveTheirJobs
    <3>5. \A l \in 0..(n - 1) : sqe[HeadAt(l)] # sqe[i]
      <4>1. ASSUME NEW l \in 0..(n - 1), sqe[HeadAt(l)] = sqe[i]
            PROVE  FALSE
        <5>1. HeadAt(l) = i
          BY <1>3, <1>4, <3>3, <3>4, <4>1 DEF OpenInv, SlotsHaveTheirJobs, Jobs
        <5>2. l \in 0..(Pending - 1)
          BY <1>2, <1>3
        <5> QED  BY <1>8, <3>1, <5>1, <5>2
      <4> QED  BY <4>1
    <3>6. taken'[sqe[i]] = 0
      BY <1>4, <3>2, <3>4, <3>5
    <3> QED  BY <1>1, <3>1, <3>2, <3>3, <3>6
  <2> QED  BY <2>1, <2>2 DEF RingHoldsUntaken
<1>10. QueueIsSetUp' /\ SlotsHaveTheirJobs' /\ NothingOutside'
  <2>1. QueueIsSetUp'
    <3>1. \A i \in Slots : task'[i].status # "SETUP"
      BY <1>1
    <3>2. DOMAIN queue' = {}
      BY <1>1
    <3> QED  BY <3>1, <3>2 DEF QueueIsSetUp
  <2>2. SlotsHaveTheirJobs'
    BY <1>1, <1>3 DEF TypeOK, OpenInv, SlotsHaveTheirJobs
  <2> QED  BY <1>1, <2>1, <2>2 DEF NothingOutside
<1>11. /\ \A e \in inflight, k \in 0..(n - 1) : e.slot # HeadAt(k)
       /\ \A l \in DOMAIN cq, k \in 0..(n - 1) : cq[l].slot # HeadAt(k)
  <2>1. \A e \in inflight : taken[sqe[e.slot]] > 0
    BY <1>3 DEF OpenInv, OperationsAreTaken
  <2>2. \A l \in DOMAIN cq : taken[sqe[cq[l].slot]] > 0
    BY <1>3 DEF OpenInv, OperationsAreTaken
  <2>3. \A k \in 0..(n - 1) : ~(taken[sqe[HeadAt(k)]] > 0)
    BY <1>4
  <2> QED  BY <2>1, <2>2, <2>3
<1>12. OperationsAreApart'
  <2>1. ASSUME NEW e \in inflight', NEW f \in inflight', e.slot = f.slot
        PROVE  e = f
    <3>1. CASE e \in inflight /\ f \in inflight
      BY <1>3, <2>1, <3>1 DEF OpenInv, OperationsAreApart
    <3>2. CASE e \notin inflight /\ f \notin inflight
      <4>1. PICK k \in 0..(n - 1) : e = [slot |-> HeadAt(k), job |-> sqe[HeadAt(k)], nth |-> nth[k]]
                                   /\ e.slot = HeadAt(k)
        BY <1>6, <3>2
      <4>2. PICK l \in 0..(n - 1) : f = [slot |-> HeadAt(l), job |-> sqe[HeadAt(l)], nth |-> nth[l]]
                                   /\ f.slot = HeadAt(l)
        BY <1>6, <3>2
      <4>3. k \in 0..(Pending - 1) /\ l \in 0..(Pending - 1)
        BY <1>2, <1>3
      <4>4. k = l
        BY <1>8, <2>1, <4>1, <4>2, <4>3
      <4> QED  BY <4>1, <4>2, <4>4
    <3>3. CASE ~(e \in inflight <=> f \in inflight)
      BY <1>6, <1>11, <2>1, <3>3
    <3> QED  BY <3>1, <3>2, <3>3
  <2>2. \A e \in inflight', k \in DOMAIN cq : e.slot # cq[k].slot
    BY <1>3, <1>6, <1>11 DEF OpenInv, OperationsAreApart
  <2> QED  BY <1>1, <1>3, <2>1, <2>2 DEF OpenInv, OperationsAreApart
<1>13. OperationsAreTaken'
  <2>1. ASSUME NEW e \in inflight'
        PROVE  task'[e.slot].status = "RUNNING" /\ sqe'[e.slot] = e.job /\ taken'[e.job] > 0
    <3>1. CASE e \in inflight
      BY <1>1, <1>3, <1>4, <3>1 DEF OpenInv, OperationsAreTaken, TypeOK
    <3>2. CASE e \notin inflight
      <4>1. PICK k \in 0..(n - 1) : e.slot = HeadAt(k) /\ e.job = sqe[HeadAt(k)]
        BY <1>6, <3>2
      <4>2. task'[HeadAt(k)].status = "RUNNING"
        BY <1>1, <1>4
      <4> QED  BY <1>1, <1>4, <4>1, <4>2
    <3> QED  BY <3>1, <3>2
  <2>2. ASSUME NEW k \in DOMAIN cq
        PROVE  task'[cq[k].slot].status = "RUNNING" /\ sqe'[cq[k].slot] = cq[k].job /\ taken'[cq[k].job] > 0
    BY <1>1, <1>3, <1>4, CompletionsTyped DEF OpenInv, OperationsAreTaken
  <2>3. ASSUME NEW i \in Slots, task'[i].status = "DONE"
        PROVE  task'[i].result = sqe'[i] /\ taken'[sqe'[i]] > 0
    <3>1. task[i].status = "DONE" /\ task'[i].result = task[i].result
      BY <1>1, <2>3
    <3>2. sqe[i] \in Jobs
      BY <1>3, <3>1 DEF OpenInv, SlotsHaveTheirJobs
    <3> QED  BY <1>1, <1>3, <1>4, <3>1, <3>2 DEF OpenInv, OperationsAreTaken
  <2>4. ASSUME NEW j \in Jobs, j > issued'
        PROVE  taken'[j] = 0
    <3>1. \A k \in 0..(n - 1) : sqe[HeadAt(k)] \in Jobs /\ sqe[HeadAt(k)] <= issued /\ j > issued /\ issued \in Int
      BY <1>1, <1>3, <1>4, <2>4, IoUringAssumption DEF OpenInv, SlotsHaveTheirJobs, TypeOK
    <3>2. \A k \in 0..(n - 1) : sqe[HeadAt(k)] # j
      BY <3>1 DEF Jobs
    <3>3. taken[j] = 0
      BY <1>1, <1>3, <2>4 DEF OpenInv, OperationsAreTaken
    <3> QED  BY <1>4, <3>2, <3>3
  <2> QED  BY <1>1, <2>1, <2>2, <2>3, <2>4 DEF OperationsAreTaken
<1>14. TypeOK'
  <2>1. \A e \in inflight' : e \in [slot : Slots, job : Jobs, nth : Nat \ {0}]
    <3>1. \A k \in 0..(n - 1) :
            [slot |-> HeadAt(k), job |-> sqe[HeadAt(k)], nth |-> nth[k]] \in [slot : Slots, job : Jobs, nth : Nat \ {0}]
      BY <1>4
    <3> QED  BY <1>3, <1>6, <3>1 DEF TypeOK
  <2>2. queue' \in Seq(Slots) /\ Len(queue') <= N
    BY <1>1, EmptySeq, IoUringAssumption
  <2> QED  BY <1>1, <1>3, <1>4, <1>7, <2>1, <2>2 DEF TypeOK
<1> QED  BY <1>1, <1>9, <1>10, <1>12, <1>13, <1>14 DEF RingInv, OpenInv

\* Commands that have ended, and that the kernel has taken, are done or collected: a
\* step that changes no other slot, and leaves no completion of theirs behind.
LEMMA TasksMoveOn ==
  ASSUME RingInv, ctx = "open", UNCHANGED <<ctx, sqTail, array, sqe, sqHead, taken, inflight, queue, issued>>,
         NEW Moved \in SUBSET Slots,
         task' \in [Slots -> [status : {"READY", "SETUP", "RUNNING", "DONE"}, result : Jobs \cup {0}]],
         \A i \in Slots \ Moved : task'[i] = task[i],
         \A i \in Moved : /\ task[i].status \in {"RUNNING", "DONE"} /\ taken[sqe[i]] > 0
                          /\ task'[i].status = "READY" \/ (task'[i].status = "DONE" /\ task'[i].result = sqe[i])
                          /\ \A e \in inflight : e.slot # i,
         cq' = <<>> \/ (cq' = cq /\ \A k \in DOMAIN cq : cq[k].slot \notin Moved),
         user' \in [pc : {"free", "poll", "sleep"}, slot : Slots]
  PROVE  RingInv'
<1>1. TypeOK /\ OpenInv
  BY DEF RingInv
<1>2. cq' \in Seq([slot : Slots, job : Jobs]) /\ DOMAIN cq' \subseteq DOMAIN cq
      /\ \A k \in DOMAIN cq' : cq'[k] = cq[k] /\ cq[k].slot \in Slots \ Moved
  <2>1. CASE cq' = <<>>
    <3>1. DOMAIN cq' = {}
      BY <2>1
    <3> QED  BY <2>1, <3>1, EmptySeq
  <2>2. CASE cq' = cq /\ \A k \in DOMAIN cq : cq[k].slot \notin Moved
    BY <1>1, <2>2, CompletionsTyped
  <2> QED  BY <2>1, <2>2
<1>3. TypeOK' /\ NothingOutside'
  BY <1>1, <1>2 DEF TypeOK, NothingOutside
<1>4. \A i \in Slots : task[i].status = "SETUP" <=> task'[i].status = "SETUP"
  OBVIOUS
<1>5. Pending' = Pending /\ \A k : HeadAt(k)' = HeadAt(k)
  BY DEF Pending, HeadAt
<1>6. RingHoldsUntaken'
  <2>1. ASSUME NEW k \in 0..(Pending - 1)
        PROVE  task'[HeadAt(k)] = task[HeadAt(k)]
    <3>1. sqHead + k \in Nat
      BY <1>1, PendingIs, IoUringAssumption DEF TypeOK
    <3>2. HeadAt(k) \in Slots
      BY <3>1, WrappedSlot DEF HeadAt
    <3>3. ~(taken[sqe[HeadAt(k)]] > 0)
      <4>1. taken[sqe[HeadAt(k)]] = 0
        BY <1>1 DEF OpenInv, RingHoldsUntaken
      <4> QED  BY <4>1
    <3> QED  BY <3>2, <3>3
  <2> QED  BY <1>1, <1>5, <2>1 DEF OpenInv, RingHoldsUntaken
<1>7. QueueIsSetUp'
  <2>1. \A q \in DOMAIN queue : queue[q] \in Slots
    BY <1>1, LenProperties, ElementOfSeq DEF TypeOK
  <2> QED  BY <1>1, <1>4, <2>1 DEF OpenInv, QueueIsSetUp
<1>8. SlotsHaveTheirJobs'
  <2>1. \A i \in Slots : task'[i].status # "READY" => task[i].status # "READY"
    OBVIOUS
  <2> QED  BY <1>1, <2>1 DEF OpenInv, SlotsHaveTheirJobs
<1>9. OperationsAreApart'
  BY <1>1, <1>2 DEF OpenInv, OperationsAreApart
<1>10. OperationsAreTaken'
  <2>1. \A e \in inflight : e.slot \in Slots \ Moved
    BY <1>1 DEF TypeOK
  <2>2. ASSUME NEW i \in Slots, task'[i].status = "DONE"
        PROVE  task'[i].result = sqe[i] /\ taken[sqe[i]] > 0
    <3>1. CASE i \in Moved
      BY <2>2, <3>1
    <3>2. CASE i \notin Moved
      BY <1>1, <2>2, <3>2 DEF OpenInv, OperationsAreTaken
    <3> QED  BY <3>1, <3>2
  <2>3. \A k \in DOMAIN cq' : task'[cq'[k].slot].status = "RUNNING" /\ sqe[cq'[k].slot] = cq'[k].job
                              /\ taken[cq'[k].job] > 0
    BY <1>1, <1>2 DEF OpenInv, OperationsAreTaken
  <2>4. \A e \in inflight : task'[e.slot].status = "RUNNING" /\ sqe[e.slot] = e.job /\ taken[e.job] > 0
    BY <1>1, <2>1 DEF OpenInv, OperationsAreTaken
  <2> QED  BY <1>1, <2>2, <2>3, <2>4 DEF OpenInv, OperationsAreTaken
<1> QED  BY <1>3, <1>6, <1>7, <1>8, <1>9, <1>10 DEF RingInv, OpenInv

\* Draining the completions: each one is of its own slot, and holds that slot's command.
InCompletions(i) == \E k \in DOMAIN cq : cq[k].slot = i

LEMMA DrainedIs ==
  ASSUME RingInv, ctx = "open"
  PROVE  /\ Drained(cq) \in [Slots -> [status : {"READY", "SETUP", "RUNNING", "DONE"}, result : Jobs \cup {0}]]
         /\ \A i \in Slots :
              /\ ~InCompletions(i) => Drained(cq)[i] = task[i]
              /\ InCompletions(i) =>
                   /\ Drained(cq)[i] = [status |-> "DONE", result |-> sqe[i]]
                   /\ task[i].status = "RUNNING" /\ taken[sqe[i]] > 0 /\ sqe[i] \in Jobs
                   /\ \A e \in inflight : e.slot # i
<1>1. TypeOK /\ OpenInv
  BY DEF RingInv
<1>2. ASSUME NEW i \in Slots
      PROVE  /\ ~InCompletions(i) => Drained(cq)[i] = task[i]
             /\ InCompletions(i) =>
                  /\ Drained(cq)[i] = [status |-> "DONE", result |-> sqe[i]]
                  /\ task[i].status = "RUNNING" /\ taken[sqe[i]] > 0 /\ sqe[i] \in Jobs
                  /\ \A e \in inflight : e.slot # i
  <2> DEFINE mine == {k \in DOMAIN cq : cq[k].slot = i}
  <2>1. Drained(cq)[i] = IF mine = {} THEN task[i] ELSE [status |-> "DONE", result |-> cq[Max(mine)].job]
    BY DEF Drained
  <2>2. InCompletions(i) <=> mine # {}
    BY DEF InCompletions
  <2>3. ASSUME InCompletions(i)
        PROVE  /\ Drained(cq)[i] = [status |-> "DONE", result |-> sqe[i]]
               /\ task[i].status = "RUNNING" /\ taken[sqe[i]] > 0 /\ sqe[i] \in Jobs
               /\ \A e \in inflight : e.slot # i
    <3>1. PICK k \in DOMAIN cq : cq[k].slot = i
      BY <2>3 DEF InCompletions
    <3>2. mine = {k} /\ k \in Nat
      <4>1. \A l \in DOMAIN cq : cq[l].slot = i => l = k
        BY <1>1, <3>1 DEF OpenInv, OperationsAreApart
      <4>2. k \in Nat
        BY <1>1, <3>1, CompletionsTyped
      <4> QED  BY <3>1, <4>1, <4>2
    <3> HIDE DEF mine
    <3>3. Max(mine) = k
      <4>1. \A x \in mine : (\A y \in mine : x >= y) <=> x = k
        BY <3>2
      <4> QED  BY <3>2, <4>1 DEF Max
    <3>4. task[i].status = "RUNNING" /\ sqe[i] = cq[k].job /\ taken[sqe[i]] > 0
      BY <1>1, <3>1 DEF OpenInv, OperationsAreTaken
    <3>5. \A e \in inflight : e.slot # i
      BY <1>1, <3>1 DEF OpenInv, OperationsAreApart
    <3>6. sqe[i] \in Jobs
      BY <1>1, <3>1, <3>4, CompletionsTyped
    <3> QED  BY <2>1, <3>2, <3>3, <3>4, <3>5, <3>6
  <2> HIDE DEF mine
  <2> QED  BY <2>1, <2>2, <2>3
<1>3. \A i \in Slots :
        Drained(cq)[i] \in [status : {"READY", "SETUP", "RUNNING", "DONE"}, result : Jobs \cup {0}]
  <2>1. ASSUME NEW i \in Slots
        PROVE  Drained(cq)[i] \in [status : {"READY", "SETUP", "RUNNING", "DONE"}, result : Jobs \cup {0}]
    <3>1. task[i] \in [status : {"READY", "SETUP", "RUNNING", "DONE"}, result : Jobs \cup {0}]
      BY <1>1 DEF TypeOK
    <3>2. CASE InCompletions(i)
      <4>1. Drained(cq)[i] = [status |-> "DONE", result |-> sqe[i]] /\ sqe[i] \in Jobs
        BY <1>2, <3>2
      <4> QED  BY <4>1
    <3>3. CASE ~InCompletions(i)
      BY <1>2, <3>1, <3>3
    <3> QED  BY <3>2, <3>3
  <2> QED  BY <2>1
<1>4. Drained(cq) = [i \in Slots |-> Drained(cq)[i]]
  BY DEF Drained
<1> QED  BY <1>2, <1>3, <1>4

LEMMA RingProcess ==
  ASSUME RingInv, Process
  PROVE  RingInv'
<1>1. /\ ctx = "open" /\ task' = Drained(cq) /\ cq' = <<>>
      /\ UNCHANGED <<ctx, sqTail, array, sqe, sqHead, taken, inflight, queue, issued, user>>
  BY DEF Process, ring, kernel
<1> DEFINE Moved == {i \in Slots : InCompletions(i)}
<1>2. user' \in [pc : {"free", "poll", "sleep"}, slot : Slots]
  BY <1>1 DEF RingInv, TypeOK
<1>3. \A i \in Slots \ Moved : task'[i] = task[i]
  BY <1>1, DrainedIs
<1>4. \A i \in Moved : /\ task[i].status \in {"RUNNING", "DONE"} /\ taken[sqe[i]] > 0
                       /\ task'[i].status = "READY" \/ (task'[i].status = "DONE" /\ task'[i].result = sqe[i])
                       /\ \A e \in inflight : e.slot # i
  BY <1>1, DrainedIs
<1>5. task' \in [Slots -> [status : {"READY", "SETUP", "RUNNING", "DONE"}, result : Jobs \cup {0}]]
  BY <1>1, DrainedIs
<1>6. Moved \in SUBSET Slots
  OBVIOUS
<1> HIDE DEF Moved
<1> QED  BY <1>1, <1>2, <1>3, <1>4, <1>5, <1>6, TasksMoveOn

LEMMA RingAwaitDone ==
  ASSUME RingInv, NEW i \in Slots, AwaitDone(i)
  PROVE  RingInv'
<1>1. /\ ctx = "open" /\ task[i].status = "DONE" /\ task' = [task EXCEPT ![i].status = "READY"]
      /\ UNCHANGED <<ctx, sqTail, array, sqe, sqHead, taken, inflight, queue, issued, cq, user>>
  BY DEF AwaitDone, ring, kernel
<1>2. TypeOK /\ OpenInv
  BY <1>1 DEF RingInv
<1>3. /\ task' \in [Slots -> [status : {"READY", "SETUP", "RUNNING", "DONE"}, result : Jobs \cup {0}]]
      /\ task'[i].status = "READY" /\ \A k \in Slots \ {i} : task'[k] = task[k]
      /\ user' \in [pc : {"free", "poll", "sleep"}, slot : Slots]
  BY <1>1, <1>2 DEF TypeOK
<1> DEFINE Moved == {i}
<1>4. taken[sqe[i]] > 0 /\ (\A e \in inflight : e.slot # i) /\ \A k \in DOMAIN cq : cq[k].slot \notin Moved
  BY <1>1, <1>2 DEF OpenInv, OperationsAreTaken
<1>5. \A k \in Moved : /\ task[k].status \in {"RUNNING", "DONE"} /\ taken[sqe[k]] > 0
                       /\ task'[k].status = "READY" \/ (task'[k].status = "DONE" /\ task'[k].result = sqe[k])
                       /\ \A e \in inflight : e.slot # k
  BY <1>1, <1>3, <1>4
<1>6. Moved \in SUBSET Slots /\ \A k \in Slots \ Moved : task'[k] = task[k]
  BY <1>3
<1> HIDE DEF Moved
<1> QED  BY <1>1, <1>3, <1>4, <1>5, <1>6, TasksMoveOn

\* A round of an await drains the completions, and collects the command awaited if it
\* is among those that have ended.
LEMMA RingAwaitPoll ==
  ASSUME RingInv, AwaitPoll
  PROVE  RingInv'
<1>1. /\ user.pc = "poll" /\ cq' = <<>>
      /\ UNCHANGED <<ctx, sqTail, array, sqe, sqHead, taken, inflight, queue, issued>>
  BY DEF AwaitPoll, ring, kernel
<1>2. ctx = "open"
  BY <1>1 DEF RingInv, NothingOutside, Free
<1>3. TypeOK /\ OpenInv /\ user.slot \in Slots /\ user \in [pc : {"free", "poll", "sleep"}, slot : Slots]
  BY <1>2 DEF RingInv, TypeOK
<1> DEFINE drained == Drained(cq)
           s == user.slot
           Ends == {i \in Slots : InCompletions(i)}
<1>4. /\ drained \in [Slots -> [status : {"READY", "SETUP", "RUNNING", "DONE"}, result : Jobs \cup {0}]]
      /\ \A i \in Slots \ Ends : drained[i] = task[i]
      /\ \A i \in Ends : /\ task[i].status \in {"RUNNING", "DONE"} /\ taken[sqe[i]] > 0
                         /\ drained[i].status = "DONE" /\ drained[i].result = sqe[i]
                         /\ \A e \in inflight : e.slot # i
  BY <1>2, DrainedIs
<1>5. Ends \in SUBSET Slots
  OBVIOUS
<1> HIDE DEF Ends
<1>6. CASE drained[s].status = "DONE"
  <2>1. task' = [drained EXCEPT ![s].status = "READY"] /\ user' = Free
    BY <1>6 DEF AwaitPoll
  <2>2. user' \in [pc : {"free", "poll", "sleep"}, slot : Slots]
    BY <2>1, IoUringAssumption DEF Free, Slots
  <2> HIDE DEF drained
  <2>3. /\ task' \in [Slots -> [status : {"READY", "SETUP", "RUNNING", "DONE"}, result : Jobs \cup {0}]]
        /\ task'[s].status = "READY" /\ \A i \in Slots \ {s} : task'[i] = drained[i]
    BY <1>3, <1>4, <2>1
  <2>4. /\ task[s].status \in {"RUNNING", "DONE"} /\ taken[sqe[s]] > 0
        /\ \A e \in inflight : e.slot # s
    <3>1. CASE s \in Ends
      BY <1>4, <3>1
    <3>2. CASE s \notin Ends
      <4>1. task[s].status = "DONE"
        BY <1>3, <1>4, <1>6, <3>2
      <4> QED  BY <1>3, <4>1 DEF OpenInv, OperationsAreTaken
    <3> QED  BY <3>1, <3>2
  <2> DEFINE Moved == Ends \cup {s}
  <2>5. Moved \in SUBSET Slots
    BY <1>3, <1>5
  <2>6. \A i \in Slots \ Moved : task'[i] = task[i]
    BY <1>4, <2>3
  <2>7. \A i \in Moved : /\ task[i].status \in {"RUNNING", "DONE"} /\ taken[sqe[i]] > 0
                         /\ task'[i].status = "READY" \/ (task'[i].status = "DONE" /\ task'[i].result = sqe[i])
                         /\ \A e \in inflight : e.slot # i
    BY <1>4, <1>5, <2>3, <2>4
  <2> HIDE DEF Moved, s
  <2> QED  BY <1>1, <1>2, <2>2, <2>3, <2>5, <2>6, <2>7, TasksMoveOn
<1>7. CASE drained[s].status # "DONE"
  <2>1. task' = drained /\ user' = [user EXCEPT !.pc = "sleep"]
    BY <1>7 DEF AwaitPoll
  <2>2. user' \in [pc : {"free", "poll", "sleep"}, slot : Slots]
    BY <1>3, <2>1
  <2>3. \A i \in Ends : /\ task[i].status \in {"RUNNING", "DONE"} /\ taken[sqe[i]] > 0
                        /\ task'[i].status = "READY" \/ (task'[i].status = "DONE" /\ task'[i].result = sqe[i])
                        /\ \A e \in inflight : e.slot # i
    BY <1>4, <2>1
  <2>4. /\ task' \in [Slots -> [status : {"READY", "SETUP", "RUNNING", "DONE"}, result : Jobs \cup {0}]]
        /\ \A i \in Slots \ Ends : task'[i] = task[i]
    BY <1>4, <2>1
  <2> HIDE DEF drained, s
  <2> QED  BY <1>1, <1>2, <1>5, <2>2, <2>3, <2>4, TasksMoveOn
<1> QED  BY <1>6, <1>7

LEMMA RingComplete ==
  ASSUME RingInv, NEW e, Complete(e)
  PROVE  RingInv'
<1>1. /\ e \in inflight /\ inflight' = inflight \ {e}
      /\ cq' = Append(cq, [slot |-> e.slot, job |-> e.job])
      /\ UNCHANGED <<ctx, sqTail, array, sqe, sqHead, taken, task, queue, issued, user>>
  BY DEF Complete, ring
<1>2. ctx = "open"
  BY <1>1 DEF RingInv, NothingOutside
<1>3. TypeOK /\ OpenInv
  BY <1>2 DEF RingInv
<1> DEFINE c == [slot |-> e.slot, job |-> e.job]
<1>4. c \in [slot : Slots, job : Jobs] /\ c.slot = e.slot /\ c.job = e.job
  BY <1>1, <1>3 DEF TypeOK
<1> HIDE DEF c
<1>5. cq \in Seq([slot : Slots, job : Jobs]) /\ cq' = Append(cq, c)
  BY <1>1, <1>3 DEF TypeOK, c
<1>6. /\ cq' \in Seq([slot : Slots, job : Jobs]) /\ cq'[Len(cq) + 1] = c
      /\ \A k \in DOMAIN cq : cq'[k] = cq[k] /\ k # Len(cq) + 1
      /\ \A k \in DOMAIN cq' : k \in DOMAIN cq \/ k = Len(cq) + 1
  BY <1>4, <1>5, AppendedIs
<1>7. TypeOK' /\ NothingOutside'
  BY <1>1, <1>2, <1>3, <1>6 DEF TypeOK, NothingOutside
<1>8. Pending' = Pending /\ \A k : HeadAt(k)' = HeadAt(k)
  BY <1>1 DEF Pending, HeadAt
<1>9. RingHoldsUntaken' /\ QueueIsSetUp' /\ SlotsHaveTheirJobs'
  BY <1>1, <1>3, <1>8 DEF OpenInv, RingHoldsUntaken, QueueIsSetUp, SlotsHaveTheirJobs
<1>10. OperationsAreApart'
  <2>1. \A f \in inflight' : f \in inflight /\ f.slot # e.slot
    BY <1>1, <1>3 DEF OpenInv, OperationsAreApart
  <2>2. \A k \in DOMAIN cq : cq[k].slot # e.slot
    BY <1>1, <1>3 DEF OpenInv, OperationsAreApart
  <2>3. \A k, l \in DOMAIN cq' : cq'[k].slot = cq'[l].slot => k = l
    BY <1>3, <1>4, <1>6, <2>2 DEF OpenInv, OperationsAreApart
  <2>4. \A f \in inflight', k \in DOMAIN cq' : f.slot # cq'[k].slot
    BY <1>3, <1>4, <1>6, <2>1 DEF OpenInv, OperationsAreApart
  <2> QED  BY <1>3, <2>1, <2>3, <2>4 DEF OpenInv, OperationsAreApart
<1>11. OperationsAreTaken'
  <2>1. task[e.slot].status = "RUNNING" /\ sqe[e.slot] = e.job /\ taken[e.job] > 0
    BY <1>1, <1>3 DEF OpenInv, OperationsAreTaken
  <2>2. \A k \in DOMAIN cq' : task[cq'[k].slot].status = "RUNNING" /\ sqe[cq'[k].slot] = cq'[k].job
                              /\ taken[cq'[k].job] > 0
    BY <1>3, <1>4, <1>6, <2>1 DEF OpenInv, OperationsAreTaken
  <2> QED  BY <1>1, <1>3, <2>2 DEF OpenInv, OperationsAreTaken
<1> QED  BY <1>2, <1>7, <1>9, <1>10, <1>11 DEF RingInv, OpenInv

-----------------------------------------------------------------------------

LEMMA RingNextKeeps == InOrder /\ RingInv /\ [Next]_vars => RingInv'
<1> SUFFICES ASSUME InOrder, RingInv, [Next]_vars PROVE RingInv'
  OBVIOUS
<1>1. TypeOK /\ NothingOutside
  BY DEF RingInv
<1>2. CASE CreateContext \/ DestroyContext \/ Command \/ Submit \/ Process \/ AwaitPoll
  BY <1>2, RingCreate, RingDestroy, RingCommand, RingSubmit, RingProcess, RingAwaitPoll
<1>3. CASE CompleteAny
  BY <1>3, RingComplete DEF CompleteAny
<1>4. CASE \E i \in Slots : AwaitDone(i)
  BY <1>4, RingAwaitDone
<1>5. CASE (\E i \in Slots : AwaitBegin(i)) \/ AwaitWake \/ AwaitInterrupted \/ UNCHANGED vars
  <2>1. UNCHANGED <<ctx, sqTail, array, sqe, sqHead, taken, inflight, task, queue, issued, cq>>
    BY <1>5 DEF AwaitBegin, AwaitWake, AwaitInterrupted, vars, ring, kernel
  <2>2. Free \in [pc : {"free", "poll", "sleep"}, slot : Slots]
    BY IoUringAssumption DEF Free, Slots
  <2>3. user' \in [pc : {"free", "poll", "sleep"}, slot : Slots]
    BY <1>1, <1>5, <2>2 DEF AwaitBegin, AwaitWake, AwaitInterrupted, vars, TypeOK
  <2>4. ctx # "open" => user' = Free
    BY <1>1, <1>5 DEF AwaitBegin, AwaitWake, AwaitInterrupted, vars, NothingOutside, Free
  <2> QED  BY <2>1, <2>3, <2>4, RingUserMoves
<1> QED  BY <1>2, <1>3, <1>4, <1>5 DEF Next

LEMMA RingInvHolds == InOrder => (Spec => []RingInv)
<1> SUFFICES ASSUME InOrder PROVE Spec => []RingInv
  OBVIOUS
<1>1. RingInv /\ [Next]_vars => RingInv'
  BY RingNextKeeps
<1> QED  BY <1>1, RingInit, PTL DEF Spec

\* Every field of the context keeps its type: the counters of the ring stay in their
\* width, and submit_queue never holds more than its N entries.
THEOREM RingTypes == InOrder => (Spec => []TypeOK)
BY RingInvHolds, PTL DEF RingInv

\* A set with at most one element.
LEMMA AtMostOne ==
  ASSUME NEW S, \A x, y \in S : x = y
  PROVE  Cardinality(S) \in {0, 1} /\ (S = {} => Cardinality(S) = 0)
<1>1. CASE S = {}
  BY <1>1, FS_EmptySet
<1>2. CASE S # {}
  <2>1. PICK x \in S : S = {x}
    BY <1>2
  <2> QED  BY <2>1, FS_Singleton
<1> QED  BY <1>1, <1>2

LEMMA RingFindsTasks == RingInv => CompletionFindsItsTask
<1> SUFFICES ASSUME RingInv PROVE CompletionFindsItsTask
  OBVIOUS
<1>1. CASE ctx = "open"
  <2>1. OperationsAreApart /\ OperationsAreTaken
    BY <1>1 DEF RingInv, OpenInv
  <2>2. ASSUME NEW i \in Slots
        PROVE  Cardinality({e \in inflight : e.slot = i})
                 + Cardinality({k \in DOMAIN cq : cq[k].slot = i}) <= 1
    <3> DEFINE E == {e \in inflight : e.slot = i}
               K == {k \in DOMAIN cq : cq[k].slot = i}
    <3>1. /\ \A e, f \in E : e = f
          /\ \A k, l \in K : k = l
          /\ E = {} \/ K = {}
      BY <2>1 DEF OperationsAreApart
    <3> HIDE DEF E, K
    <3>2. Cardinality(E) \in {0, 1} /\ Cardinality(K) \in {0, 1}
          /\ (Cardinality(E) = 0 \/ Cardinality(K) = 0)
      BY <3>1, AtMostOne
    <3>3. Cardinality(E) + Cardinality(K) <= 1
      BY <3>2
    <3> QED  BY <3>3 DEF E, K
  <2> QED  BY <2>1, <2>2 DEF OperationsAreTaken, CompletionFindsItsTask
<1>2. CASE ctx # "open"
  <2>1. inflight = {} /\ DOMAIN cq = {}
    BY <1>2 DEF RingInv, NothingOutside
  <2>2. ASSUME NEW i \in Slots
        PROVE  Cardinality({e \in inflight : e.slot = i})
                 + Cardinality({k \in DOMAIN cq : cq[k].slot = i}) <= 1
    <3>1. {e \in inflight : e.slot = i} = {} /\ {k \in DOMAIN cq : cq[k].slot = i} = {}
      BY <2>1
    <3> QED  BY <3>1, FS_EmptySet
  <2> QED  BY <1>2, <2>1, <2>2 DEF CompletionFindsItsTask
<1> QED  BY <1>1, <1>2

\* No completion reaches a command other than its own, and at most one operation or
\* completion is under way for a slot, for every size of the ring.
THEOREM CompletionsFindTasks == InOrder => (Spec => []CompletionFindsItsTask)
BY RingInvHolds, RingFindsTasks, PTL

-----------------------------------------------------------------------------

\* The stage of a command, read off the state of an open context.
Flies(j) == \E e \in inflight : e.job = j
Stays(j) == \E i \in Slots : sqe[i] = j /\ task[i].status \in {"RUNNING", "DONE"}

StagesFollow ==
  \A j \in Jobs :
    Stage(j) = IF ctx = "closed" THEN "closed"
               ELSE IF j > issued THEN "none"
               ELSE IF taken[j] = 0 THEN "queued"
               ELSE IF Flies(j) THEN "running"
               ELSE IF Stays(j) THEN "done" ELSE "collected"

LEMMA JobNumbers ==
  ASSUME TypeOK, NEW j \in Jobs
  PROVE  j \in Nat /\ issued \in Nat /\ taken[j] \in Nat
BY DEF TypeOK, Jobs

LEMMA StagesFollowState == RingInv => StagesFollow
<1> SUFFICES ASSUME RingInv, NEW j \in Jobs
             PROVE  Stage(j) = IF ctx = "closed" THEN "closed"
                               ELSE IF j > issued THEN "none"
                               ELSE IF taken[j] = 0 THEN "queued"
                               ELSE IF Flies(j) THEN "running"
                               ELSE IF Stays(j) THEN "done" ELSE "collected"
  BY DEF StagesFollow
<1>1. TypeOK /\ j \in Nat /\ issued \in Nat /\ taken[j] \in Nat
  <2>1. TypeOK
    BY DEF RingInv
  <2> QED  BY <2>1, JobNumbers
<1>2. (j > issued <=> ~(j <= issued)) /\ (taken[j] > 0 <=> taken[j] # 0)
  BY <1>1
<1>3. (\A e \in inflight : e.job # j) <=> ~Flies(j)
  BY DEF Flies
<1>4. CASE ctx = "closed"
  BY <1>4 DEF Stage
<1>5. CASE ctx # "closed" /\ j > issued
  <2>1. ctx = "open" \/ ctx = "unset"
    BY <1>1, <1>5 DEF TypeOK
  <2>2. taken[j] = 0
    BY <1>5, <2>1 DEF RingInv, NothingOutside, OpenInv, OperationsAreTaken
  <2> QED  BY <1>2, <1>5, <2>2 DEF Stage
<1>6. CASE ctx # "closed" /\ j <= issued /\ taken[j] = 0
  BY <1>2, <1>6 DEF Stage
<1>7. CASE ctx # "closed" /\ j <= issued /\ taken[j] > 0 /\ Flies(j)
  BY <1>2, <1>3, <1>7 DEF Stage, Flies
<1>8. CASE ctx # "closed" /\ j <= issued /\ taken[j] > 0 /\ ~Flies(j) /\ Stays(j)
  BY <1>2, <1>3, <1>8 DEF Stage, Stays, Flies
<1>9. CASE ctx # "closed" /\ j <= issued /\ taken[j] > 0 /\ ~Flies(j) /\ ~Stays(j)
  BY <1>2, <1>3, <1>9 DEF Stage, Stays, Flies
<1> QED  BY <1>2, <1>4, <1>5, <1>6, <1>7, <1>8, <1>9

\* A command that is with the kernel flies from the slot that holds its entry.
LEMMA FliesFromItsSlot ==
  ASSUME RingInv, ctx = "open", NEW i \in Slots, sqe[i] \in Jobs
  PROVE  /\ Flies(sqe[i]) <=> \E e \in inflight : e.slot = i
         /\ Stays(sqe[i]) <=> task[i].status \in {"RUNNING", "DONE"}
         /\ Flies(sqe[i]) => task[i].status = "RUNNING"
<1>1. TypeOK /\ SlotsHaveTheirJobs /\ OperationsAreTaken
  BY DEF RingInv, OpenInv
<1>2. sqe[i] # 0 /\ \A k \in Slots : sqe[k] = sqe[i] => k = i
  BY <1>1 DEF SlotsHaveTheirJobs, Jobs
<1>3. \A e \in inflight : e.slot \in Slots /\ sqe[e.slot] = e.job /\ task[e.slot].status = "RUNNING"
  BY <1>1 DEF TypeOK, OperationsAreTaken
<1> QED  BY <1>2, <1>3 DEF Flies, Stays

\* A step that issues nothing leaves a command alone when it leaves its operation, its
\* task and how often it was taken.
LEMMA OthersStay ==
  ASSUME StagesFollow, StagesFollow', UNCHANGED <<ctx, issued>>, NEW j \in Jobs,
         taken'[j] = taken[j], Flies(j)' <=> Flies(j),
         taken[j] # 0 => (Stays(j)' <=> Stays(j))
  PROVE  Stage(j)' = Stage(j)
BY DEF StagesFollow

\* Such commands apart, those of S move together.
LEMMA JobMoves ==
  ASSUME NEW S \in SUBSET Jobs, S # {}, NEW from, NEW to,
         \A j \in S : Stage(j) = from /\ Stage(j)' = to,
         \A j \in Jobs \ S : Stage(j)' = Stage(j)
  PROVE  Commands!Move(S, from, to)
BY DEF Commands!Move

\* The next command takes a slot whose last command is collected.
LEMMA CommandIssuesNext ==
  ASSUME InOrder, RingInv, RingInv', StagesFollow, StagesFollow', Command
  PROVE  \E j \in Jobs : Commands!Issue(j)
<1>1. PICK i \in Slots : i = SlotAt(sqTail)
  BY CommandTakesTail
<1>2. /\ ctx = "open" /\ task[i].status = "READY" /\ issued + 1 \in Jobs
      /\ sqe' = [sqe EXCEPT ![i] = issued + 1]
      /\ task' = [task EXCEPT ![i] = [status |-> "SETUP", result |-> 0]]
      /\ issued' = issued + 1 /\ UNCHANGED <<ctx, taken, inflight>>
  BY <1>1, CommandTakesTail
<1>3. TypeOK /\ OpenInv
  BY <1>2 DEF RingInv
<1>4. PICK n \in Jobs : n = issued + 1
  BY <1>2
<1>5. /\ sqe'[i] = n /\ task'[i].status = "SETUP"
      /\ \A k \in Slots : k # i => sqe'[k] = sqe[k] /\ task'[k] = task[k]
      /\ issued \in Nat /\ issued' = n /\ n > issued /\ taken[n] = 0
  BY <1>2, <1>3, <1>4, IoUringAssumption DEF TypeOK, OpenInv, OperationsAreTaken
<1>6. Stage(n) = "none" /\ Stage(n)' = "queued"
  <2>1. ~(n > issued') /\ taken'[n] = 0 /\ ctx' = "open"
    BY <1>2, <1>5
  <2> QED  BY <1>2, <1>5, <2>1 DEF StagesFollow
<1>7. ASSUME NEW j \in Jobs \ {n}
      PROVE  Stage(j)' = Stage(j)
  <2>1. j \in Jobs /\ j # n /\ (j > issued' <=> j > issued)
    BY <1>4, <1>5 DEF Jobs
  <2>2. Flies(j)' <=> Flies(j)
    BY <1>2 DEF Flies
  <2>3. Stays(j)' <=> Stays(j)
    <3>1. ~(sqe[i] = j /\ task[i].status \in {"RUNNING", "DONE"})
      BY <1>2
    <3>2. ~(sqe'[i] = j)
      BY <1>5, <2>1
    <3> QED  BY <1>5, <3>1, <3>2 DEF Stays
  <2> QED  BY <1>2, <2>1, <2>2, <2>3 DEF StagesFollow
<1>8. Commands!Move({n}, "none", "queued")
  <2>1. \A j \in {n} : Stage(j) = "none" /\ Stage(j)' = "queued"
    BY <1>6
  <2>2. {n} \in SUBSET Jobs /\ {n} # {}
    OBVIOUS
  <2> QED  BY <1>7, <2>1, <2>2, JobMoves
<1> QED  BY <1>8 DEF Commands!Issue

\* A submit starts the commands the kernel takes, all of which were queued.
LEMMA SubmitStarts ==
  ASSUME RingInv, RingInv', StagesFollow, StagesFollow', Submit
  PROVE  \E S \in SUBSET Jobs : Commands!Start(S)
<1>1. /\ ctx = "open"
      /\ \A i \in Slots : task'[i].status = IF task[i].status = "SETUP" THEN "RUNNING" ELSE task[i].status
      /\ UNCHANGED <<ctx, sqe, issued>>
  BY SubmitIs
<1>2. PICK n \in 1..Pending : KernelTakes(n)
  BY SubmitIs
<1>3. TypeOK /\ OpenInv /\ Pending \in Nat
  BY <1>1, PendingIs, IoUringAssumption DEF RingInv, TypeOK
<1>4. /\ \A k \in 0..(n - 1) : /\ HeadAt(k) \in Slots /\ sqe[HeadAt(k)] \in Jobs
                               /\ taken'[sqe[HeadAt(k)]] > 0 /\ taken[sqe[HeadAt(k)]] = 0
      /\ \A j \in Jobs : (\A k \in 0..(n - 1) : sqe[HeadAt(k)] # j) => taken'[j] = taken[j]
  BY <1>1, <1>2, KernelTakesPending
<1>5. PICK nth \in [0..(n - 1) -> Nat \ {0}] :
         inflight' = inflight \cup
           {[slot |-> HeadAt(k), job |-> sqe[HeadAt(k)], nth |-> nth[k]] : k \in 0..(n - 1)}
  BY <1>1, <1>2, KernelTakesPending
<1> DEFINE S == {j \in Jobs : \E k \in 0..(n - 1) : sqe[HeadAt(k)] = j}
<1>6. S \in SUBSET Jobs /\ S # {}
  <2>1. 0 \in 0..(n - 1)
    BY <1>2, <1>3
  <2>2. sqe[HeadAt(0)] \in S
    BY <1>4, <2>1
  <2> QED  BY <2>2
<1>7. ASSUME NEW j \in S
      PROVE  Stage(j) = "queued" /\ Stage(j)' = "running"
  <2>1. PICK k \in 0..(n - 1) : sqe[HeadAt(k)] = j /\ j \in Jobs
    OBVIOUS
  <2>2. taken[j] = 0 /\ taken'[j] # 0 /\ ~(j > issued)
    <3>1. sqe[HeadAt(k)] <= issued /\ issued \in Nat /\ j \in Nat
      BY <1>3, <1>4, <2>1 DEF OpenInv, SlotsHaveTheirJobs, TypeOK, Jobs
    <3> QED  BY <1>4, <2>1, <3>1
  <2>3. Flies(j)'
    <3> DEFINE e == [slot |-> HeadAt(k), job |-> sqe[HeadAt(k)], nth |-> nth[k]]
    <3>1. e \in inflight' /\ e.job = j
      BY <1>5, <2>1
    <3> HIDE DEF e
    <3> QED  BY <3>1 DEF Flies
  <2> QED  BY <1>1, <2>1, <2>2, <2>3 DEF StagesFollow
<1>8. ASSUME NEW j \in Jobs \ S
      PROVE  Stage(j)' = Stage(j)
  <2>1. j \in Jobs /\ \A k \in 0..(n - 1) : sqe[HeadAt(k)] # j
    OBVIOUS
  <2>2. taken'[j] = taken[j]
    BY <1>4, <2>1
  <2>3. Flies(j)' <=> Flies(j)
    <3>1. \A e \in inflight' : e.job = j => e \in inflight
      BY <1>5, <2>1
    <3>2. \A e \in inflight : e \in inflight'
      BY <1>5
    <3> QED  BY <3>1, <3>2 DEF Flies
  <2>4. taken[j] # 0 => (Stays(j)' <=> Stays(j))
    <3>1. \A i \in Slots : sqe[i] = j /\ taken[j] # 0 => task[i].status # "SETUP"
      BY <1>3 DEF OpenInv, QueueIsSetUp
    <3> QED  BY <1>1, <3>1 DEF Stays
  <2> QED  BY <1>1, <2>1, <2>2, <2>3, <2>4, OthersStay
<1> HIDE DEF S
<1>9. Commands!Move(S, "queued", "running")
  BY <1>6, <1>7, <1>8, JobMoves
<1> QED  BY <1>6, <1>9 DEF Commands!Start

\* A completion finishes the command it is of.
LEMMA CompletionFinishes ==
  ASSUME RingInv, RingInv', StagesFollow, StagesFollow', NEW e, Complete(e)
  PROVE  \E j \in Jobs : Commands!Finish(j)
<1>1. e \in inflight /\ inflight' = inflight \ {e} /\ UNCHANGED <<ctx, sqe, taken, task, issued>>
  BY DEF Complete, ring
<1>2. ctx = "open"
  BY <1>1 DEF RingInv, NothingOutside
<1>3. TypeOK /\ OpenInv
  BY <1>2 DEF RingInv
<1>4. PICK i \in Slots : i = e.slot
  BY <1>1, <1>3 DEF TypeOK
<1>5. PICK n \in Jobs : n = e.job
  BY <1>1, <1>3 DEF TypeOK
<1>6. sqe[i] = n /\ task[i].status = "RUNNING" /\ taken[n] > 0
  BY <1>1, <1>3, <1>4, <1>5 DEF OpenInv, OperationsAreTaken
<1>7. \A f \in inflight : f.job = n => f = e
  <2>1. ASSUME NEW f \in inflight, f.job = n
        PROVE  f = e
    <3>1. f.slot \in Slots /\ sqe[f.slot] = n
      BY <1>3, <2>1 DEF OpenInv, OperationsAreTaken, TypeOK
    <3>2. n # 0
      BY DEF Jobs
    <3>3. f.slot = i
      BY <1>3, <1>6, <3>1, <3>2 DEF OpenInv, SlotsHaveTheirJobs
    <3> QED  BY <1>1, <1>3, <1>4, <3>3 DEF OpenInv, OperationsAreApart
  <2> QED  BY <2>1
<1>8. Flies(n) /\ ~Flies(n)' /\ Stays(n)'
  BY <1>1, <1>5, <1>6, <1>7 DEF Flies, Stays
<1>9. ~(n > issued) /\ taken[n] # 0
  <2>1. sqe[i] <= issued
    BY <1>3 DEF OpenInv, SlotsHaveTheirJobs
  <2>2. issued \in Nat /\ n \in Nat /\ taken[n] \in Nat
    BY <1>3, JobNumbers
  <2> QED  BY <1>6, <2>1, <2>2
<1>10. \A j \in {n} : Stage(j) = "running" /\ Stage(j)' = "done"
  BY <1>1, <1>2, <1>8, <1>9 DEF StagesFollow
<1>11. ASSUME NEW j \in Jobs \ {n}
       PROVE  Stage(j)' = Stage(j)
  <2>1. Flies(j)' <=> Flies(j)
    BY <1>1, <1>5 DEF Flies
  <2>2. Stays(j)' <=> Stays(j)
    BY <1>1 DEF Stays
  <2> QED  BY <1>1, <2>1, <2>2, OthersStay
<1>12. {n} \in SUBSET Jobs /\ {n} # {}
  OBVIOUS
<1>13. Commands!Move({n}, "running", "done")
  BY <1>10, <1>11, <1>12, JobMoves
<1> QED  BY <1>13 DEF Commands!Finish

\* Handing over the result of a command that has ended, and marking others done.
LEMMA ReadyCollects ==
  ASSUME RingInv, RingInv', StagesFollow, StagesFollow', ctx = "open",
         UNCHANGED <<ctx, sqe, taken, inflight, issued>>, NEW i \in Slots,
         task[i].status \in {"RUNNING", "DONE"}, task'[i].status = "READY", taken[sqe[i]] > 0,
         \A e \in inflight : e.slot # i,
         \A k \in Slots : k # i =>
           (task'[k].status \in {"RUNNING", "DONE"} <=> task[k].status \in {"RUNNING", "DONE"})
  PROVE  \E j \in Jobs : Commands!Collect(j)
<1>1. TypeOK /\ OpenInv
  BY DEF RingInv
<1>2. PICK n \in Jobs : n = sqe[i]
  BY <1>1 DEF OpenInv, SlotsHaveTheirJobs
<1>3. \A k \in Slots : sqe[k] = n => k = i
  BY <1>1, <1>2 DEF OpenInv, SlotsHaveTheirJobs, Jobs
<1>4. ~Flies(n) /\ ~Flies(n)' /\ Stays(n) /\ ~Stays(n)'
  <2>1. ~Flies(n)
    BY <1>2, FliesFromItsSlot
  <2>2. Flies(n)' <=> Flies(n)
    BY DEF Flies
  <2> QED  BY <1>2, <1>3, <2>1, <2>2 DEF Stays
<1>5. ~(n > issued) /\ taken[n] # 0
  <2>1. sqe[i] <= issued
    BY <1>1 DEF OpenInv, SlotsHaveTheirJobs
  <2>2. issued \in Nat /\ n \in Nat /\ taken[n] \in Nat
    BY <1>1, JobNumbers
  <2> QED  BY <1>2, <2>1, <2>2
<1>6. \A j \in {n} : Stage(j) = "done" /\ Stage(j)' = "collected"
  BY <1>4, <1>5 DEF StagesFollow
<1>7. ASSUME NEW j \in Jobs \ {n}
      PROVE  Stage(j)' = Stage(j)
  <2>1. Flies(j)' <=> Flies(j)
    BY DEF Flies
  <2>2. Stays(j)' <=> Stays(j)
    <3>1. ~(sqe[i] = j)
      BY <1>2
    <3> QED  BY <3>1 DEF Stays
  <2> QED  BY <2>1, <2>2, OthersStay
<1>8. {n} \in SUBSET Jobs /\ {n} # {}
  OBVIOUS
<1>9. Commands!Move({n}, "done", "collected")
  BY <1>6, <1>7, <1>8, JobMoves
<1> QED  BY <1>9 DEF Commands!Collect

\* Draining changes no stage: a command whose completion is there has ended.
LEMMA DrainedStays ==
  ASSUME RingInv, ctx = "open"
  PROVE  \A i \in Slots :
           Drained(cq)[i].status \in {"RUNNING", "DONE"} <=> task[i].status \in {"RUNNING", "DONE"}
BY DrainedIs

LEMMA DrainMovesNone ==
  ASSUME RingInv, RingInv', StagesFollow, StagesFollow', ctx = "open",
         UNCHANGED <<ctx, sqe, taken, inflight, issued>>, task' = Drained(cq)
  PROVE  \A j \in Jobs : Stage(j)' = Stage(j)
<1> SUFFICES ASSUME NEW j \in Jobs PROVE Stage(j)' = Stage(j)
  OBVIOUS
<1>1. Flies(j)' <=> Flies(j)
  BY DEF Flies
<1>2. Stays(j)' <=> Stays(j)
  BY DrainedStays DEF Stays
<1> QED  BY <1>1, <1>2, OthersStay

LEMMA PollCollects ==
  ASSUME RingInv, RingInv', StagesFollow, StagesFollow', AwaitPoll
  PROVE  (\E j \in Jobs : Commands!Collect(j)) \/ \A j \in Jobs : Stage(j)' = Stage(j)
<1>1. user.pc = "poll" /\ UNCHANGED <<ctx, sqe, taken, inflight, issued>>
  BY DEF AwaitPoll, ring, kernel
<1>2. ctx = "open"
  BY <1>1 DEF RingInv, NothingOutside, Free
<1>3. TypeOK /\ OpenInv
  BY <1>2 DEF RingInv
<1>4. PICK s \in Slots : s = user.slot
  BY <1>3 DEF TypeOK
<1>5. CASE Drained(cq)[s].status = "DONE"
  <2>1. task' = [Drained(cq) EXCEPT ![s].status = "READY"]
    BY <1>4, <1>5 DEF AwaitPoll
  <2>2. Drained(cq) \in [Slots -> [status : {"READY", "SETUP", "RUNNING", "DONE"}, result : Jobs \cup {0}]]
    BY <1>2, DrainedIs
  <2>3. task'[s].status = "READY" /\ \A k \in Slots : k # s => task'[k] = Drained(cq)[k]
    BY <2>1, <2>2
  <2>4. \A k \in Slots : k # s =>
          (task'[k].status \in {"RUNNING", "DONE"} <=> task[k].status \in {"RUNNING", "DONE"})
    BY <1>2, <2>3, DrainedStays
  <2>5. task[s].status \in {"RUNNING", "DONE"} /\ taken[sqe[s]] > 0 /\ \A e \in inflight : e.slot # s
    <3>1. CASE InCompletions(s)
      BY <1>2, <3>1, DrainedIs
    <3>2. CASE ~InCompletions(s)
      <4>1. task[s].status = "DONE"
        BY <1>2, <1>5, <3>2, DrainedIs
      <4> QED  BY <1>3, <4>1 DEF OpenInv, OperationsAreTaken
    <3> QED  BY <3>1, <3>2
  <2> QED  BY <1>1, <1>2, <2>3, <2>4, <2>5, ReadyCollects
<1>6. CASE Drained(cq)[s].status # "DONE"
  <2>1. task' = Drained(cq)
    BY <1>4, <1>6 DEF AwaitPoll
  <2> QED  BY <1>1, <1>2, <2>1, DrainMovesNone
<1> QED  BY <1>5, <1>6

\* Every step is a step of the abstract commands, or none.
LEMMA RingNextRefines ==
  ASSUME InOrder, RingInv, RingInv', StagesFollow, StagesFollow', [Next]_vars
  PROVE  Commands!Next \/ UNCHANGED [j \in Jobs |-> Stage(j)]
<1>1. CASE CreateContext
  <2>1. \A j \in Jobs : Stage(j)' = Stage(j)
    <3>1. ctx # "closed" /\ ctx' # "closed" /\ UNCHANGED <<sqe, task, taken, inflight, issued>>
      BY <1>1 DEF CreateContext, ring, kernel
    <3> QED  BY <3>1 DEF Stage
  <2> QED  BY <2>1
<1>2. CASE DestroyContext
  <2>1. \A j \in Jobs : Stage(j)' = "closed"
    BY <1>2 DEF DestroyContext, StagesFollow
  <2>2. Commands!Close
    BY <2>1 DEF Commands!Close
  <2> QED  BY <2>2 DEF Commands!Next
<1>3. CASE Command
  BY <1>3, CommandIssuesNext DEF Commands!Next
<1>4. CASE Submit
  BY <1>4, SubmitStarts DEF Commands!Next
<1>5. CASE CompleteAny
  BY <1>5, CompletionFinishes DEF CompleteAny, Commands!Next
<1>6. CASE Process
  <2>1. ctx = "open" /\ task' = Drained(cq) /\ UNCHANGED <<ctx, sqe, taken, inflight, issued>>
    BY <1>6 DEF Process, ring, kernel
  <2>2. \A j \in Jobs : Stage(j)' = Stage(j)
    BY <2>1, DrainMovesNone
  <2> QED  BY <2>2
<1>7. CASE AwaitPoll
  BY <1>7, PollCollects DEF Commands!Next
<1>8. ASSUME NEW i \in Slots, AwaitDone(i)
      PROVE  Commands!Next
  <2>1. /\ ctx = "open" /\ task[i].status = "DONE" /\ task' = [task EXCEPT ![i].status = "READY"]
        /\ UNCHANGED <<ctx, sqe, taken, inflight, issued>>
    BY <1>8 DEF AwaitDone, ring, kernel
  <2>2. TypeOK /\ OpenInv
    BY <2>1 DEF RingInv
  <2>3. task'[i].status = "READY" /\ \A k \in Slots : k # i => task'[k] = task[k]
    BY <2>1, <2>2 DEF TypeOK
  <2>4. taken[sqe[i]] > 0 /\ \A e \in inflight : e.slot # i
    BY <2>1, <2>2 DEF OpenInv, OperationsAreTaken
  <2>5. \E j \in Jobs : Commands!Collect(j)
    BY <2>1, <2>3, <2>4, ReadyCollects
  <2> QED  BY <2>5 DEF Commands!Next
<1>9. CASE (\E i \in Slots : AwaitBegin(i)) \/ AwaitWake \/ AwaitInterrupted \/ UNCHANGED vars
  <2>1. UNCHANGED <<ctx, sqe, task, taken, inflight, issued>>
    BY <1>9 DEF AwaitBegin, AwaitWake, AwaitInterrupted, vars, ring, kernel
  <2>2. \A j \in Jobs : Stage(j)' = Stage(j)
    BY <2>1 DEF Stage
  <2> QED  BY <2>2
<1> QED  BY <1>1, <1>2, <1>3, <1>4, <1>5, <1>6, <1>7, <1>8, <1>9 DEF Next

LEMMA RingInitRefines == Init => Commands!Init
<1> SUFFICES ASSUME Init PROVE Commands!Init
  OBVIOUS
<1>1. StagesFollow
  BY RingInit, StagesFollowState
<1>2. \A j \in Jobs : j > issued /\ ctx # "closed"
  BY DEF Init, Jobs
<1>3. \A j \in Jobs : Stage(j) = "none"
  BY <1>1, <1>2 DEF StagesFollow
<1> QED  BY <1>3 DEF Commands!Init

\* On Linux too a command is carried out once and its result is handed over once: the
\* context implements AsyncCommands, for callers that free slots in ring order.
THEOREM LinuxImplementsCommands == InOrder => (Spec => EachCommandOnce)
<1> SUFFICES ASSUME InOrder PROVE Spec => EachCommandOnce
  OBVIOUS
<1>1. RingInv => StagesFollow
  BY StagesFollowState
<1>2. RingInv /\ RingInv' /\ StagesFollow /\ StagesFollow' /\ [Next]_vars
        => Commands!Next \/ UNCHANGED [j \in Jobs |-> Stage(j)]
  BY RingNextRefines
<1>3. RingInv /\ [Next]_vars => RingInv'
  BY RingNextKeeps
<1> QED  BY <1>1, <1>2, <1>3, RingInit, RingInitRefines, PTL DEF Spec, EachCommandOnce, Commands!Spec

(***************************************************************************)
(* The context of Windows, whatever the system refuses or lets fail        *)
(***************************************************************************)

Waiting == {i \in WinSlots : commands[i].status = "SETUP"}

\* An entry that is free has no command, any other has one that was issued, and no
\* command is in two entries.
EntriesHaveTheirCommands ==
  /\ \A i \in WinSlots :
       IF commands[i].status = "READY" THEN commands[i] = Ready
       ELSE commands[i].job \in 1..winIssued
  /\ \A i, k \in WinSlots :
       commands[i].job = commands[k].job /\ commands[i].job # 0 => i = k

\* An event is signalled by an operation that has ended.
EventsHaveEnded == \A i \in events : overlapped[i] \in {"ok", "failed"}

\* The rounds of a submit that are left stay inside the queue, and an await waits for
\* an entry of the context.
OwnerInBounds ==
  /\ owner.pc = "submit" => submit.count > 0 /\ owner.at + submit.count <= WinEntries
  /\ owner.pc = "await"  => owner.at \in WinSlots
  /\ winCtx # "open" => owner = Resting

\* Before the context is made there is nothing in it.
UnsetIsEmpty ==
  winCtx = "unset" =>
    /\ flying = {} /\ events = {} /\ submit.count = 0 /\ winIssued = 0
    /\ \A i \in WinSlots : commands[i] = Ready

\* The inductive invariant; a context that is closed is not used again.
WinInv ==
  /\ WinTypeOK /\ OwnerInBounds /\ UnsetIsEmpty
  /\ winCtx # "closed" => EventFindsItsCommand /\ EntriesHaveTheirCommands /\ EventsHaveEnded

-----------------------------------------------------------------------------

\* Sets of entries are finite, and one more or less changes their number by one.
LEMMA EntriesFinite ==
  /\ IsFiniteSet(WinSlots) /\ Cardinality(WinSlots) = WinEntries
  /\ \A S \in SUBSET WinSlots :
       /\ IsFiniteSet(S) /\ Cardinality(S) \in 0..WinEntries
       /\ \A i \in S : Cardinality(S \ {i}) = Cardinality(S) - 1
       /\ \A i \in WinSlots \ S : Cardinality(S \cup {i}) = Cardinality(S) + 1
<1>1. IsFiniteSet(WinSlots) /\ Cardinality(WinSlots) = WinEntries
  BY FS_Interval, OverlappedAssumption DEF WinSlots
<1>2. ASSUME NEW S \in SUBSET WinSlots
      PROVE  /\ IsFiniteSet(S) /\ Cardinality(S) \in 0..WinEntries
             /\ \A i \in S : Cardinality(S \ {i}) = Cardinality(S) - 1
             /\ \A i \in WinSlots \ S : Cardinality(S \cup {i}) = Cardinality(S) + 1
  <2>1. IsFiniteSet(S) /\ Cardinality(S) \in Nat /\ Cardinality(S) <= Cardinality(WinSlots)
    BY <1>1, FS_Subset, FS_CardinalityType
  <2>2. \A i \in S : Cardinality(S \ {i}) = Cardinality(S) - 1
    BY <2>1, FS_RemoveElement
  <2>3. \A i \in WinSlots \ S : Cardinality(S \cup {i}) = Cardinality(S) + 1
    BY <2>1, FS_AddElement
  <2> QED  BY <1>1, <2>1, <2>2, <2>3, OverlappedAssumption
<1> QED  BY <1>1, <1>2

\* The first of some numbers is one of them.
LEMMA FirstIsOne ==
  ASSUME NEW S \in SUBSET WinSlots, S # {}
  PROVE  Min(S) \in S
<1> DEFINE Down == {0..s : s \in S}
<1>1. S \subseteq Nat
  BY OverlappedAssumption DEF WinSlots
<1>2. Down \subseteq FiniteSubsetsOf(Nat) /\ Down # {}
  <2>1. ASSUME NEW s \in S PROVE IsFiniteSet(0..s) /\ 0..s \in SUBSET Nat
    BY <1>1, FS_Interval
  <2> QED  BY <2>1 DEF FiniteSubsetsOf
<1>3. PICK D \in Down : \A E \in Down : ~(<<E, D>> \in StrictSubsetOrdering(Nat))
  BY <1>2, FS_StrictSubsetOrderingWellFounded, WFMin
<1>4. PICK s \in S : D = 0..s
  BY <1>3
<1>5. ASSUME NEW t \in S, ~(s <= t) PROVE FALSE
  <2>1. t \in 0..s /\ s \in 0..s /\ s \notin 0..t /\ 0..t \subseteq 0..s
    BY <1>1, <1>5
  <2>2. 0..t \in Down /\ 0..t # D /\ 0..t \subseteq D /\ D \subseteq Nat
    BY <1>4, <2>1
  <2> QED  BY <1>3, <2>2 DEF StrictSubsetOrdering
<1> QED  BY <1>5 DEF Min

\* An entry is reached from the index, however far it is.
LEMMA SlotAtIsSlot ==
  ASSUME WinTypeOK, NEW k \in Nat
  PROVE  WinSlotAt(k) \in WinSlots
<1>1. submit.index \in Nat
  BY OverlappedAssumption DEF WinTypeOK, WinSlots
<1>2. submit.index + k \in Nat
  BY <1>1
<1>3. WinSlotAt(k) \in 0..(WinEntries - 1)
  BY <1>2, OverlappedAssumption DEF WinSlotAt
<1> QED  BY <1>3 DEF WinSlots

-----------------------------------------------------------------------------

LEMMA WinInitInv == WinInit => WinInv
<1> SUFFICES ASSUME WinInit PROVE WinInv
  OBVIOUS
<1>1. WinTypeOK
  BY OverlappedAssumption DEF WinInit, WinTypeOK, WinSlots, Ready, Resting
<1>2. Waiting = {} /\ Cardinality(Waiting) \in Nat
  BY EntriesFinite DEF WinInit, Ready, Waiting
<1>3. EventFindsItsCommand
  BY <1>2 DEF WinInit, Ready, EventFindsItsCommand, Waiting
<1>4. EntriesHaveTheirCommands /\ EventsHaveEnded /\ OwnerInBounds /\ UnsetIsEmpty
  BY DEF WinInit, Ready, Resting, EntriesHaveTheirCommands, EventsHaveEnded, OwnerInBounds, UnsetIsEmpty
<1> QED  BY <1>1, <1>3, <1>4 DEF WinInv

\* A step that only moves the owner, or nothing, keeps what is known of the commands.
LEMMA OwnerMoves ==
  ASSUME WinInv, UNCHANGED <<winCtx, commands, submit, events, overlapped, flying, winIssued>>,
         owner' \in [pc : {"idle", "submit", "process", "await"}, at : 0..WinEntries],
         OwnerInBounds'
  PROVE  WinInv'
<1>1. WinTypeOK' /\ UnsetIsEmpty'
  BY DEF WinInv, WinTypeOK, UnsetIsEmpty
<1>2. EventFindsItsCommand' = EventFindsItsCommand /\ EventsHaveEnded' = EventsHaveEnded
      /\ EntriesHaveTheirCommands' = EntriesHaveTheirCommands
  BY DEF EventFindsItsCommand, Reported, EntriesHaveTheirCommands, EventsHaveEnded
<1> QED  BY <1>1, <1>2 DEF WinInv

LEMMA CreateKeeps ==
  ASSUME WinInv, WinCreate
  PROVE  WinInv'
<1>1. WinTypeOK' /\ OwnerInBounds' /\ UnsetIsEmpty'
  BY DEF WinInv, WinCreate, WinTypeOK, OwnerInBounds, UnsetIsEmpty
<1>2. EventFindsItsCommand' /\ EntriesHaveTheirCommands' /\ EventsHaveEnded'
  <2>1. Cardinality(Waiting) \in Nat
    BY EntriesFinite DEF Waiting
  <2> QED
    BY <2>1 DEF WinInv, WinCreate, UnsetIsEmpty, Ready, Waiting,
                EventFindsItsCommand, EntriesHaveTheirCommands, EventsHaveEnded
<1> QED  BY <1>1, <1>2 DEF WinInv

LEMMA DestroyKeeps ==
  ASSUME WinInv, WinDestroy
  PROVE  WinInv'
<1>1. WinTypeOK'
  BY OverlappedAssumption DEF WinInv, WinDestroy, WinTypeOK, WinSlots, Ready
<1>2. OwnerInBounds' /\ UnsetIsEmpty' /\ winCtx' = "closed"
  BY DEF WinInv, WinDestroy, WinIdle, Resting, OwnerInBounds, UnsetIsEmpty
<1> QED  BY <1>1, <1>2 DEF WinInv

LEMMA CommandKeeps ==
  ASSUME WinInv, WinCommand
  PROVE  WinInv'
<1> DEFINE skip == Min(WinFree)
           i == WinSlotAt(skip)
<1>1. /\ winCtx = "open" /\ owner = Resting /\ winIssued < WinCommands
      /\ submit' = [queue |-> [submit.queue EXCEPT ![submit.count] = i],
                    count |-> submit.count + 1, index |-> WinSlotAt(skip + 1)]
      /\ commands' = [commands EXCEPT ![i] =
                        [status |-> "SETUP", job |-> winIssued + 1, result |-> 0]]
      /\ winIssued' = winIssued + 1
      /\ UNCHANGED <<winCtx, events, overlapped, flying, owner>>
  BY DEF WinCommand, WinIdle
<1>2. skip \in WinSlots /\ commands[i].status = "READY"
  <2>1. WinFree \in SUBSET WinSlots /\ WinFree # {}
    BY DEF WinFree, WinCommand
  <2> QED  BY <2>1, FirstIsOne DEF WinFree
<1>3. i \in WinSlots /\ WinSlotAt(skip + 1) \in WinSlots
  <2>1. skip \in Nat /\ skip + 1 \in Nat
    BY <1>2, OverlappedAssumption DEF WinSlots
  <2> QED  BY <2>1, SlotAtIsSlot DEF WinInv
<1> HIDE DEF skip, i
<1>4. /\ WinTypeOK /\ OwnerInBounds
      /\ EventFindsItsCommand /\ EntriesHaveTheirCommands /\ EventsHaveEnded
  BY <1>1 DEF WinInv
<1>5. submit'.count <= Cardinality(Waiting') /\ submit'.count \in 0..WinEntries
  <2>1. Waiting' = Waiting \cup {i} /\ i \in WinSlots \ Waiting
    BY <1>1, <1>2, <1>3, <1>4 DEF Waiting, WinTypeOK
  <2>2. Waiting \in SUBSET WinSlots /\ Waiting' \in SUBSET WinSlots
    BY <2>1 DEF Waiting
  <2>3. Cardinality(Waiting') = Cardinality(Waiting) + 1 /\ Cardinality(Waiting') \in 0..WinEntries
        /\ Cardinality(Waiting) \in 0..WinEntries
    BY <2>1, <2>2, EntriesFinite
  <2>4. submit.count <= Cardinality(Waiting) /\ submit.count \in Nat
    BY <1>1, <1>4, OverlappedAssumption DEF EventFindsItsCommand, Waiting, WinTypeOK
  <2>5. submit'.count = submit.count + 1
    BY <1>1
  <2> QED  BY <2>3, <2>4, <2>5, OverlappedAssumption
<1>6. WinTypeOK'
  <2>1. [status |-> "SETUP", job |-> winIssued + 1, result |-> 0]
          \in [status : {"READY", "SETUP", "RUNNING", "DONE"},
               job : 0..WinCommands, result : (-WinCommands)..WinCommands]
    BY <1>1, <1>4, OverlappedAssumption DEF WinTypeOK
  <2>2. submit' \in [queue : [WinSlots -> WinSlots], count : 0..WinEntries, index : WinSlots]
    BY <1>1, <1>3, <1>4, <1>5 DEF WinTypeOK
  <2>3. winIssued' \in 0..WinCommands
    BY <1>1, <1>4, OverlappedAssumption DEF WinTypeOK
  <2> QED  BY <1>1, <1>3, <1>4, <2>1, <2>2, <2>3 DEF WinTypeOK
<1>7. EventFindsItsCommand'
  <2>1. \A e \in flying : e.slot # i /\ e.slot \in WinSlots
    BY <1>1, <1>2, <1>4 DEF EventFindsItsCommand, WinTypeOK
  <2>2. \A k \in events : k # i /\ k \in WinSlots
    BY <1>1, <1>2, <1>4 DEF EventFindsItsCommand, WinTypeOK, Reported
  <2>3. \A k \in WinSlots : k # i => commands'[k] = commands[k]
    BY <1>1, <1>4 DEF WinTypeOK
  <2>4. commands'[i].status = "SETUP"
    BY <1>1, <1>3, <1>4 DEF WinTypeOK
  <2> QED
    BY <1>1, <1>4, <1>5, <2>1, <2>2, <2>3, <2>4 DEF EventFindsItsCommand, Waiting, Reported
<1>8. EntriesHaveTheirCommands'
  <2>1. \A k \in WinSlots : k # i => commands'[k] = commands[k]
    BY <1>1, <1>4 DEF WinTypeOK
  <2>2. commands'[i].status = "SETUP" /\ commands'[i].job = winIssued + 1
    BY <1>1, <1>3, <1>4 DEF WinTypeOK
  <2>3. \A k \in WinSlots : commands[k].job \in 0..winIssued /\ winIssued \in Nat
    BY <1>4, OverlappedAssumption DEF WinTypeOK, EntriesHaveTheirCommands, Ready
  <2> QED  BY <1>1, <1>4, <2>1, <2>2, <2>3 DEF EntriesHaveTheirCommands
<1>9. OwnerInBounds' /\ UnsetIsEmpty' /\ EventsHaveEnded'
  BY <1>1, <1>4 DEF OwnerInBounds, Resting, UnsetIsEmpty, EventsHaveEnded
<1> QED  BY <1>6, <1>7, <1>8, <1>9 DEF WinInv

\* An entry that is taken out of the queue's count is one that waited.
LEMMA CountFollows ==
  ASSUME WinTypeOK, EventFindsItsCommand, winCtx = "open", submit.count > 0,
         NEW i \in WinSlots, commands[i].status = "SETUP",
         NEW S, S = Waiting \ {i}
  PROVE  submit.count - 1 <= Cardinality(S) /\ submit.count - 1 \in 0..WinEntries
<1>1. Waiting \in SUBSET WinSlots /\ i \in Waiting
  BY DEF Waiting
<1>2. Cardinality(S) = Cardinality(Waiting) - 1 /\ Cardinality(Waiting) \in 0..WinEntries
  BY <1>1, EntriesFinite
<1>3. submit.count <= Cardinality(Waiting) /\ submit.count \in 0..WinEntries
  BY DEF EventFindsItsCommand, Waiting, WinTypeOK
<1> QED  BY <1>2, <1>3, OverlappedAssumption

\* What a round of a submit does to the owner and the count.
LEMMA RoundKeeps ==
  ASSUME WinInv, owner.pc = "submit", NEW ok \in BOOLEAN, NextRound(ok), UNCHANGED winCtx
  PROVE  /\ winCtx = "open" /\ Submitted \in WinSlots /\ submit.count > 0
         /\ submit' \in [queue : [WinSlots -> WinSlots], count : 0..WinEntries, index : WinSlots]
         /\ submit'.count = submit.count - 1
         /\ owner' \in [pc : {"idle", "submit", "process", "await"}, at : 0..WinEntries]
         /\ OwnerInBounds'
<1>1. /\ winCtx = "open" /\ submit.count > 0 /\ owner.at + submit.count <= WinEntries
  BY DEF WinInv, WinTypeOK, OwnerInBounds, Resting
<1>2. /\ submit.queue \in [WinSlots -> WinSlots] /\ submit.count \in 0..WinEntries
      /\ owner.at \in 0..WinEntries
      /\ submit \in [queue : [WinSlots -> WinSlots], count : 0..WinEntries, index : WinSlots]
      /\ owner \in [pc : {"idle", "submit", "process", "await"}, at : 0..WinEntries]
  BY DEF WinInv, WinTypeOK
<1>3. owner.at \in WinSlots /\ Submitted \in WinSlots
  <2>1. owner.at \in WinSlots
    BY <1>1, <1>2, OverlappedAssumption DEF WinSlots
  <2> QED  BY <1>2, <2>1 DEF Submitted
<1>4. /\ submit' = [submit EXCEPT !.count = submit.count - 1]
      /\ submit.count - 1 \in 0..WinEntries
  BY <1>1, <1>2, OverlappedAssumption DEF NextRound
<1>5. CASE ok /\ submit.count > 1
  <2>1. owner' = [owner EXCEPT !.at = owner.at + 1] /\ owner.at + 1 \in 0..WinEntries
    BY <1>1, <1>2, <1>5, OverlappedAssumption DEF NextRound
  <2>2. owner'.pc = "submit" /\ owner'.at = owner.at + 1 /\ submit'.count = submit.count - 1
    BY <1>2, <1>4, <2>1
  <2>3. OwnerInBounds'
    BY <1>1, <1>2, <1>5, <2>2, OverlappedAssumption DEF OwnerInBounds
  <2> QED  BY <1>1, <1>2, <1>3, <1>4, <2>1, <2>2, <2>3
<1>6. CASE ~(ok /\ submit.count > 1)
  <2>1. owner' = Resting
    BY <1>6 DEF NextRound
  <2> QED  BY <1>1, <1>2, <1>3, <1>4, <2>1, OverlappedAssumption DEF OwnerInBounds, Resting
<1> QED  BY <1>5, <1>6

\* An entry of which the event and the command are put back.
LEMMA ResetKeeps ==
  ASSUME WinInv, winCtx = "open", NEW i \in WinSlots, \A e \in flying : e.slot # i,
         NEW cs, cs \in [WinSlots -> [status : {"READY", "SETUP", "RUNNING", "DONE"},
                                job : 0..WinCommands, result : (-WinCommands)..WinCommands]],
         \A k \in WinSlots : k # i => cs[k] = commands[k],
         Reset(cs, i), UNCHANGED <<winCtx, flying, winIssued>>,
         submit' \in [queue : [WinSlots -> WinSlots], count : 0..WinEntries, index : WinSlots],
         submit'.count <= Cardinality(Waiting \ {i}),
         owner' \in [pc : {"idle", "submit", "process", "await"}, at : 0..WinEntries],
         OwnerInBounds'
  PROVE  WinInv'
<1>1. /\ WinTypeOK /\ EventFindsItsCommand /\ EntriesHaveTheirCommands /\ EventsHaveEnded
  BY DEF WinInv
<1>2. commands'[i] = Ready /\ \A k \in WinSlots : k # i => commands'[k] = commands[k]
  BY DEF Reset
<1>3. WinTypeOK'
  <2>1. Ready \in [status : {"READY", "SETUP", "RUNNING", "DONE"},
                   job : 0..WinCommands, result : (-WinCommands)..WinCommands]
    BY OverlappedAssumption DEF Ready
  <2> QED  BY <1>1, <2>1 DEF WinTypeOK, Reset
<1>4. /\ events' = events \ {i} /\ overlapped' = [overlapped EXCEPT ![i] = "none"]
      /\ \A k \in events' : k \in WinSlots /\ overlapped'[k] = overlapped[k]
      /\ \A e \in flying : e.slot \in WinSlots
  BY <1>1 DEF WinTypeOK, Reset
<1>5. EventFindsItsCommand'
  <2>1. Waiting' = Waiting \ {i}
    BY <1>2 DEF Waiting, Ready
  <2>2. commands'[i].status = "READY"
    BY <1>2 DEF Ready
  <2>3. submit'.count <= Cardinality(Waiting')
    BY <2>1
  <2>4. submit'.count <= Cardinality({k \in WinSlots : commands'[k].status = "SETUP"})
    BY <2>3 DEF Waiting
  <2> QED  BY <1>1, <1>2, <1>4, <2>2, <2>4 DEF EventFindsItsCommand, Reported
<1>6. EntriesHaveTheirCommands'
  BY <1>1, <1>2 DEF EntriesHaveTheirCommands, Ready
<1>7. EventsHaveEnded' /\ UnsetIsEmpty'
  BY <1>1, <1>4 DEF EventsHaveEnded, UnsetIsEmpty
<1> QED  BY <1>3, <1>5, <1>6, <1>7 DEF WinInv

LEMMA SkipsKeep ==
  ASSUME WinInv, WinSubmitSkips
  PROVE  WinInv'
<1>1. /\ winCtx = "open" /\ submit.count > 0 /\ submit'.count = submit.count - 1
      /\ submit' \in [queue : [WinSlots -> WinSlots], count : 0..WinEntries, index : WinSlots]
      /\ owner' \in [pc : {"idle", "submit", "process", "await"}, at : 0..WinEntries]
      /\ OwnerInBounds'
      /\ UNCHANGED <<winCtx, commands, events, overlapped, flying, winIssued>>
  BY RoundKeeps DEF WinSubmitSkips
<1>2. WinTypeOK' /\ UnsetIsEmpty'
  BY <1>1 DEF WinInv, WinTypeOK, UnsetIsEmpty
<1>3. EventFindsItsCommand'
  <2>1. submit'.count <= Cardinality(Waiting)
    <3>1. Waiting \in SUBSET WinSlots
      BY DEF Waiting
    <3>2. Cardinality(Waiting) \in Nat
      BY <3>1, EntriesFinite, OverlappedAssumption
    <3>3. submit.count <= Cardinality(Waiting) /\ submit.count \in Nat
      BY <1>1, OverlappedAssumption DEF WinInv, EventFindsItsCommand, Waiting, WinTypeOK
    <3> QED  BY <1>1, <3>2, <3>3
  <2>2. submit'.count <= Cardinality({k \in WinSlots : commands'[k].status = "SETUP"})
    BY <1>1, <2>1 DEF Waiting
  <2> QED  BY <1>1, <2>2 DEF WinInv, EventFindsItsCommand, Reported
<1>4. EntriesHaveTheirCommands' /\ EventsHaveEnded'
  BY <1>1 DEF WinInv, EntriesHaveTheirCommands, EventsHaveEnded
<1> QED  BY <1>1, <1>2, <1>3, <1>4 DEF WinInv

LEMMA StartsKeep ==
  ASSUME WinInv, WinSubmitStarts
  PROVE  WinInv'
<1> DEFINE i == Submitted
           op == [slot |-> i, job |-> commands[i].job]
<1>1. /\ winCtx = "open" /\ i \in WinSlots /\ submit.count > 0 /\ submit'.count = submit.count - 1
      /\ submit' \in [queue : [WinSlots -> WinSlots], count : 0..WinEntries, index : WinSlots]
      /\ owner' \in [pc : {"idle", "submit", "process", "await"}, at : 0..WinEntries]
      /\ OwnerInBounds'
  BY RoundKeeps DEF WinSubmitStarts
<1>2. /\ commands[i].status = "SETUP"
      /\ commands' = [commands EXCEPT ![i].status = "RUNNING"]
      /\ events' = events \ {i} /\ flying' = flying \cup {op}
      /\ overlapped' = [overlapped EXCEPT ![i] = "none"]
      /\ UNCHANGED <<winCtx, winIssued>>
  BY DEF WinSubmitStarts
<1> HIDE DEF i
<1>3. WinTypeOK /\ EventFindsItsCommand /\ EntriesHaveTheirCommands /\ EventsHaveEnded
  BY <1>1 DEF WinInv
<1>4. /\ commands'[i].status = "RUNNING" /\ commands'[i].job = commands[i].job
      /\ \A k \in WinSlots : k # i => commands'[k] = commands[k]
      /\ commands[i].job \in 1..winIssued
  BY <1>1, <1>2, <1>3 DEF WinTypeOK, EntriesHaveTheirCommands
<1>5. WinTypeOK'
  <2>1. op \in [slot : WinSlots, job : WinJobs]
    BY <1>1, <1>3, <1>4, OverlappedAssumption DEF WinTypeOK, WinJobs
  <2>2. commands' \in [WinSlots -> [status : {"READY", "SETUP", "RUNNING", "DONE"},
                               job : 0..WinCommands, result : (-WinCommands)..WinCommands]]
    BY <1>1, <1>2, <1>3 DEF WinTypeOK
  <2> HIDE DEF op
  <2> QED  BY <1>1, <1>2, <1>3, <2>1, <2>2 DEF WinTypeOK
<1>6. EventFindsItsCommand'
  <2>1. Waiting' = Waiting \ {i}
    BY <1>2, <1>4 DEF Waiting
  <2>2. submit'.count <= Cardinality(Waiting')
    BY <1>1, <1>2, <1>3, <2>1, CountFollows
  <2>3. submit'.count <= Cardinality({k \in WinSlots : commands'[k].status = "SETUP"})
    BY <2>2 DEF Waiting
  <2>4. \A e \in flying' : commands'[e.slot].status = "RUNNING" /\ commands'[e.slot].job = e.job
                           /\ e.slot \notin events'
    <3>1. ASSUME NEW e \in flying
          PROVE  commands'[e.slot].status = "RUNNING" /\ commands'[e.slot].job = e.job
                 /\ e.slot \notin events'
      <4>1. e.slot \in WinSlots /\ e.slot # i
        BY <1>1, <1>2, <1>3 DEF WinTypeOK, EventFindsItsCommand
      <4> QED  BY <1>1, <1>2, <1>3, <1>4, <4>1 DEF EventFindsItsCommand
    <3>2. op.slot = i /\ op.job = commands[i].job
      OBVIOUS
    <3> HIDE DEF op
    <3> QED  BY <1>2, <1>4, <3>1, <3>2
  <2>5. \A k \in events' : k \in WinSlots /\ k # i /\ overlapped'[k] = overlapped[k]
    BY <1>2, <1>3 DEF WinTypeOK
  <2>6. \A k \in WinSlots : commands'[k].status = "RUNNING" =>
          k \in events' \/ \E e \in flying' : e.slot = k
    <3>1. ASSUME NEW k \in WinSlots, commands'[k].status = "RUNNING", k # i
          PROVE  k \in events' \/ \E e \in flying' : e.slot = k
      <4>1. commands[k].status = "RUNNING"
        BY <1>4, <3>1
      <4> HIDE DEF op
      <4> QED  BY <1>1, <1>2, <1>3, <3>1, <4>1 DEF EventFindsItsCommand
    <3>2. op \in flying' /\ op.slot = i
      BY <1>2
    <3> QED  BY <3>1, <3>2
  <2>7. \A k \in events' : commands'[k].status = "RUNNING"
                           \/ (commands'[k].status = "DONE" /\ overlapped'[k] = "failed")
    BY <1>1, <1>2, <1>3, <1>4, <2>5 DEF EventFindsItsCommand, Reported
  <2> QED  BY <2>3, <2>4, <2>6, <2>7 DEF EventFindsItsCommand, Reported
<1>7. EntriesHaveTheirCommands'
  BY <1>1, <1>2, <1>3, <1>4 DEF EntriesHaveTheirCommands
<1>8. EventsHaveEnded' /\ UnsetIsEmpty'
  BY <1>1, <1>2, <1>3 DEF EventsHaveEnded, UnsetIsEmpty, WinTypeOK
<1> QED  BY <1>1, <1>5, <1>6, <1>7, <1>8 DEF WinInv

LEMMA FailsKeep ==
  ASSUME WinInv, WinSubmitFails
  PROVE  WinInv'
<1> DEFINE i == Submitted
<1>1. /\ winCtx = "open" /\ i \in WinSlots /\ submit.count > 0 /\ submit'.count = submit.count - 1
      /\ submit' \in [queue : [WinSlots -> WinSlots], count : 0..WinEntries, index : WinSlots]
      /\ owner' \in [pc : {"idle", "submit", "process", "await"}, at : 0..WinEntries]
      /\ OwnerInBounds'
  BY RoundKeeps DEF WinSubmitFails
<1>2. /\ commands[i].status = "SETUP" /\ Reset(commands, i)
      /\ UNCHANGED <<winCtx, flying, winIssued>>
  BY DEF WinSubmitFails
<1>3. WinTypeOK /\ EventFindsItsCommand
  BY <1>1 DEF WinInv
<1>4. submit'.count <= Cardinality(Waiting \ {i})
  BY <1>1, <1>2, <1>3, CountFollows
<1>5. \A e \in flying : e.slot # i
  BY <1>1, <1>2, <1>3 DEF EventFindsItsCommand
<1>6. commands \in [WinSlots -> [status : {"READY", "SETUP", "RUNNING", "DONE"},
                            job : 0..WinCommands, result : (-WinCommands)..WinCommands]]
  BY <1>3 DEF WinTypeOK
<1> QED  BY <1>1, <1>2, <1>4, <1>5, <1>6, ResetKeeps

LEMMA CompleteKeeps ==
  ASSUME WinInv, NEW e, WinComplete(e)
  PROVE  WinInv'
<1>1. /\ winCtx = "open" /\ e \in flying /\ flying' = flying \ {e}
      /\ events' = events \cup {e.slot}
      /\ UNCHANGED <<winCtx, commands, submit, winIssued, owner>>
  BY DEF WinComplete
<1>2. PICK how \in {"ok", "failed"} : overlapped' = [overlapped EXCEPT ![e.slot] = how]
  BY DEF WinComplete
<1>3. WinTypeOK /\ EventFindsItsCommand /\ EntriesHaveTheirCommands /\ EventsHaveEnded
      /\ OwnerInBounds
  BY <1>1 DEF WinInv
<1>4. e.slot \in WinSlots /\ commands[e.slot].status = "RUNNING"
  BY <1>1, <1>3 DEF WinTypeOK, EventFindsItsCommand
<1>5. \A k \in WinSlots : overlapped'[k] = IF k = e.slot THEN how ELSE overlapped[k]
  BY <1>2, <1>3 DEF WinTypeOK
<1>6. WinTypeOK'
  BY <1>1, <1>2, <1>3, <1>4 DEF WinTypeOK
<1>7. \A f \in flying' : f.slot # e.slot
  <2>1. \A f \in flying : f.slot = e.slot => f.job = e.job
    BY <1>1, <1>3 DEF EventFindsItsCommand
  <2>2. flying \subseteq [slot : WinSlots, job : WinJobs]
    BY <1>3 DEF WinTypeOK
  <2> QED  BY <1>1, <2>1, <2>2
<1>8. EventFindsItsCommand'
  <2>1. \A f \in flying' : commands'[f.slot].status = "RUNNING" /\ commands'[f.slot].job = f.job
                           /\ f.slot \notin events'
    BY <1>1, <1>3, <1>7 DEF EventFindsItsCommand
  <2>2. \A k \in events' : commands'[k].status = "RUNNING"
                           \/ (commands'[k].status = "DONE" /\ overlapped'[k] = "failed")
    BY <1>1, <1>3, <1>4, <1>5 DEF EventFindsItsCommand, Reported, WinTypeOK
  <2>3. \A k \in WinSlots : commands'[k].status = "RUNNING" =>
          k \in events' \/ \E f \in flying' : f.slot = k
    BY <1>1, <1>3 DEF EventFindsItsCommand
  <2>4. submit'.count <= Cardinality({k \in WinSlots : commands'[k].status = "SETUP"})
    BY <1>1, <1>3 DEF EventFindsItsCommand
  <2> QED  BY <2>1, <2>2, <2>3, <2>4 DEF EventFindsItsCommand, Reported
<1>9. EntriesHaveTheirCommands' /\ EventsHaveEnded' /\ UnsetIsEmpty' /\ OwnerInBounds'
  BY <1>1, <1>3, <1>4, <1>5
     DEF EntriesHaveTheirCommands, EventsHaveEnded, UnsetIsEmpty, OwnerInBounds, WinTypeOK
<1> QED  BY <1>6, <1>8, <1>9 DEF WinInv

\* What ended in entry i, before it is put back.
LEMMA EndedIs ==
  ASSUME WinTypeOK, NEW i \in WinSlots
  PROVE  /\ Ended(i) \in [WinSlots -> [status : {"READY", "SETUP", "RUNNING", "DONE"},
                                 job : 0..WinCommands, result : (-WinCommands)..WinCommands]]
         /\ Ended(i)[i].status = "DONE" /\ Ended(i)[i].job = commands[i].job
         /\ \A k \in WinSlots : k # i => Ended(i)[k] = commands[k]
<1>1. commands[i] \in [status : {"READY", "SETUP", "RUNNING", "DONE"},
                       job : 0..WinCommands, result : (-WinCommands)..WinCommands]
  BY DEF WinTypeOK
<1> DEFINE r == IF overlapped[i] = "ok" THEN commands[i].job ELSE -commands[i].job
<1>2. r \in (-WinCommands)..WinCommands
  <2>1. commands[i].job \in 0..WinCommands
    BY <1>1
  <2> QED  BY <2>1, OverlappedAssumption
<1> HIDE DEF r
<1>3. Ended(i) = [commands EXCEPT ![i].status = "DONE", ![i].result = r]
  BY DEF Ended, r
<1>4. [commands[i] EXCEPT !.status = "DONE", !.result = r]
        \in [status : {"READY", "SETUP", "RUNNING", "DONE"},
             job : 0..WinCommands, result : (-WinCommands)..WinCommands]
  BY <1>1, <1>2
<1>5. commands \in [WinSlots -> [status : {"READY", "SETUP", "RUNNING", "DONE"},
                            job : 0..WinCommands, result : (-WinCommands)..WinCommands]]
  BY DEF WinTypeOK
<1>6. Ended(i) = [commands EXCEPT ![i] = [commands[i] EXCEPT !.status = "DONE", !.result = r]]
  BY <1>1, <1>3, <1>5
<1>7. Ended(i)[i] = [commands[i] EXCEPT !.status = "DONE", !.result = r]
  BY <1>5, <1>6
<1>8. Ended(i) \in [WinSlots -> [status : {"READY", "SETUP", "RUNNING", "DONE"},
                            job : 0..WinCommands, result : (-WinCommands)..WinCommands]]
  BY <1>4, <1>5, <1>6
<1> QED  BY <1>1, <1>5, <1>6, <1>7, <1>8

\* One round over an event.
LEMMA RoundOverEventKeeps ==
  ASSUME WinInv, winCtx = "open", events # {}, Processed,
         UNCHANGED <<winCtx, submit, flying, winIssued, owner>>
  PROVE  WinInv'
<1> DEFINE i == Signalled
<1>1. WinTypeOK /\ EventFindsItsCommand /\ EntriesHaveTheirCommands /\ EventsHaveEnded
      /\ OwnerInBounds
  BY DEF WinInv
<1>2. i \in events /\ i \in WinSlots
  <2>1. events \in SUBSET WinSlots
    BY <1>1 DEF WinTypeOK
  <2> QED  BY <2>1, FirstIsOne DEF Signalled
<1>3. /\ commands' = Ended(i)
      /\ events' = IF overlapped[i] = "ok" THEN events \ {i} ELSE events
      /\ UNCHANGED overlapped
  BY DEF Processed
<1> HIDE DEF i
<1>4. /\ commands' \in [WinSlots -> [status : {"READY", "SETUP", "RUNNING", "DONE"},
                               job : 0..WinCommands, result : (-WinCommands)..WinCommands]]
      /\ commands'[i].status = "DONE" /\ commands'[i].job = commands[i].job
      /\ \A k \in WinSlots : k # i => commands'[k] = commands[k]
  BY <1>1, <1>2, <1>3, EndedIs
<1>5. /\ commands[i].status \in {"RUNNING", "DONE"}
      /\ overlapped[i] \in {"ok", "failed"}
      /\ \A e \in flying : e.slot # i /\ e.slot \in WinSlots
  BY <1>1, <1>2 DEF EventFindsItsCommand, Reported, EventsHaveEnded, WinTypeOK
<1>6. WinTypeOK'
  BY <1>1, <1>3, <1>4 DEF WinTypeOK
<1>7. EventFindsItsCommand'
  <2>1. Waiting' = Waiting
    BY <1>2, <1>4, <1>5 DEF Waiting
  <2>2. submit'.count <= Cardinality(Waiting')
    BY <1>1, <2>1 DEF EventFindsItsCommand, Waiting
  <2>3. submit'.count <= Cardinality({k \in WinSlots : commands'[k].status = "SETUP"})
    BY <2>2 DEF Waiting
  <2>4. \A e \in flying' : commands'[e.slot].status = "RUNNING" /\ commands'[e.slot].job = e.job
                           /\ e.slot \notin events'
    BY <1>1, <1>3, <1>4, <1>5 DEF EventFindsItsCommand
  <2>5. \A k \in events' : commands'[k].status = "RUNNING"
                           \/ (commands'[k].status = "DONE" /\ overlapped'[k] = "failed")
    BY <1>1, <1>2, <1>3, <1>4, <1>5 DEF EventFindsItsCommand, Reported, WinTypeOK
  <2>6. \A k \in WinSlots : commands'[k].status = "RUNNING" =>
          k \in events' \/ \E e \in flying' : e.slot = k
    BY <1>1, <1>2, <1>3, <1>4 DEF EventFindsItsCommand
  <2> QED  BY <2>3, <2>4, <2>5, <2>6 DEF EventFindsItsCommand, Reported
<1>8. EntriesHaveTheirCommands'
  BY <1>1, <1>2, <1>4, <1>5 DEF EntriesHaveTheirCommands, Ready
<1>9. EventsHaveEnded' /\ UnsetIsEmpty' /\ OwnerInBounds'
  BY <1>1, <1>3 DEF EventsHaveEnded, UnsetIsEmpty, OwnerInBounds
<1> QED  BY <1>6, <1>7, <1>8, <1>9 DEF WinInv

LEMMA AwaitDoneKeeps ==
  ASSUME WinInv, NEW i \in WinSlots, WinAwaitDone(i)
  PROVE  WinInv'
<1>1. /\ winCtx = "open" /\ owner = Resting /\ commands[i].status = "DONE" /\ Reset(commands, i)
      /\ UNCHANGED <<winCtx, submit, flying, winIssued, owner>>
  BY DEF WinAwaitDone, WinIdle
<1>2. WinTypeOK /\ EventFindsItsCommand /\ OwnerInBounds
  BY <1>1 DEF WinInv
<1>3. \A e \in flying : e.slot # i
  BY <1>1, <1>2 DEF EventFindsItsCommand
<1>4. Waiting \ {i} = Waiting /\ submit'.count <= Cardinality(Waiting \ {i})
  <2>1. Waiting \ {i} = Waiting
    BY <1>1 DEF Waiting
  <2>2. submit'.count <= Cardinality(Waiting)
    BY <1>1, <1>2 DEF EventFindsItsCommand, Waiting
  <2> QED  BY <2>1, <2>2
<1>5. OwnerInBounds'
  BY <1>1, <1>2 DEF OwnerInBounds
<1>6. /\ submit' \in [queue : [WinSlots -> WinSlots], count : 0..WinEntries, index : WinSlots]
      /\ owner' \in [pc : {"idle", "submit", "process", "await"}, at : 0..WinEntries]
      /\ commands \in [WinSlots -> [status : {"READY", "SETUP", "RUNNING", "DONE"},
                              job : 0..WinCommands, result : (-WinCommands)..WinCommands]]
  BY <1>1, <1>2 DEF WinTypeOK
<1> QED  BY <1>1, <1>3, <1>4, <1>5, <1>6, ResetKeeps

LEMMA AwaitOneKeeps ==
  ASSUME WinInv, WinAwaitOne
  PROVE  WinInv'
<1>1. /\ owner.pc = "await" /\ events # {}
      /\ UNCHANGED <<winCtx, submit, flying, winIssued>>
  BY DEF WinAwaitOne
<1>2. winCtx = "open"
  BY <1>1 DEF WinInv, OwnerInBounds, Resting
<1>3. WinTypeOK /\ EventFindsItsCommand /\ OwnerInBounds
  BY <1>2 DEF WinInv
<1>4. CASE Signalled # owner.at
  BY <1>1, <1>2, <1>4, RoundOverEventKeeps DEF WinAwaitOne
<1>5. CASE Signalled = owner.at
  <2> DEFINE i == owner.at
  <2>1. i \in events /\ i \in WinSlots
    <3>1. events \in SUBSET WinSlots
      BY <1>3 DEF WinTypeOK
    <3> QED  BY <1>1, <1>5, <3>1, FirstIsOne DEF Signalled
  <2>2. Reset(Ended(i), i) /\ owner' = Resting
    BY <1>5 DEF WinAwaitOne
  <2> HIDE DEF i
  <2>3. /\ Ended(i) \in [WinSlots -> [status : {"READY", "SETUP", "RUNNING", "DONE"},
                                job : 0..WinCommands, result : (-WinCommands)..WinCommands]]
        /\ \A k \in WinSlots : k # i => Ended(i)[k] = commands[k]
    BY <1>3, <2>1, EndedIs
  <2>4. \A e \in flying : e.slot # i
    BY <1>2, <1>3, <2>1 DEF EventFindsItsCommand
  <2>5. submit'.count <= Cardinality(Waiting \ {i})
    <3>1. Waiting \ {i} = Waiting
      BY <1>2, <1>3, <2>1 DEF EventFindsItsCommand, Reported, Waiting
    <3>2. submit'.count <= Cardinality(Waiting)
      BY <1>1, <1>2, <1>3 DEF EventFindsItsCommand, Waiting
    <3> QED  BY <3>1, <3>2
  <2>6. /\ owner' \in [pc : {"idle", "submit", "process", "await"}, at : 0..WinEntries]
        /\ submit' \in [queue : [WinSlots -> WinSlots], count : 0..WinEntries, index : WinSlots]
        /\ OwnerInBounds'
    BY <1>1, <1>3, <2>2, OverlappedAssumption DEF Resting, WinTypeOK, OwnerInBounds
  <2> QED  BY <1>1, <1>2, <2>1, <2>2, <2>3, <2>4, <2>5, <2>6, ResetKeeps
<1> QED  BY <1>4, <1>5

\* Every step keeps the invariant.
LEMMA WinNextKeeps == WinInv /\ [WinNext]_winVars => WinInv'
<1> SUFFICES ASSUME WinInv, [WinNext]_winVars
             PROVE  WinInv'
  OBVIOUS
<1> USE OverlappedAssumption
<1>1. CASE WinCreate
  BY <1>1, CreateKeeps
<1>2. CASE WinDestroy
  BY <1>2, DestroyKeeps
<1>3. CASE WinCommand
  BY <1>3, CommandKeeps
<1>4. CASE WinSubmitBegin
  <2>1. OwnerInBounds' /\ owner' \in [pc : {"idle", "submit", "process", "await"}, at : 0..WinEntries]
    BY <1>4 DEF WinSubmitBegin, WinIdle, WinInv, WinTypeOK, OwnerInBounds
  <2> QED  BY <1>4, <2>1, OwnerMoves DEF WinSubmitBegin
<1>5. CASE WinProcessBegin
  <2>1. OwnerInBounds' /\ owner' \in [pc : {"idle", "submit", "process", "await"}, at : 0..WinEntries]
    BY <1>5 DEF WinProcessBegin, WinIdle, OwnerInBounds
  <2> QED  BY <1>5, <2>1, OwnerMoves DEF WinProcessBegin
<1>6. ASSUME NEW i \in WinSlots, WinAwaitDone(i)
      PROVE  WinInv'
  BY <1>6, AwaitDoneKeeps
<1>7. ASSUME NEW i \in WinSlots, WinAwaitBegin(i)
      PROVE  WinInv'
  <2>1. i \in 0..WinEntries
    BY DEF WinSlots
  <2>2. OwnerInBounds' /\ owner' \in [pc : {"idle", "submit", "process", "await"}, at : 0..WinEntries]
    BY <1>7, <2>1 DEF WinAwaitBegin, WinIdle, OwnerInBounds
  <2> QED  BY <1>7, <2>2, OwnerMoves DEF WinAwaitBegin
<1>8. CASE WinSubmitSkips
  BY <1>8, SkipsKeep
<1>9. CASE WinSubmitStarts
  BY <1>9, StartsKeep
<1>10. CASE WinSubmitFails
  BY <1>10, FailsKeep
<1>11. CASE WinProcessOne
  <2>1. winCtx = "open"
    BY <1>11 DEF WinProcessOne, WinInv, OwnerInBounds, Resting
  <2> QED  BY <1>11, <2>1, RoundOverEventKeeps DEF WinProcessOne
<1>12. CASE WinProcessEnds
  <2>1. OwnerInBounds' /\ owner' \in [pc : {"idle", "submit", "process", "await"}, at : 0..WinEntries]
    BY <1>12 DEF WinProcessEnds, Resting, OwnerInBounds
  <2> QED  BY <1>12, <2>1, OwnerMoves DEF WinProcessEnds
<1>13. CASE WinAwaitOne
  BY <1>13, AwaitOneKeeps
<1>14. CASE WinAwaitFails
  <2>1. OwnerInBounds' /\ owner' \in [pc : {"idle", "submit", "process", "await"}, at : 0..WinEntries]
    BY <1>14 DEF WinAwaitFails, Resting, OwnerInBounds
  <2> QED  BY <1>14, <2>1, OwnerMoves DEF WinAwaitFails
<1>15. CASE WinCompleteAny
  BY <1>15, CompleteKeeps DEF WinCompleteAny
<1>16. CASE UNCHANGED winVars
  <2>1. OwnerInBounds' /\ owner' \in [pc : {"idle", "submit", "process", "await"}, at : 0..WinEntries]
    BY <1>16 DEF winVars, OwnerInBounds, WinInv, WinTypeOK
  <2> QED  BY <1>16, <2>1, OwnerMoves DEF winVars
<1> QED
  BY <1>1, <1>2, <1>3, <1>4, <1>5, <1>6, <1>7, <1>8, <1>9, <1>10, <1>11, <1>12, <1>13, <1>14, <1>15,
     <1>16 DEF WinNext, WinThread

-----------------------------------------------------------------------------

\* The fields of the Windows context keep their types; above all the queue never
\* holds more than there are entries, so that submit_queue is not written past its end.
THEOREM WinTypes == WinSpec => []WinTypeOK
<1>1. WinInv => WinTypeOK
  BY DEF WinInv
<1> QED  BY <1>1, WinInitInv, WinNextKeeps, PTL DEF WinSpec

\* No event, operation or refusal reaches a command other than its own
\* (async_context.cpp: _submit_cmd, async_process_open_commands, async_await_task).
THEOREM EventsFindCommands == WinSpec => []EventFindsItsCommand
<1>1. WinInv => EventFindsItsCommand
  BY DEF WinInv, EventFindsItsCommand
<1> QED  BY <1>1, WinInitInv, WinNextKeeps, PTL DEF WinSpec

-----------------------------------------------------------------------------

\* The stages of the commands, from the entries they are in.
SlotStage(i) ==
  IF commands[i].status = "SETUP" THEN "queued"
  ELSE IF commands[i].status = "RUNNING" /\ i \notin events THEN "running" ELSE "done"

StagesAreKnown ==
  \A j \in WinJobs :
    /\ winCtx = "closed" => WinStage(j) = "closed"
    /\ winCtx # "closed" /\ j > winIssued => WinStage(j) = "none"
    /\ winCtx = "open" /\ j <= winIssued =>
         /\ \A i \in WinSlots : commands[i].job = j => WinStage(j) = SlotStage(i)
         /\ (\A i \in WinSlots : commands[i].job # j) => WinStage(j) = "collected"

LEMMA StagesFromEntries == WinInv => StagesAreKnown
<1> SUFFICES ASSUME WinInv, NEW j \in WinJobs, winCtx = "open", j <= winIssued
             PROVE  /\ \A i \in WinSlots : commands[i].job = j => WinStage(j) = SlotStage(i)
                    /\ (\A i \in WinSlots : commands[i].job # j) => WinStage(j) = "collected"
  BY DEF StagesAreKnown, WinStage
<1>1. WinTypeOK /\ EventFindsItsCommand /\ EntriesHaveTheirCommands /\ EventsHaveEnded
  BY DEF WinInv
<1>2. j # 0 /\ ~(j > winIssued)
  BY <1>1 DEF WinJobs, WinTypeOK
<1>3. ASSUME NEW i \in WinSlots, commands[i].job = j
      PROVE  WinStage(j) = SlotStage(i)
  <2>1. \A k \in WinSlots : commands[k].job = j => k = i
    BY <1>1, <1>2, <1>3 DEF EntriesHaveTheirCommands
  <2>2. commands[i].status # "READY"
    BY <1>1, <1>2, <1>3 DEF EntriesHaveTheirCommands, Ready
  <2>3. (\E e \in flying : e.job = j) <=> commands[i].status = "RUNNING" /\ i \notin events
    <3>1. ASSUME NEW e \in flying, e.job = j
          PROVE  commands[i].status = "RUNNING" /\ i \notin events
      <4>1. e.slot \in WinSlots /\ commands[e.slot].job = j
        BY <1>1, <3>1 DEF WinTypeOK, EventFindsItsCommand
      <4>2. e.slot = i
        BY <2>1, <4>1
      <4> QED  BY <1>1, <4>2 DEF EventFindsItsCommand
    <3>2. ASSUME commands[i].status = "RUNNING", i \notin events
          PROVE  \E e \in flying : e.job = j
      <4>1. PICK e \in flying : e.slot = i
        BY <1>1, <3>2 DEF EventFindsItsCommand
      <4> QED  BY <1>1, <1>3, <4>1 DEF EventFindsItsCommand
    <3> QED  BY <3>1, <3>2
  <2>4. (\E k \in WinSlots : commands[k].job = j /\ commands[k].status = "SETUP")
          <=> commands[i].status = "SETUP"
    BY <1>3, <2>1
  <2> QED  BY <1>2, <1>3, <2>3, <2>4 DEF WinStage, SlotStage
<1>4. ASSUME \A i \in WinSlots : commands[i].job # j
      PROVE  WinStage(j) = "collected"
  <2>1. ~ \E e \in flying : e.job = j
    BY <1>1, <1>4 DEF WinTypeOK, EventFindsItsCommand
  <2> QED  BY <1>2, <1>4, <2>1 DEF WinStage
<1> QED  BY <1>3, <1>4

\* A step between two open contexts in which command n alone may change its entry.
LEMMA OneMoves ==
  ASSUME StagesAreKnown, StagesAreKnown', WinInv, WinInv', winCtx = "open", UNCHANGED <<winCtx, winIssued>>,
         NEW i \in WinSlots, \A k \in WinSlots : k # i => commands'[k] = commands[k],
         \A k \in WinSlots : k # i => (k \in events' <=> k \in events),
         NEW n \in WinJobs, n = commands[i].job, commands'[i].job \in {0, n}
  PROVE  /\ WinStage(n) = SlotStage(i)
         /\ WinStage(n)' = IF commands'[i].job = 0 THEN "collected" ELSE SlotStage(i)'
         /\ \A j \in WinJobs : j # n => WinStage(j)' = WinStage(j)
<1>1. WinTypeOK /\ EntriesHaveTheirCommands /\ winCtx' = "open" /\ EntriesHaveTheirCommands'
      /\ WinTypeOK'
  BY DEF WinInv
<1>2. n \in WinJobs /\ n <= winIssued /\ n # 0
  BY <1>1, OverlappedAssumption DEF WinTypeOK, WinJobs, EntriesHaveTheirCommands, Ready
<1>3. WinStage(n) = SlotStage(i)
  BY <1>2 DEF StagesAreKnown
<1>4. WinStage(n)' = IF commands'[i].job = 0 THEN "collected" ELSE SlotStage(i)'
  <2>1. CASE commands'[i].job = 0
    <3>1. \A k \in WinSlots : commands'[k].job # n
      BY <1>1, <1>2, <2>1 DEF EntriesHaveTheirCommands
    <3> QED  BY <1>1, <1>2, <2>1, <3>1 DEF StagesAreKnown
  <2>2. CASE commands'[i].job = n
    BY <1>1, <1>2, <2>2 DEF StagesAreKnown
  <2> QED  BY <2>1, <2>2
<1>5. ASSUME NEW j \in WinJobs, j # n
      PROVE  WinStage(j)' = WinStage(j)
  <2>1. CASE j > winIssued
    BY <1>1, <2>1 DEF StagesAreKnown
  <2>2. CASE j <= winIssued
    <3>1. CASE \E k \in WinSlots : commands[k].job = j
      <4>1. PICK k \in WinSlots : commands[k].job = j
        BY <3>1
      <4>2. k # i /\ commands'[k] = commands[k] /\ SlotStage(k)' = SlotStage(k)
        BY <1>5, <4>1 DEF SlotStage
      <4>3. WinStage(j) = SlotStage(k)
        BY <2>2, <4>1 DEF StagesAreKnown
      <4>4. WinStage(j)' = SlotStage(k)'
        BY <1>1, <2>2, <4>1, <4>2 DEF StagesAreKnown
      <4> QED  BY <4>2, <4>3, <4>4
    <3>2. CASE \A k \in WinSlots : commands[k].job # j
      <4>1. j # 0
        BY DEF WinJobs
      <4>2. \A k \in WinSlots : commands'[k].job # j
        BY <1>5, <3>2, <4>1
      <4> QED  BY <1>1, <2>2, <3>2, <4>2 DEF StagesAreKnown
    <3> QED  BY <3>1, <3>2
  <2> QED  BY <1>1, <2>1, <2>2 DEF WinTypeOK, WinJobs
<1> QED  BY <1>2, <1>3, <1>4, <1>5

\* Such a step is one of the abstract command.
LEMMA OneIsMoved ==
  ASSUME NEW n \in WinJobs, NEW from, NEW to, WinStage(n) = from, WinStage(n)' = to,
         \A j \in WinJobs : j # n => WinStage(j)' = WinStage(j)
  PROVE  WinOnce!Move({n}, from, to)
BY DEF WinOnce!Move

\* Handing out an entry issues the next command.
LEMMA CommandIssues ==
  ASSUME WinInv, WinInv', StagesAreKnown, StagesAreKnown', WinCommand
  PROVE  \E j \in WinJobs : WinOnce!Issue(j)
<1> DEFINE first == WinSlotAt(Min(WinFree))
<1>1. /\ winCtx = "open" /\ winIssued < WinCommands
      /\ commands' = [commands EXCEPT ![first] =
                        [status |-> "SETUP", job |-> winIssued + 1, result |-> 0]]
      /\ winIssued' = winIssued + 1
      /\ UNCHANGED <<winCtx, events, overlapped, flying, owner>>
  BY DEF WinCommand, WinIdle
<1>2. WinTypeOK /\ WinTypeOK' /\ EntriesHaveTheirCommands /\ EntriesHaveTheirCommands' /\ winCtx' = "open"
  BY <1>1 DEF WinInv
<1>3. PICK i \in WinSlots : i = first /\ commands[i].status = "READY" /\ commands[i].job = 0
  <2>1. WinFree \in SUBSET WinSlots /\ WinFree # {}
    BY DEF WinFree, WinCommand
  <2>2. Min(WinFree) \in WinSlots /\ commands[first].status = "READY"
    BY <2>1, FirstIsOne DEF WinFree
  <2>3. Min(WinFree) \in Nat
    BY <2>2, OverlappedAssumption DEF WinSlots
  <2>4. first \in WinSlots
    BY <1>2, <2>3, SlotAtIsSlot
  <2> QED  BY <1>2, <2>2, <2>4 DEF EntriesHaveTheirCommands, Ready
<1> HIDE DEF first
<1>4. PICK n \in WinJobs : n = winIssued + 1
  BY <1>1, <1>2, OverlappedAssumption DEF WinTypeOK, WinJobs
<1>5. /\ commands'[i].status = "SETUP" /\ commands'[i].job = n
      /\ \A k \in WinSlots : k # i => commands'[k] = commands[k]
      /\ winIssued \in Nat /\ n = winIssued' /\ n > winIssued
  BY <1>1, <1>2, <1>3, <1>4, OverlappedAssumption DEF WinTypeOK
<1>6. WinStage(n) = "none"
  BY <1>1, <1>5 DEF StagesAreKnown
<1>7. WinStage(n)' = "queued"
  <2>1. SlotStage(i)' = "queued"
    BY <1>5 DEF SlotStage
  <2>2. winCtx' = "open" /\ n <= winIssued'
    BY <1>2, <1>5 DEF WinJobs
  <2>3. WinStage(n)' = SlotStage(i)'
    BY <1>3, <1>5, <2>2 DEF StagesAreKnown
  <2> QED  BY <2>1, <2>3
<1>8. ASSUME NEW j \in WinJobs, j # n
      PROVE  WinStage(j)' = WinStage(j)
  <2>1. CASE j > winIssued
    <3>1. j > winIssued'
      BY <1>4, <1>5, <1>8, <2>1 DEF WinJobs
    <3> QED  BY <1>1, <1>2, <2>1, <3>1 DEF StagesAreKnown
  <2>2. CASE j <= winIssued
    <3>1. j <= winIssued' /\ j # 0
      BY <1>1, <1>5, <2>2 DEF WinJobs
    <3>2. CASE \E k \in WinSlots : commands[k].job = j
      <4>1. PICK k \in WinSlots : commands[k].job = j
        BY <3>2
      <4>2. k # i /\ commands'[k] = commands[k] /\ SlotStage(k)' = SlotStage(k)
        BY <1>1, <1>3, <1>5, <3>1, <4>1 DEF SlotStage
      <4>3. WinStage(j) = SlotStage(k)
        BY <1>1, <2>2, <4>1 DEF StagesAreKnown
      <4>4. WinStage(j)' = SlotStage(k)'
        BY <1>2, <3>1, <4>1, <4>2 DEF StagesAreKnown
      <4> QED  BY <4>2, <4>3, <4>4
    <3>3. CASE \A k \in WinSlots : commands[k].job # j
      <4>1. \A k \in WinSlots : commands'[k].job # j
        BY <1>5, <1>8, <3>3
      <4> QED  BY <1>1, <1>2, <2>2, <3>1, <3>3, <4>1 DEF StagesAreKnown
    <3> QED  BY <3>2, <3>3
  <2> QED  BY <1>5, <2>1, <2>2 DEF WinJobs
<1> QED  BY <1>6, <1>7, <1>8, OneIsMoved DEF WinOnce!Issue

\* A submit starts the commands one after the other, or gives one up.
LEMMA SubmitStartsOrRefuses ==
  ASSUME WinInv, WinInv', StagesAreKnown, StagesAreKnown', WinSubmitStarts \/ WinSubmitFails
  PROVE  (\E S \in SUBSET WinJobs : WinOnce!Start(S)) \/ (\E j \in WinJobs : WinOnce!Refuse(j))
<1>1. PICK i \in WinSlots : /\ winCtx = "open" /\ i = Submitted /\ commands[i].status = "SETUP"
                           /\ UNCHANGED <<winCtx, winIssued>>
  BY RoundKeeps DEF WinSubmitStarts, WinSubmitFails
<1>2. WinTypeOK /\ EntriesHaveTheirCommands
  BY <1>1 DEF WinInv
<1>3. PICK n \in WinJobs : n = commands[i].job
  BY <1>1, <1>2, OverlappedAssumption DEF EntriesHaveTheirCommands, WinTypeOK, WinJobs
<1>4. SlotStage(i) = "queued"
  BY <1>1 DEF SlotStage
<1>5. CASE WinSubmitStarts
  <2>1. /\ commands' = [commands EXCEPT ![i].status = "RUNNING"]
        /\ events' = events \ {i}
    BY <1>1, <1>5 DEF WinSubmitStarts
  <2>2. /\ commands'[i].status = "RUNNING" /\ commands'[i].job = n
        /\ \A k \in WinSlots : k # i => commands'[k] = commands[k]
        /\ \A k \in WinSlots : k # i => (k \in events' <=> k \in events)
        /\ n # 0 /\ i \notin events'
    BY <1>1, <1>2, <1>3, <2>1 DEF WinTypeOK, WinJobs
  <2>3. /\ WinStage(n) = SlotStage(i) /\ WinStage(n)' = SlotStage(i)'
        /\ \A j \in WinJobs : j # n => WinStage(j)' = WinStage(j)
    BY <1>1, <1>3, <2>2, OneMoves
  <2>4. SlotStage(i)' = "running"
    BY <2>2 DEF SlotStage
  <2>5. WinOnce!Start({n})
    BY <1>4, <2>3, <2>4, OneIsMoved DEF WinOnce!Start
  <2> QED  BY <2>5
<1>6. CASE WinSubmitFails
  <2>1. StartMayFail /\ Reset(commands, i)
    BY <1>1, <1>6 DEF WinSubmitFails
  <2>2. /\ commands'[i].job = 0
        /\ \A k \in WinSlots : k # i => commands'[k] = commands[k]
        /\ \A k \in WinSlots : k # i => (k \in events' <=> k \in events)
    BY <1>1, <1>2, <2>1 DEF WinTypeOK, Reset, Ready
  <2>3. /\ WinStage(n) = SlotStage(i) /\ WinStage(n)' = "collected"
        /\ \A j \in WinJobs : j # n => WinStage(j)' = WinStage(j)
    BY <1>1, <1>3, <2>2, OneMoves
  <2>4. WinOnce!Refuse(n)
    BY <1>4, <2>1, <2>3, OneIsMoved DEF WinOnce!Refuse
  <2> QED  BY <2>4
<1> QED  BY <1>5, <1>6

\* An operation that ends finishes its command.
LEMMA CompleteFinishes ==
  ASSUME WinInv, WinInv', StagesAreKnown, StagesAreKnown', NEW e, WinComplete(e)
  PROVE  \E j \in WinJobs : WinOnce!Finish(j)
<1>1. /\ winCtx = "open" /\ e \in flying /\ events' = events \cup {e.slot}
      /\ UNCHANGED <<winCtx, commands, winIssued>>
  BY DEF WinComplete
<1>2. WinTypeOK /\ EventFindsItsCommand
  BY <1>1 DEF WinInv
<1>3. PICK i \in WinSlots : i = e.slot
  BY <1>1, <1>2 DEF WinTypeOK
<1>4. PICK n \in WinJobs : n = e.job
  BY <1>1, <1>2 DEF WinTypeOK
<1>5. /\ commands[i].status = "RUNNING" /\ n = commands[i].job /\ i \notin events /\ i \in events'
      /\ commands'[i].status = "RUNNING" /\ n = commands'[i].job /\ n # 0
  BY <1>1, <1>2, <1>3, <1>4 DEF EventFindsItsCommand, WinJobs
<1>6. SlotStage(i) = "running" /\ SlotStage(i)' = "done"
  BY <1>5 DEF SlotStage
<1>7. /\ WinStage(n) = SlotStage(i) /\ WinStage(n)' = SlotStage(i)'
      /\ \A j \in WinJobs : j # n => WinStage(j)' = WinStage(j)
  BY <1>1, <1>3, <1>5, OneMoves
<1> QED  BY <1>6, <1>7, OneIsMoved DEF WinOnce!Finish

\* Taking a command that has ended out of its entry hands its result over.
LEMMA ResetCollects ==
  ASSUME WinInv, WinInv', StagesAreKnown, StagesAreKnown', winCtx = "open",
         UNCHANGED <<winCtx, winIssued>>,
         NEW i \in WinSlots, commands[i].status = "DONE" \/ i \in events,
         NEW cs, cs \in [WinSlots -> [status : {"READY", "SETUP", "RUNNING", "DONE"},
                                job : 0..WinCommands, result : (-WinCommands)..WinCommands]],
         \A k \in WinSlots : k # i => cs[k] = commands[k], Reset(cs, i)
  PROVE  \E j \in WinJobs : WinOnce!Collect(j)
<1>1. WinTypeOK /\ EventFindsItsCommand /\ EntriesHaveTheirCommands
  BY DEF WinInv
<1>2. commands[i].status \in {"RUNNING", "DONE"}
  BY <1>1 DEF EventFindsItsCommand, Reported
<1>3. PICK n \in WinJobs : n = commands[i].job
  BY <1>1, <1>2, OverlappedAssumption DEF EntriesHaveTheirCommands, WinTypeOK, WinJobs
<1>4. SlotStage(i) = "done"
  BY <1>2 DEF SlotStage
<1>5. /\ commands'[i].job = 0
      /\ \A k \in WinSlots : k # i => commands'[k] = commands[k]
      /\ \A k \in WinSlots : k # i => (k \in events' <=> k \in events)
  BY DEF Reset, Ready
<1>6. /\ WinStage(n) = SlotStage(i) /\ WinStage(n)' = "collected"
      /\ \A j \in WinJobs : j # n => WinStage(j)' = WinStage(j)
  BY <1>3, <1>5, OneMoves
<1> QED  BY <1>4, <1>6, OneIsMoved DEF WinOnce!Collect

\* Looking at an event changes no stage: the command had ended before.
LEMMA LookingMovesNone ==
  ASSUME WinInv, WinInv', StagesAreKnown, StagesAreKnown', winCtx = "open", events # {}, Processed,
         UNCHANGED <<winCtx, winIssued>>
  PROVE  \A j \in WinJobs : WinStage(j)' = WinStage(j)
<1>1. WinTypeOK /\ EventFindsItsCommand /\ EntriesHaveTheirCommands
  BY DEF WinInv
<1>2. PICK i \in WinSlots : i = Signalled /\ i \in events
  <2>1. events \in SUBSET WinSlots
    BY <1>1 DEF WinTypeOK
  <2> QED  BY <2>1, FirstIsOne DEF Signalled
<1>3. commands' = Ended(i) /\ events' \in {events, events \ {i}}
  BY <1>2 DEF Processed
<1>4. /\ commands'[i].status = "DONE" /\ commands'[i].job = commands[i].job
      /\ \A k \in WinSlots : k # i => commands'[k] = commands[k]
  BY <1>1, <1>3, EndedIs
<1>5. commands[i].status \in {"RUNNING", "DONE"}
  BY <1>1, <1>2 DEF EventFindsItsCommand, Reported
<1>6. PICK n \in WinJobs : n = commands[i].job
  BY <1>1, <1>5, OverlappedAssumption DEF EntriesHaveTheirCommands, WinTypeOK, WinJobs
<1>7. SlotStage(i) = "done" /\ SlotStage(i)' = "done" /\ n # 0
  BY <1>2, <1>4, <1>5 DEF SlotStage, WinJobs
<1>8. /\ WinStage(n) = SlotStage(i) /\ WinStage(n)' = SlotStage(i)'
      /\ \A j \in WinJobs : j # n => WinStage(j)' = WinStage(j)
  BY <1>3, <1>4, <1>6, <1>7, OneMoves
<1> QED  BY <1>7, <1>8

\* Every step is a step of the abstract commands, or none.
LEMMA WinNextRefines ==
  ASSUME WinInv, WinInv', StagesAreKnown, StagesAreKnown', [WinNext]_winVars
  PROVE  WinOnce!Next \/ UNCHANGED [j \in WinJobs |-> WinStage(j)]
<1>1. ASSUME UNCHANGED <<winCtx, commands, events, flying, winIssued>>
      PROVE  UNCHANGED [j \in WinJobs |-> WinStage(j)]
  BY <1>1 DEF WinStage
<1>2. CASE WinCreate
  <2>1. \A j \in WinJobs : WinStage(j)' = WinStage(j)
    BY <1>2 DEF WinCreate, WinStage
  <2> QED  BY <2>1
<1>3. CASE WinDestroy
  <2>1. \A j \in WinJobs : WinStage(j)' = "closed"
    BY <1>3 DEF WinDestroy, WinStage
  <2>2. WinOnce!Close
    BY <2>1 DEF WinOnce!Close
  <2> QED  BY <2>2 DEF WinOnce!Next
<1>4. CASE WinCommand
  BY <1>4, CommandIssues DEF WinOnce!Next
<1>5. CASE WinSubmitStarts \/ WinSubmitFails
  BY <1>5, SubmitStartsOrRefuses DEF WinOnce!Next
<1>6. CASE WinCompleteAny
  BY <1>6, CompleteFinishes DEF WinCompleteAny, WinOnce!Next
<1>7. ASSUME NEW i \in WinSlots, WinAwaitDone(i)
      PROVE  WinOnce!Next
  <2>1. /\ winCtx = "open" /\ commands[i].status = "DONE" /\ Reset(commands, i)
        /\ UNCHANGED <<winCtx, winIssued>>
    BY <1>7 DEF WinAwaitDone, WinIdle
  <2>2. commands \in [WinSlots -> [status : {"READY", "SETUP", "RUNNING", "DONE"},
                             job : 0..WinCommands, result : (-WinCommands)..WinCommands]]
    BY DEF WinInv, WinTypeOK
  <2> QED  BY <2>1, <2>2, ResetCollects DEF WinOnce!Next
<1>8. CASE WinAwaitOne
  <2>1. owner.pc = "await" /\ events # {} /\ UNCHANGED <<winCtx, winIssued>>
    BY <1>8 DEF WinAwaitOne
  <2>2. winCtx = "open" /\ WinTypeOK
    BY <2>1 DEF WinInv, OwnerInBounds, Resting
  <2>3. CASE Signalled # owner.at
    BY <1>8, <2>1, <2>2, <2>3, LookingMovesNone DEF WinAwaitOne
  <2>4. CASE Signalled = owner.at
    <3>1. PICK i \in WinSlots : i = owner.at /\ i \in events
      <4>1. events \in SUBSET WinSlots
        BY <2>2 DEF WinTypeOK
      <4> QED  BY <2>1, <2>4, <4>1, FirstIsOne DEF Signalled
    <3>2. Reset(Ended(i), i)
      BY <1>8, <2>4, <3>1 DEF WinAwaitOne
    <3>3. /\ Ended(i) \in [WinSlots -> [status : {"READY", "SETUP", "RUNNING", "DONE"},
                                  job : 0..WinCommands, result : (-WinCommands)..WinCommands]]
          /\ \A k \in WinSlots : k # i => Ended(i)[k] = commands[k]
      BY <2>2, EndedIs
    <3> QED  BY <2>1, <2>2, <3>1, <3>2, <3>3, ResetCollects DEF WinOnce!Next
  <2> QED  BY <2>3, <2>4
<1>9. CASE WinProcessOne
  <2>1. events # {} /\ Processed /\ UNCHANGED <<winCtx, winIssued>> /\ winCtx = "open"
    BY <1>9 DEF WinProcessOne, WinInv, OwnerInBounds, Resting
  <2> QED  BY <2>1, LookingMovesNone
<1>10. CASE WinSubmitBegin \/ WinProcessBegin \/ WinSubmitSkips \/ WinProcessEnds \/ WinAwaitFails
  BY <1>1, <1>10 DEF WinSubmitBegin, WinProcessBegin, WinSubmitSkips, WinProcessEnds, WinAwaitFails
<1>11. ASSUME NEW i \in WinSlots, WinAwaitBegin(i)
       PROVE  UNCHANGED [j \in WinJobs |-> WinStage(j)]
  BY <1>1, <1>11 DEF WinAwaitBegin
<1>12. CASE UNCHANGED winVars
  BY <1>1, <1>12 DEF winVars
<1> QED
  BY <1>2, <1>3, <1>4, <1>5, <1>6, <1>7, <1>8, <1>9, <1>10, <1>11, <1>12 DEF WinNext, WinThread

LEMMA WinInitRefines == WinInit => WinOnce!Init
<1> SUFFICES ASSUME WinInit PROVE WinOnce!Init
  OBVIOUS
<1>1. \A j \in WinJobs : WinStage(j) = "none"
  BY DEF WinInit, WinStage, WinJobs
<1> QED  BY <1>1 DEF WinOnce!Init

\* On Windows a command is carried out at most once and its result handed over once:
\* the context implements AsyncCommands, for every number of entries and commands.
THEOREM WindowsImplementsCommands == WinSpec => WinCommandOnce
<1>1. WinInv => StagesAreKnown
  BY StagesFromEntries
<1>2. WinInv /\ WinInv' /\ StagesAreKnown /\ StagesAreKnown' /\ [WinNext]_winVars
        => WinOnce!Next \/ UNCHANGED [j \in WinJobs |-> WinStage(j)]
  BY WinNextRefines
<1> QED
  BY <1>1, <1>2, WinInitInv, WinInitRefines, WinNextKeeps, PTL DEF WinSpec, WinCommandOnce, WinOnce!Spec

(***************************************************************************)
(* Both contexts                                                           *)
(***************************************************************************)

\* A behaviour on one of the systems is one of both contexts: the other rests.
LEMMA BothContexts == AsyncSpec => Spec /\ WinSpec
<1>1. AsyncInit => Init /\ WinInit
  BY DEF AsyncInit
<1>2. [AsyncNext]_asyncVars => [Next]_vars /\ [WinNext]_winVars
  BY DEF AsyncNext, asyncVars
<1> QED  BY <1>1, <1>2, PTL DEF AsyncSpec, Spec, WinSpec

\* The fields of both contexts keep their types (io_uring_context.hpp, async_context.hpp).
THEOREM ContextsKeepTypes == InOrder => (AsyncSpec => []ContextsTypeOK)
<1> SUFFICES ASSUME InOrder PROVE AsyncSpec => []ContextsTypeOK
  OBVIOUS
<1>1. Spec => []TypeOK
  BY RingTypes
<1> QED  BY <1>1, WinTypes, BothContexts, PTL DEF ContextsTypeOK

\* No completion, event or result reaches a command other than its own.
THEOREM ResultsFindCommands == InOrder => (AsyncSpec => []ResultsFindTheirCommands)
<1> SUFFICES ASSUME InOrder PROVE AsyncSpec => []ResultsFindTheirCommands
  OBVIOUS
<1>1. Spec => []CompletionFindsItsTask
  BY CompletionsFindTasks
<1> QED  BY <1>1, EventsFindCommands, BothContexts, PTL DEF ResultsFindTheirCommands

\* Each command is carried out once and its result handed over once: both contexts
\* implement AsyncCommands.
THEOREM CommandsAreOnce == InOrder => (AsyncSpec => CommandsOnce)
<1> SUFFICES ASSUME InOrder PROVE AsyncSpec => CommandsOnce
  OBVIOUS
<1>1. Spec => EachCommandOnce
  BY LinuxImplementsCommands
<1> QED  BY <1>1, WindowsImplementsCommands, BothContexts, PTL DEF CommandsOnce
=============================================================================
