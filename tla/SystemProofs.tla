---------------------------- MODULE SystemProofs ----------------------------
(***************************************************************************)
(* Proofs about Arena, for every size, alignment and set of block sizes;   *)
(* about Process, for every set of descriptors and choice of handles;      *)
(* about ExitFunctions, for every set of functions and number of calls;    *)
(* about TemporaryFormat, for every size of its buffer; and about          *)
(* RingBuffer, for every address space, and fewer failures in one init than *)
(* it has tries.                                                           *)
(***************************************************************************)
EXTENDS TemporaryFormat, Arena, Process, ExitFunctions, RingBuffer, NumberProofs, SequenceTheorems

(***************************************************************************)
(* The arena.                                                              *)
(***************************************************************************)

\* A block is not empty: without that the last block need not lie behind the others.
\* Without an arena there are no blocks: an arena that is made begins at its start.
ArenaTypeOK ==
  /\ arena \in [start : Nat, at : {"none", "live", "misfreed"}]
  /\ blocks \subseteq Nat \X (Nat \ {0})
  /\ arena.at # "live" => blocks = {}

ArenaInv == ArenaTypeOK /\ BlocksApart

\* What alignment skips is never negative.
LEMMA PaddingIsNat ==
  ASSUME NEW s \in Nat
  PROVE  (-s) % Alignment \in Nat
  BY ArenaAssumption

\* A block put behind all others is apart from them.
LEMMA CutKeeps ==
  ASSUME NEW n \in Nat \ {0}, NEW old, ArenaInv, arena.at = "live", Cut(n, old)
  PROVE  ArenaInv'
<1> DEFINE p == arena.start + Padding
<1> DEFINE b == <<p, n>>
<1>1. arena.start \in Nat /\ Padding \in Nat
  BY PaddingIsNat DEF ArenaInv, ArenaTypeOK, Padding
<1>2. p \in Nat /\ arena.start <= p /\ b \in Nat \X (Nat \ {0}) /\ End(b) = p + n
  BY <1>1 DEF End
<1>3. arena' = [arena EXCEPT !.start = p + n] /\ blocks' = (blocks \ old) \cup {b}
  BY DEF Cut, NextAt
<1>4. arena'.start = p + n
  BY <1>3 DEF ArenaInv, ArenaTypeOK
<1>5. ArenaTypeOK'
  BY <1>2, <1>3 DEF ArenaInv, ArenaTypeOK
<1> HIDE DEF p, b
<1>6. \A c \in blocks : c \in Nat \X (Nat \ {0}) /\ End(c) \in Nat /\ End(c) <= arena.start
  BY DEF ArenaInv, ArenaTypeOK, BlocksApart, End
<1>7. \A c \in blocks : End(c) <= b[1]
  BY <1>1, <1>2, <1>6 DEF b
<1>8. BlocksApart'
  <2>1. ASSUME NEW c \in blocks', NEW d \in blocks', c # d
        PROVE  Apart(c, d)
    BY <2>1, <1>3, <1>7 DEF Apart, ArenaInv, BlocksApart
  <2>2. ASSUME NEW c \in blocks'
        PROVE  End(c) <= arena'.start
    BY <1>1, <1>2, <1>3, <1>4, <1>6
  <2> QED  BY <2>1, <2>2 DEF BlocksApart, Apart, End
<1> QED  BY <1>5, <1>8 DEF ArenaInv

\* Taking blocks away leaves those that remain apart.
LEMMA FewerKeeps ==
  ASSUME ArenaInv, NEW b \in blocks, BlockFree(b)
  PROVE  ArenaInv'
<1>1. b \in Nat \X (Nat \ {0}) /\ arena.start \in Nat /\ End(b) = b[1] + b[2]
  BY DEF ArenaInv, ArenaTypeOK, End
<1>2. blocks' = blocks \ {b}
  BY DEF BlockFree
<1>3. CASE IsLast(b)
  <2>1. arena' = [arena EXCEPT !.start = b[1]]
    BY <1>1, <1>3 DEF BlockFree, NextAt, IsLast
  <2>2. arena'.start = b[1] /\ ArenaTypeOK'
    BY <1>1, <1>2, <2>1 DEF ArenaInv, ArenaTypeOK
  <2>3. ASSUME NEW c \in blocks, c # b
        PROVE  End(c) <= b[1]
    BY <1>1, <1>3, <2>3 DEF ArenaInv, ArenaTypeOK, BlocksApart, Apart, IsLast, End
  <2> QED  BY <1>2, <2>2, <2>3 DEF ArenaInv, BlocksApart, Apart, End
<1>4. CASE ~IsLast(b)
  BY <1>2, <1>4 DEF BlockFree, Holding, ArenaInv, ArenaTypeOK, BlocksApart, Apart, End
<1> QED  BY <1>3, <1>4

\* A block that changes its size keeps its place or is cut anew.
LEMMA ReallocKeeps ==
  ASSUME ArenaInv, NEW b \in blocks, NEW n \in BlockSizes, BlockRealloc(b, n)
  PROVE  ArenaInv'
<1>1. b \in Nat \X (Nat \ {0}) /\ arena.start \in Nat /\ End(b) = b[1] + b[2]
  BY DEF ArenaInv, ArenaTypeOK, End
<1>2. n \in Nat \ {0}
  BY ArenaAssumption DEF BlockRealloc
<1>3. ASSUME NEW c \in blocks, c # b
      PROVE  /\ c \in Nat \X (Nat \ {0}) /\ End(c) = c[1] + c[2] /\ End(c) <= arena.start
             /\ Apart(b, c)
  BY <1>3 DEF ArenaInv, ArenaTypeOK, BlocksApart, End
<1> DEFINE r == <<b[1], n>>
<1>4. r \in Nat \X (Nat \ {0}) /\ End(r) = b[1] + n /\ r[1] = b[1]
  BY <1>1, <1>2 DEF End
<1>5. CASE UNCHANGED arenaVars
  BY <1>5 DEF ArenaInv, ArenaTypeOK, BlocksApart, arenaVars, Apart, End
<1>6. CASE /\ IsLast(b) /\ NextAt(b[1] + n)
           /\ blocks' = (blocks \ {b}) \cup {<<b[1], n>>}
  <2>1. arena' = [arena EXCEPT !.start = b[1] + n]
    BY <1>6 DEF NextAt
  <2>2. arena'.start = b[1] + n /\ ArenaTypeOK'
    BY <1>1, <1>4, <1>6, <2>1 DEF ArenaInv, ArenaTypeOK
  <2>3. ASSUME NEW c \in blocks, c # b
        PROVE  End(c) <= b[1]
    BY <1>1, <1>3, <1>6, <2>3 DEF Apart, IsLast
  <2> HIDE DEF r
  <2>4. blocks' = (blocks \ {b}) \cup {r}
    BY <1>6 DEF r
  <2>5. ASSUME NEW c \in blocks', NEW d \in blocks', c # d
        PROVE  Apart(c, d)
    BY <2>5, <2>3, <2>4, <1>4 DEF Apart, ArenaInv, BlocksApart
  <2>6. ASSUME NEW c \in blocks'
        PROVE  End(c) <= arena'.start
    BY <1>1, <1>2, <1>3, <1>4, <2>2, <2>3, <2>4
  <2> QED  BY <2>2, <2>5, <2>6 DEF ArenaInv, BlocksApart, Apart, End
<1>7. CASE n < b[2] /\ blocks' = (blocks \ {b}) \cup {<<b[1], n>>} /\ UNCHANGED arena
  <2>1. ArenaTypeOK'
    BY <1>4, <1>7 DEF ArenaInv, ArenaTypeOK
  <2>2. ASSUME NEW c \in blocks, c # b
        PROVE  Apart(r, c) /\ Apart(c, r)
    BY <1>1, <1>2, <1>3, <1>4, <1>7, <2>2 DEF Apart
  <2>3. End(r) <= arena.start
    BY <1>1, <1>2, <1>4, <1>7 DEF ArenaInv, BlocksApart
  <2> HIDE DEF r
  <2>4. blocks' = (blocks \ {b}) \cup {r}
    BY <1>7 DEF r
  <2>5. ASSUME NEW c \in blocks', NEW d \in blocks', c # d
        PROVE  Apart(c, d)
    BY <2>5, <2>2, <2>4 DEF ArenaInv, BlocksApart
  <2>6. ASSUME NEW c \in blocks'
        PROVE  End(c) <= arena'.start
    BY <1>7, <2>3, <2>4 DEF ArenaInv, BlocksApart
  <2> QED  BY <2>1, <2>5, <2>6 DEF ArenaInv, BlocksApart, Apart, End
<1>8. CASE Cut(n, {b})
  BY <1>2, <1>8, CutKeeps DEF BlockRealloc, Holding
<1> QED  BY <1>5, <1>6, <1>7, <1>8 DEF BlockRealloc, NoBlock

\* Every call keeps the blocks apart, whatever sizes are asked for.
THEOREM ArenaInductive ==
  /\ ArenaInit => ArenaInv
  /\ ArenaInv /\ [ArenaNext]_arenaVars => ArenaInv'
<1>1. ArenaInit => ArenaInv
  BY DEF ArenaInit, ArenaInv, ArenaTypeOK, BlocksApart
<1>2. ASSUME ArenaInv, [ArenaNext]_arenaVars
      PROVE  ArenaInv'
  <2>1. CASE ArenaMake
    BY <1>2, <2>1 DEF ArenaMake, ArenaInv, ArenaTypeOK, BlocksApart
  <2>2. CASE ArenaFree
    BY <1>2, <2>2 DEF ArenaFree, ArenaInv, ArenaTypeOK, BlocksApart
  <2>3. ASSUME NEW n \in BlockSizes, BlockAlloc(n)
        PROVE  ArenaInv'
    <3>1. CASE Cut(n, {})
      BY <1>2, <2>3, <3>1, CutKeeps, ArenaAssumption DEF Cut, BlockAlloc
    <3>2. CASE NoBlock(n)
      BY <1>2, <3>2 DEF NoBlock, ArenaInv, ArenaTypeOK, BlocksApart, arenaVars, Apart, End
    <3> QED  BY <2>3, <3>1, <3>2 DEF BlockAlloc
  <2>4. ASSUME NEW b \in blocks, BlockFree(b)
        PROVE  ArenaInv'
    BY <1>2, <2>4, FewerKeeps
  <2>5. ASSUME NEW b \in blocks, NEW n \in BlockSizes, BlockRealloc(b, n)
        PROVE  ArenaInv'
    BY <1>2, <2>5, ReallocKeeps
  <2>6. CASE UNCHANGED arenaVars
    BY <1>2, <2>6 DEF ArenaInv, ArenaTypeOK, BlocksApart, arenaVars, Apart, End
  <2> QED  BY <1>2, <2>1, <2>2, <2>3, <2>4, <2>5, <2>6 DEF ArenaNext
<1> QED  BY <1>1, <1>2

\* The blocks that the program holds never share a byte, for every arena (the
\* allocations, frees and reallocations of allocator_arena.cpp, in any order).
THEOREM BlocksAlwaysApart == ArenaSpec => []BlocksApart
<1>1. ArenaInit => ArenaInv
  BY ArenaInductive
<1>2. ArenaInv /\ [ArenaNext]_arenaVars => ArenaInv'
  BY ArenaInductive
<1>3. ArenaInv => BlocksApart
  BY DEF ArenaInv
<1> QED  BY <1>1, <1>2, <1>3, PTL DEF ArenaSpec

(***************************************************************************)
(* Processes.                                                              *)
(***************************************************************************)

Kinds   == {"terminal in", "terminal out", "terminal err", "read end", "write end", Closed}
Stages  == {"input", "output", "error", "exec", "running", "no program", "failed"}
Handles == Descriptors \X Descriptors \X Descriptors

Started ==
  [at : Stages, fds : [Descriptors -> Kinds], io : Handles, given : [1..3 -> Kinds], known : BOOLEAN]

ProcessTypeOK ==
  /\ fds \in [Descriptors -> Kinds]
  /\ info \in [io : Handles, path : {"none", "owned", "borrowed"}, freePath : BOOLEAN,
               args : {"none", "owned", "borrowed"}, freeArgs : BOOLEAN]
  /\ lost \in [copies : Int, misfreed : BOOLEAN]
  /\ child = NoChild \/ child \in Started

\* What the flags say is to be freed is owned.
FlagsTellOwned ==
  /\ info.freePath => info.path = "owned"
  /\ info.freeArgs => info.args = "owned"
  /\ ~lost.misfreed

\* How far the child has come with handles it can move one by one: those that are
\* placed are where they belong, those that are not are where they were.
Placed(c, k)  == c.fds[k - 1] = Wanted(c, k)
Waiting(c, k) == c.fds[HandleFor(c.io, k)] = Wanted(c, k)

Progress(c) ==
  /\ c.at = "input"  => Waiting(c, 1) /\ Waiting(c, 2) /\ Waiting(c, 3)
  /\ c.at = "output" => Placed(c, 1) /\ Waiting(c, 2) /\ Waiting(c, 3)
  /\ c.at = "error"  => Placed(c, 1) /\ Placed(c, 2) /\ Waiting(c, 3)
  /\ c.at \in {"exec", "running", "no program"} => Placed(c, 1) /\ Placed(c, 2) /\ Placed(c, 3)
  /\ c.at = "failed" => \E k \in 1..3 : c.given[k] = Closed

ChildOnItsWay == child # NoChild /\ Movable(child.io) => Progress(child)

ProcessInv == ProcessTypeOK /\ FlagsTellOwned /\ ChildOnItsWay

\* The three handles are numbers, and so are the places they go to.
LEMMA HandlesAreNumbers ==
  /\ 0 \in Descriptors /\ 1 \in Descriptors /\ 2 \in Descriptors
  /\ <<0, 1, 2>> \in Handles
  /\ \A h \in Handles : \A k \in 1..3 : h[k] \in Descriptors /\ h[k] \in Nat
<1>1. 0 \in Descriptors /\ 1 \in Descriptors /\ 2 \in Descriptors
  <2>1. 0 \in 0..2 /\ 1 \in 0..2 /\ 2 \in 0..2
    OBVIOUS
  <2> QED  BY <2>1, ProcessAssumption
<1>2. <<0, 1, 2>> \in Handles
  BY <1>1 DEF Handles
<1>3. ASSUME NEW h \in Handles, NEW k \in 1..3
      PROVE  h[k] \in Descriptors /\ h[k] \in Nat
  <2>1. h[1] \in Descriptors /\ h[2] \in Descriptors /\ h[3] \in Descriptors
    BY DEF Handles
  <2>2. k = 1 \/ k = 2 \/ k = 3
    OBVIOUS
  <2>3. h[k] \in Descriptors
    BY <2>1, <2>2
  <2> QED  BY <2>3, ProcessAssumption
<1> QED  BY <1>1, <1>2, <1>3

\* A step that leaves the child alone, and frees nothing, keeps what is known of it.
LEMMA OthersKeep ==
  ASSUME ProcessInv, ProcessTypeOK', UNCHANGED <<child, lost>>,
         (info'.freePath => info'.path = "owned") /\ (info'.freeArgs => info'.args = "owned")
  PROVE  ProcessInv'
  BY DEF ProcessInv, FlagsTellOwned, ChildOnItsWay

\* What is freed was owned.
LEMMA FreesItsOwn ==
  ASSUME ProcessInv
  PROVE  Misfreed = lost
<1>1. Misfrees(info) = FALSE
  BY DEF ProcessInv, ProcessTypeOK, FlagsTellOwned, Misfrees
<1>2. lost.misfreed = FALSE
  BY DEF ProcessInv, ProcessTypeOK, FlagsTellOwned
<1>3. Misfreed = [lost EXCEPT !.misfreed = FALSE]
  BY <1>1, <1>2 DEF Misfreed
<1> QED  BY <1>2, <1>3 DEF ProcessInv, ProcessTypeOK

\* A child that goes on to the next step, has its handles moved, or fails.
LEMMA MovesKeep ==
  ASSUME ProcessInv, NEW step \in {"input", "output", "error"}, NEW k \in 1..3, NEW there \in BOOLEAN,
         NEW next \in {"output", "error", "exec"},
         <<step, k, next>> \in {<<"input", 1, "output">>, <<"output", 2, "error">>, <<"error", 3, "exec">>},
         Places(step, child.io[k], k - 1, there, next),
         Movable(child.io) => (there <=> HandleFor(child.io, k) = k - 1),
         ~there => HandleFor(child.io, k) = child.io[k] /\ Wanted(child, k) = child.given[k]
  PROVE  ProcessInv'
<1>1. child.at = step /\ UNCHANGED <<fds, ends, info, lost>>
  BY DEF Places
<1>2. child \in Started
  BY <1>1 DEF ProcessInv, ProcessTypeOK, NoChild
<1>3. /\ child.io \in Handles /\ child.fds \in [Descriptors -> Kinds]
      /\ child.given \in [1..3 -> Kinds]
      /\ child.io[1] \in Nat /\ child.io[2] \in Nat /\ child.io[3] \in Nat
      /\ child.io[1] \in Descriptors /\ child.io[2] \in Descriptors /\ child.io[3] \in Descriptors
      /\ 0 \in Descriptors /\ 1 \in Descriptors /\ 2 \in Descriptors
  BY <1>2, HandlesAreNumbers DEF Started
<1>4. CASE there
  <2>1. child' = [child EXCEPT !.at = next]
    BY <1>4 DEF Places
  <2>2. child' \in Started
    BY <1>2, <2>1 DEF Started, Stages
  <2>3. ChildOnItsWay'
    <3>1. /\ child'.at = next /\ child'.io = child.io /\ child'.fds = child.fds
          /\ child'.given = child.given /\ child # NoChild
      BY <1>1, <1>2, <2>1 DEF Started, NoChild
    <3> SUFFICES ASSUME Movable(child.io)
                 PROVE  Progress(child')
      BY <3>1 DEF ChildOnItsWay
    <3>2. Progress(child) /\ HandleFor(child.io, k) = k - 1
      BY <1>4, <3>1 DEF ProcessInv, ChildOnItsWay
    <3>3. CASE step = "input"
      BY <1>1, <3>1, <3>2, <3>3 DEF Progress, Placed, Waiting, Wanted
    <3>4. CASE step = "output"
      BY <1>1, <3>1, <3>2, <3>4 DEF Progress, Placed, Waiting, Wanted
    <3>5. CASE step = "error"
      BY <1>1, <3>1, <3>2, <3>5 DEF Progress, Placed, Waiting, Wanted
    <3> QED  BY <3>3, <3>4, <3>5
  <2> QED  BY <1>1, <2>2, <2>3 DEF ProcessInv, ProcessTypeOK, FlagsTellOwned
<1>5. CASE ~there /\ Dup(child.io[k], k - 1) = {}
  <2>1. child' = [child EXCEPT !.at = "failed"]
    BY <1>5 DEF Places
  <2>2. child' \in Started
    BY <1>2, <2>1 DEF Started, Stages
  <2>3. /\ child'.at = "failed" /\ child'.io = child.io /\ child'.given = child.given
        /\ child # NoChild
    BY <1>1, <1>2, <2>1 DEF Started, NoChild
  <2>4. ASSUME Movable(child.io)
        PROVE  child.given[k] = Closed
    <3>1. Progress(child) /\ child.io[k] # k - 1
      BY <1>3, <1>5, <2>3, <2>4 DEF ProcessInv, ChildOnItsWay
    <3>2. child.fds[child.io[k]] = Closed
      BY <1>5, <3>1 DEF Dup
    <3>3. Waiting(child, k)
      BY <1>1, <3>1 DEF Progress
    <3> QED  BY <1>5, <3>2, <3>3 DEF Waiting
  <2>5. ChildOnItsWay'
    BY <2>3, <2>4 DEF ChildOnItsWay, Progress
  <2> QED  BY <1>1, <2>2, <2>5 DEF ProcessInv, ProcessTypeOK, FlagsTellOwned
<1>6. CASE ~there /\ Dup(child.io[k], k - 1) # {}
  <2>1. child' = [child EXCEPT !.at = next,
                               !.fds = [child.fds EXCEPT ![k - 1] = child.fds[child.io[k]]]]
    BY <1>6 DEF Places, Dup
  <2>2. [child.fds EXCEPT ![k - 1] = child.fds[child.io[k]]] \in [Descriptors -> Kinds]
    BY <1>3
  <2>3. child' \in Started
    BY <1>2, <2>1, <2>2 DEF Started, Stages
  <2>4. /\ child'.at = next /\ child'.io = child.io /\ child'.given = child.given
        /\ child'.fds = [child.fds EXCEPT ![k - 1] = child.fds[child.io[k]]]
        /\ child # NoChild
    BY <1>1, <1>2, <2>1 DEF Started, NoChild
  <2>5. ChildOnItsWay'
    <3> SUFFICES ASSUME Movable(child.io)
                 PROVE  Progress(child')
      BY <2>4 DEF ChildOnItsWay
    <3>1. Progress(child) /\ HandleFor(child.io, k) # k - 1
      BY <1>6, <2>4 DEF ProcessInv, ChildOnItsWay
    <3>5. \A j \in 1..3 : k < j => HandleFor(child.io, j) # k - 1
      BY <3>1 DEF Movable
    <3>6. /\ HandleFor(child.io, 1) \in Descriptors /\ HandleFor(child.io, 2) \in Descriptors
          /\ HandleFor(child.io, 3) \in Descriptors
      BY <1>3 DEF HandleFor
    <3>7. child'.fds[k - 1] = child.fds[HandleFor(child.io, k)]
      BY <1>3, <1>6, <2>4
    <3>8. \A d \in Descriptors : d # k - 1 => child'.fds[d] = child.fds[d]
      BY <1>3, <2>4
    <3>9. \A j \in 1..3 : Wanted(child', j) = Wanted(child, j)
      BY <2>4 DEF Wanted
    <3>2. CASE step = "input"
      <4>1. k = 1 /\ next = "output"
        BY <3>2
      <4> QED  BY <1>1, <1>3, <2>4, <3>1, <3>2, <3>5, <3>6, <3>7, <3>8, <3>9, <4>1 DEF Progress, Placed, Waiting
    <3>3. CASE step = "output"
      <4>1. k = 2 /\ next = "error"
        BY <3>3
      <4> QED  BY <1>1, <1>3, <2>4, <3>1, <3>3, <3>5, <3>6, <3>7, <3>8, <3>9, <4>1 DEF Progress, Placed, Waiting
    <3>4. CASE step = "error"
      <4>1. k = 3 /\ next = "exec"
        BY <3>4
      <4> QED  BY <1>1, <1>3, <2>4, <3>1, <3>4, <3>6, <3>7, <3>8, <3>9, <4>1 DEF Progress, Placed, Waiting
    <3> QED  BY <3>2, <3>3, <3>4
  <2> QED  BY <1>1, <2>3, <2>5 DEF ProcessInv, ProcessTypeOK, FlagsTellOwned
<1> QED  BY <1>4, <1>5, <1>6

\* Whatever is set up, started, placed, closed and stopped, in whatever order, the
\* child is on its way and the flags tell what is owned.
THEOREM ProcessInductive ==
  /\ ProcessInit => ProcessInv
  /\ ProcessInv /\ [ProcessNext]_processVars => ProcessInv'
<1>1. ProcessInit => ProcessInv
  <2> SUFFICES ASSUME ProcessInit
               PROVE  ProcessInv
    OBVIOUS
  <2>1. fds \in [Descriptors -> Kinds]
    BY DEF ProcessInit, Kinds
  <2>2. NewInfo \in [io : Handles, path : {"none", "owned", "borrowed"}, freePath : BOOLEAN,
                     args : {"none", "owned", "borrowed"}, freeArgs : BOOLEAN]
    BY HandlesAreNumbers DEF NewInfo
  <2>3. lost \in [copies : Int, misfreed : BOOLEAN]
    <3>1. lost = [copies |-> 0, misfreed |-> FALSE]
      BY DEF ProcessInit
    <3> QED  BY <3>1
  <2>4. ProcessTypeOK
    BY <2>1, <2>2, <2>3 DEF ProcessInit, ProcessTypeOK
  <2> QED  BY <2>4 DEF ProcessInit, ProcessInv, FlagsTellOwned, ChildOnItsWay, NewInfo
<1>2. ASSUME ProcessInv, [ProcessNext]_processVars
      PROVE  ProcessInv'
  <2>0. 1 \in 1..3 /\ 2 \in 1..3 /\ 3 \in 1..3
    OBVIOUS
  <2>1. CASE PipeMake
    <3>1. fds' \in [Descriptors -> Kinds]
      BY <1>2, <2>1 DEF PipeMake, ProcessInv, ProcessTypeOK, Kinds
    <3> QED  BY <1>2, <2>1, <3>1, OthersKeep DEF PipeMake, ProcessInv, ProcessTypeOK, FlagsTellOwned
  <2>2. CASE PipeFree
    <3>1. fds' \in [Descriptors -> Kinds]
      BY <1>2, <2>2 DEF PipeFree, ProcessInv, ProcessTypeOK, Kinds
    <3> QED  BY <1>2, <2>2, <3>1, OthersKeep DEF PipeFree, ProcessInv, ProcessTypeOK, FlagsTellOwned
  <2>3. ASSUME NEW io \in IoChoices, SetIo(io)
        PROVE  ProcessInv'
    <3>1. ProcessTypeOK'
      BY <1>2, <2>3, ProcessAssumption DEF SetIo, ProcessInv, ProcessTypeOK, Handles
    <3> QED  BY <1>2, <2>3, <3>1, OthersKeep DEF SetIo, ProcessInv, ProcessTypeOK, FlagsTellOwned
  <2>4. ASSUME NEW copied \in BOOLEAN, SetExecutable(copied)
        PROVE  ProcessInv'
    <3>1. ProcessTypeOK' /\ UNCHANGED <<child, lost>>
      BY <1>2, <2>4, FreesItsOwn DEF SetExecutable, PathFreed, ProcessInv, ProcessTypeOK
    <3> QED  BY <1>2, <2>4, <3>1, OthersKeep DEF SetExecutable, PathFreed, ProcessInv, ProcessTypeOK, FlagsTellOwned
  <2>5. ASSUME NEW args \in {"none", "owned"}, SetCommandLine(args)
        PROVE  ProcessInv'
    <3>1. ProcessTypeOK' /\ UNCHANGED <<child, lost>>
      BY <1>2, <2>5, FreesItsOwn DEF SetCommandLine, ArgsFreed, ProcessInv, ProcessTypeOK
    <3> QED  BY <1>2, <2>5, <3>1, OthersKeep DEF SetCommandLine, ArgsFreed, ProcessInv, ProcessTypeOK, FlagsTellOwned
  <2>6. ASSUME NEW args \in {"none", "owned", "borrowed"}, SetArgumentList(args)
        PROVE  ProcessInv'
    <3>1. /\ lost' \in [copies : Int, misfreed : BOOLEAN] /\ lost'.misfreed = lost.misfreed
      BY <1>2, <2>6 DEF SetArgumentList, ProcessInv, ProcessTypeOK
    <3>2. ProcessTypeOK'
      BY <1>2, <2>6, <3>1 DEF SetArgumentList, ProcessInv, ProcessTypeOK
    <3>3. FlagsTellOwned'
      BY <1>2, <2>6, <3>1 DEF SetArgumentList, ProcessInv, ProcessTypeOK, FlagsTellOwned
    <3> QED  BY <1>2, <2>6, <3>2, <3>3 DEF SetArgumentList, ProcessInv, ChildOnItsWay
  <2>7. CASE Start
    <3>1. UNCHANGED <<fds, ends, info, lost>>
      BY <2>7 DEF Start
    <3>2. CASE UNCHANGED child
      BY <1>2, <3>1, <3>2 DEF ProcessInv, ProcessTypeOK, FlagsTellOwned, ChildOnItsWay
    <3>3. CASE child' = [at |-> "input", fds |-> fds, io |-> info.io, known |-> TRUE,
                         given |-> [k \in 1..3 |-> fds[info.io[k]]]]
      <4>1. info.io \in Handles /\ \A k \in 1..3 : fds[info.io[k]] \in Kinds
        BY <1>2, HandlesAreNumbers DEF ProcessInv, ProcessTypeOK
      <4>2. [k \in 1..3 |-> fds[info.io[k]]] \in [1..3 -> Kinds]
        BY <4>1
      <4>3. child' \in Started
        BY <1>2, <3>3, <4>1, <4>2 DEF ProcessInv, ProcessTypeOK, Started, Stages
      <4>4. /\ child'.at = "input" /\ child'.fds = fds /\ child'.io = info.io
            /\ child'.given = [k \in 1..3 |-> fds[info.io[k]]]
        BY <3>3
      <4>5. child'.given[1] = fds[info.io[1]] /\ child'.given[2] = fds[info.io[2]]
              /\ child'.given[3] = fds[info.io[3]]
        BY <4>4
      <4>6. ASSUME NEW j \in 1..3
            PROVE  Waiting(child', j)
        <5>1. CASE j = 3 /\ info.io[2] = 2
          BY <4>4, <4>5, <5>1 DEF Waiting, Wanted, HandleFor
        <5>2. CASE ~(j = 3 /\ info.io[2] = 2)
          BY <4>4, <4>5, <5>2 DEF Waiting, Wanted, HandleFor
        <5> QED  BY <5>1, <5>2
      <4>7. Progress(child')
        BY <4>4, <4>6 DEF Progress
      <4> QED  BY <1>2, <3>1, <4>3, <4>7 DEF ProcessInv, ProcessTypeOK, FlagsTellOwned, ChildOnItsWay
    <3> QED  BY <2>7, <3>2, <3>3 DEF Start
  <2>8. CASE Stop
    BY <1>2, <2>8 DEF Stop, ProcessInv, ProcessTypeOK, FlagsTellOwned, ChildOnItsWay
  <2>9. CASE Destroy
    BY <1>2, <2>9, FreesItsOwn, HandlesAreNumbers
       DEF Destroy, ProcessInv, ProcessTypeOK, FlagsTellOwned, ChildOnItsWay, NewInfo
  <2>10. CASE PlaceInput
    <3>1. Places("input", child.io[1], 1 - 1, (child.io[1] = 0), "output")
      BY <2>10 DEF PlaceInput
    <3>2. /\ Movable(child.io) => ((child.io[1] = 0) <=> HandleFor(child.io, 1) = 1 - 1)
          /\ ~(child.io[1] = 0) => HandleFor(child.io, 1) = child.io[1] /\ Wanted(child, 1) = child.given[1]
      BY DEF HandleFor, Wanted
    <3>3. /\ "input" \in {"input", "output", "error"} /\ 1 \in 1..3 /\ (child.io[1] = 0) \in BOOLEAN
          /\ "output" \in {"output", "error", "exec"}
          /\ <<"input", 1, "output">> \in
               {<<"input", 1, "output">>, <<"output", 2, "error">>, <<"error", 3, "exec">>}
      OBVIOUS
    <3> QED  BY <1>2, <3>1, <3>2, <3>3, MovesKeep, Zenon
  <2>11. CASE PlaceOutput
    <3>1. Places("output", child.io[2], 2 - 1, (child.io[2] = 1), "error")
      BY <2>11 DEF PlaceOutput
    <3>2. /\ Movable(child.io) => ((child.io[2] = 1) <=> HandleFor(child.io, 2) = 2 - 1)
          /\ ~(child.io[2] = 1) => HandleFor(child.io, 2) = child.io[2] /\ Wanted(child, 2) = child.given[2]
      BY DEF HandleFor, Wanted
    <3>3. /\ "output" \in {"input", "output", "error"} /\ 2 \in 1..3 /\ (child.io[2] = 1) \in BOOLEAN
          /\ "error" \in {"output", "error", "exec"}
          /\ <<"output", 2, "error">> \in
               {<<"input", 1, "output">>, <<"output", 2, "error">>, <<"error", 3, "exec">>}
      OBVIOUS
    <3> QED  BY <1>2, <3>1, <3>2, <3>3, MovesKeep, Zenon
  <2>12. CASE PlaceError
    <3>1. Places("error", child.io[3], 3 - 1, (child.io[2] = 2), "exec")
      BY <2>12 DEF PlaceError
    <3>2. /\ Movable(child.io) => ((child.io[2] = 2) <=> HandleFor(child.io, 3) = 3 - 1)
          /\ ~(child.io[2] = 2) => HandleFor(child.io, 3) = child.io[3] /\ Wanted(child, 3) = child.given[3]
      BY DEF HandleFor, Wanted, Movable
    <3>3. /\ "error" \in {"input", "output", "error"} /\ 3 \in 1..3 /\ (child.io[2] = 2) \in BOOLEAN
          /\ "exec" \in {"output", "error", "exec"}
          /\ <<"error", 3, "exec">> \in
               {<<"input", 1, "output">>, <<"output", 2, "error">>, <<"error", 3, "exec">>}
      OBVIOUS
    <3> QED  BY <1>2, <3>1, <3>2, <3>3, MovesKeep, Zenon
  <2>13. CASE Exec
    <3>1. PICK at \in {"running", "no program"} : child' = [child EXCEPT !.at = at]
      BY <2>13 DEF Exec
    <3>2. child \in Started /\ child # NoChild /\ child.at = "exec"
      <4>1. child.at = "exec"
        BY <2>13 DEF Exec
      <4>2. NoChild.at = "none"
        BY DEF NoChild
      <4> QED  BY <1>2, <4>1, <4>2 DEF ProcessInv, ProcessTypeOK
    <3>3. child' \in Started
      BY <3>1, <3>2 DEF Started, Stages
    <3>4. /\ child'.at = at /\ child'.io = child.io /\ child'.fds = child.fds
          /\ child'.given = child.given
      BY <3>1, <3>2 DEF Started
    <3>5. ChildOnItsWay'
      <4>1. Movable(child'.io) => Progress(child)
        BY <1>2, <3>2, <3>4 DEF ProcessInv, ChildOnItsWay
      <4>2. ASSUME NEW k \in 1..3
            PROVE  Placed(child, k) => Placed(child', k)
        <5>1. Wanted(child', k) = Wanted(child, k)
          BY <3>4 DEF Wanted
        <5> QED  BY <3>4, <5>1 DEF Placed
      <4>3. Progress(child) => Placed(child, 1) /\ Placed(child, 2) /\ Placed(child, 3)
        BY <3>2 DEF Progress
      <4>4. Progress(child) => Placed(child', 1) /\ Placed(child', 2) /\ Placed(child', 3)
        BY <2>0, <4>2, <4>3
      <4>5. Progress(child) => Progress(child')
        BY <3>4, <4>4 DEF Progress
      <4> QED  BY <4>1, <4>5 DEF ChildOnItsWay
    <3> QED  BY <1>2, <2>13, <3>3, <3>5 DEF Exec, ProcessInv, ProcessTypeOK, FlagsTellOwned
  <2>14. CASE UNCHANGED processVars
    BY <1>2, <2>14 DEF processVars, ProcessInv, ProcessTypeOK, FlagsTellOwned, ChildOnItsWay
  <2> QED
    BY <1>2, <2>1, <2>2, <2>3, <2>4, <2>5, <2>6, <2>7, <2>8, <2>9, <2>10, <2>11, <2>12, <2>13, <2>14
       DEF ProcessNext
<1> QED  BY <1>1, <1>2

\* The handles a process was given are its input, output and error when it runs, it
\* fails only for one that was not open, and nothing is freed that is not owned: for
\* every choice of handles that can be moved one by one, and every order of calls; with
\* an output handle of 2 descriptor 2 stays what it was (process.cpp:629).
THEOREM AlwaysStartsAsSetUp ==
  ProcessInit /\ [][ProcessNext]_processVars => []StartsAsSetUp
<1>1. ProcessInv => StartsAsSetUp
  <2> SUFFICES ASSUME ProcessInv
               PROVE  StartsAsSetUp
    OBVIOUS
  <2>1. ~lost.misfreed
    BY DEF ProcessInv, FlagsTellOwned
  <2>2. ASSUME child.at # "none", Movable(child.io)
        PROVE  Progress(child)
    BY <2>2 DEF ProcessInv, ChildOnItsWay, NoChild
  <2>3. Progress(child) => Runs(child)
    BY DEF Progress, Runs, Placed
  <2>4. Progress(child) /\ child.at = "failed" => \E k \in 1..3 : child.given[k] = Closed
    BY DEF Progress
  <2> QED  BY <2>1, <2>2, <2>3, <2>4 DEF StartsAsSetUp
<1> QED  BY <1>1, ProcessInductive, PTL

(***************************************************************************)
(* Exit functions.                                                         *)
(***************************************************************************)

\* As long as none was unregistered while the functions are called, those called are
\* the first of the array, up to the pointer or the function it points at; before they
\* are called there are none.
Reached == leaving.index + (IF leaving.at = "calling" THEN 1 ELSE 0)

ExitInv ==
  /\ leaving.at \in {"running", "next", "calling", "lost", "done"}
  /\ {"at", "block", "index"} \subseteq DOMAIN leaving
  /\ leaving.at = "running" => ~history.dropped /\ called = <<>>
  /\ ~history.dropped =>
       /\ exits.names \in Seq(ExitNames) /\ history.due = exits.names
       /\ leaving.at # "running" =>
            /\ leaving.index \in Nat /\ Reached <= Len(exits.names)
            /\ called \in Seq(ExitNames) /\ Len(called) = Reached
            /\ \A i \in 1..Reached : called[i] = exits.names[i]
       /\ leaving.at = "done" => Reached = Len(exits.names)

\* What index_of finds and remove_elements takes out leaves a sequence.
LEMMA FirstIsRemoved ==
  ASSUME NEW S, NEW s \in Seq(S), NEW x
  PROVE  RemoveFirst(s, x) \in Seq(S)
<1> DEFINE I == {i \in 1..Len(s) : s[i] = x}
<1>1. CASE I = {}
  BY <1>1 DEF RemoveFirst
<1>2. CASE I # {}
  <2>1. I \in SUBSET Nat /\ \E i \in 1..Len(s) : s[i] = x
    BY <1>2, LenProperties
  <2>2. RemoveFirst(s, x) = RemoveAt(s, SelectInSeq(s, LAMBDA v : v = x))
    BY <2>1 DEF RemoveFirst
  <2>3. SelectInSeq(s, LAMBDA v : v = x) = Min(I)
    BY <1>2 DEF SelectInSeq
  <2>4. Min(I) \in I
    <3> HIDE DEF I
    <3> QED  BY <1>2, <2>1, LeastExists DEF Min
  <2>5. PICK i \in 1..Len(s) : i = Min(I)
    BY <2>4
  <2>6. RemoveFirst(s, x) = SubSeq(s, 1, i - 1) \o SubSeq(s, i + 1, Len(s))
    BY <2>2, <2>3, <2>5 DEF RemoveAt
  <2>7. Len(s) \in Nat /\ \A k \in 1..Len(s) : s[k] \in S
    BY LenProperties, ElementOfSeq
  <2>8. SubSeq(s, 1, i - 1) \in Seq(S) /\ SubSeq(s, i + 1, Len(s)) \in Seq(S)
    BY <2>7, SubSeqProperties
  <2> QED  BY <2>6, <2>8, ConcatProperties
<1> QED  BY <1>1, <1>2

LEMMA ExitBegins == ExitInit => ExitInv
<1> SUFFICES ASSUME ExitInit PROVE ExitInv
  OBVIOUS
<1>1. exits.names = <<>> /\ history.due = <<>> /\ called = <<>> /\ leaving.at = "running"
      /\ ~history.dropped
      /\ {"at", "block", "index"} \subseteq DOMAIN leaving
  BY DEF ExitInit, NoExits
<1>2. <<>> \in Seq(ExitNames)
  BY EmptySeq
<1> QED  BY <1>1, <1>2 DEF ExitInv

\* One more function is due: it is at the end, behind those that were called.
LEMMA RegisterKeeps ==
  ASSUME ExitInv, NEW name \in ExitNames, Register(name)
  PROVE  ExitInv'
<1>1. /\ exits'.names = Append(exits.names, name) /\ UNCHANGED <<leaving, called>>
      /\ history'.dropped = history.dropped
      /\ history'.due = Append(history.due, name)
      /\ leaving.at \in {"running", "calling"}
  BY DEF Register, ExitInv, MayCall, Calling
<1>2. Reached' = Reached
  BY <1>1 DEF Reached
<1>3. leaving.at = "running" => ~history.dropped /\ called = <<>>
  BY DEF ExitInv
<1>4. ASSUME ~history.dropped
      PROVE  /\ exits'.names \in Seq(ExitNames) /\ history'.due = exits'.names
             /\ leaving.at # "running" =>
                  /\ leaving.index \in Nat /\ Reached <= Len(exits'.names)
                  /\ called \in Seq(ExitNames) /\ Len(called) = Reached
                  /\ \A i \in 1..Reached : called[i] = exits'.names[i]
  <2>1. exits.names \in Seq(ExitNames) /\ history.due = exits.names
    BY <1>4 DEF ExitInv
  <2>2. /\ exits'.names \in Seq(ExitNames) /\ Len(exits'.names) = Len(exits.names) + 1
        /\ \A i \in 1..Len(exits.names) : exits'.names[i] = exits.names[i]
        /\ Len(exits.names) \in Nat
    BY <1>1, <2>1, AppendProperties, LenProperties
  <2>3. ASSUME leaving.at # "running"
        PROVE  /\ leaving.index \in Nat /\ Reached <= Len(exits'.names)
               /\ called \in Seq(ExitNames) /\ Len(called) = Reached
               /\ \A i \in 1..Reached : called[i] = exits'.names[i]
    <3>1. /\ leaving.index \in Nat /\ Reached <= Len(exits.names)
          /\ called \in Seq(ExitNames) /\ Len(called) = Reached
          /\ \A i \in 1..Reached : called[i] = exits.names[i]
      BY <1>4, <2>3 DEF ExitInv
    <3>2. Reached \in Nat
      BY <3>1 DEF Reached
    <3> QED  BY <2>2, <3>1, <3>2
  <2> QED  BY <1>1, <2>1, <2>2, <2>3
<1> QED  BY <1>1, <1>2, <1>3, <1>4 DEF ExitInv

\* A function taken out before the process ends is not due; one taken out later is not
\* promised anything.
LEMMA UnregisterKeeps ==
  ASSUME ExitInv, NEW name \in ExitNames, Unregister(name)
  PROVE  ExitInv'
<1>1. /\ exits'.names = RemoveFirst(exits.names, name) /\ UNCHANGED <<leaving, called>>
      /\ history'.due = RemoveFirst(history.due, name)
      /\ history'.dropped = (history.dropped \/ leaving.at = "calling")
      /\ leaving.at \in {"running", "calling"}
  BY DEF Unregister, ExitInv, MayCall, Calling
<1>2. CASE leaving.at = "calling"
  BY <1>1, <1>2 DEF ExitInv
<1>3. CASE leaving.at = "running"
  <2>1. ~history.dropped /\ called = <<>> /\ exits.names \in Seq(ExitNames) /\ history.due = exits.names
    BY <1>3 DEF ExitInv
  <2>2. exits'.names \in Seq(ExitNames) /\ history'.due = exits'.names
    BY <1>1, <2>1, FirstIsRemoved
  <2> QED  BY <1>1, <1>3, <2>1, <2>2 DEF ExitInv
<1> QED  BY <1>1, <1>2, <1>3

\* The pointer is at the first function, or goes on to the next.
LEMMA LeaveKeeps ==
  ASSUME ExitInv, Leave \/ Returns
  PROVE  ExitInv'
<1>1. UNCHANGED <<exits, called, history>>
  BY DEF Leave, Returns
<1>2. CASE Leave
  <2>1. leaving.at = "running" /\ leaving'.at = "next" /\ leaving'.index = 0 /\ Reached' = 0
         /\ {"at", "block", "index"} \subseteq DOMAIN leaving'
    BY <1>2 DEF Leave, Reached
  <2>2. ~history.dropped /\ called = <<>> /\ exits.names \in Seq(ExitNames) /\ history.due = exits.names
    BY <2>1 DEF ExitInv
  <2>3. called \in Seq(ExitNames) /\ Len(called) = 0 /\ Len(exits.names) \in Nat
    BY <2>2, EmptySeq, LenProperties
  <2> QED  BY <1>1, <2>1, <2>2, <2>3 DEF ExitInv
<1>3. CASE Returns
  <2>1. leaving.at = "calling" /\ leaving'.at = "next" /\ leaving'.index = leaving.index + 1
         /\ {"at", "block", "index"} \subseteq DOMAIN leaving'
    BY <1>3 DEF Returns, ExitInv
  <2>2. leaving.index \in Nat => Reached' = Reached /\ leaving'.index \in Nat
    BY <2>1 DEF Reached
  <2> QED  BY <1>1, <2>1, <2>2 DEF ExitInv
<1> QED  BY <1>2, <1>3

\* The function at the pointer is the next that is due.
LEMMA CallKeeps ==
  ASSUME ExitInv, CallNext
  PROVE  ExitInv'
<1>1. /\ leaving.at = "next" /\ UNCHANGED <<exits, history>>
      /\ leaving'.index = leaving.index /\ leaving'.at \in {"lost", "calling", "done"}
      /\ {"at", "block", "index"} \subseteq DOMAIN leaving'
      /\ leaving'.at = "calling" => /\ leaving.index < Len(exits.names)
                                    /\ called' = Append(called, exits.names[leaving.index + 1])
      /\ leaving'.at # "calling" => called' = called
      /\ leaving'.at = "done" => ~(leaving.index < Len(exits.names))
  <2>1. {"at", "block", "index"} \subseteq DOMAIN leaving
    BY DEF ExitInv
  <2>2. CASE leaving.index < Len(exits.names) /\ leaving.block # exits.block
    BY <2>1, <2>2 DEF CallNext
  <2>3. CASE leaving.index < Len(exits.names) /\ leaving.block = exits.block
    BY <2>1, <2>3 DEF CallNext
  <2>4. CASE ~(leaving.index < Len(exits.names))
    BY <2>1, <2>4 DEF CallNext
  <2> QED  BY <2>2, <2>3, <2>4
<1>2. CASE history.dropped
  BY <1>1, <1>2 DEF ExitInv
<1>3. CASE ~history.dropped
  <2>1. /\ leaving.index \in Nat /\ leaving.index <= Len(exits.names) /\ Len(exits.names) \in Nat
        /\ called \in Seq(ExitNames) /\ Len(called) = leaving.index
        /\ \A i \in 1..leaving.index : called[i] = exits.names[i]
        /\ exits.names \in Seq(ExitNames) /\ history.due = exits.names
    <3>1. /\ leaving.index \in Nat /\ Reached <= Len(exits.names) /\ Reached = leaving.index + 0
          /\ called \in Seq(ExitNames) /\ Len(called) = Reached
          /\ \A i \in 1..Reached : called[i] = exits.names[i]
          /\ exits.names \in Seq(ExitNames) /\ history.due = exits.names
      BY <1>1, <1>3 DEF ExitInv, Reached
    <3>2. Reached = leaving.index
      BY <3>1
    <3> QED  BY <3>1, <3>2, LenProperties
  <2>2. CASE leaving'.at = "calling"
    <3>1. leaving.index < Len(exits.names) /\ called' = Append(called, exits.names[leaving.index + 1])
      BY <1>1, <2>2
    <3>2. leaving.index + 1 \in 1..Len(exits.names) /\ Reached' = leaving.index + 1
      BY <1>1, <2>1, <2>2, <3>1 DEF Reached
    <3>3. exits.names[leaving.index + 1] \in ExitNames
      BY <2>1, <3>2, ElementOfSeq
    <3>4. /\ called' \in Seq(ExitNames) /\ Len(called') = leaving.index + 1
          /\ called'[leaving.index + 1] = exits.names[leaving.index + 1]
          /\ \A i \in 1..leaving.index : called'[i] = called[i]
      BY <2>1, <3>1, <3>3, AppendProperties
    <3>5. \A i \in 1..(leaving.index + 1) : called'[i] = exits.names[i]
      BY <2>1, <3>4
    <3> QED  BY <1>1, <1>3, <2>1, <2>2, <3>2, <3>4, <3>5 DEF ExitInv
  <2>3. CASE leaving'.at \in {"lost", "done"}
    <3>1. called' = called /\ (leaving'.at = "done" => ~(leaving.index < Len(exits.names)))
      BY <1>1, <2>3
    <3>2. Reached' = leaving.index
      BY <1>1, <2>1, <2>3 DEF Reached
    <3> QED  BY <1>1, <1>3, <2>1, <2>3, <3>1, <3>2 DEF ExitInv
  <2> QED  BY <1>1, <2>2, <2>3
<1> QED  BY <1>2, <1>3

LEMMA CalledInOrder == ExitInv => ExitsAreCalled
<1> SUFFICES ASSUME ExitInv, ~history.dropped
             PROVE  IsPrefix(called, history.due) /\ (leaving.at = "done" => called = history.due)
  BY DEF ExitsAreCalled
<1>1. exits.names \in Seq(ExitNames) /\ history.due = exits.names /\ Len(exits.names) \in Nat
  BY LenProperties DEF ExitInv
<1>2. CASE leaving.at = "running"
  <2>1. called = <<>> /\ Len(called) = 0
    BY <1>2 DEF ExitInv
  <2>2. SubSeq(called, 1, 0) = <<>> /\ SubSeq(history.due, 1, 0) = <<>>
    BY SubSeqEmpty
  <2> QED  BY <1>1, <1>2, <2>1, <2>2 DEF IsPrefix
<1>3. CASE leaving.at # "running"
  <2>1. PICK n \in Nat : n = Reached
    BY <1>3 DEF ExitInv, Reached
  <2>2. /\ n <= Len(exits.names) /\ called \in Seq(ExitNames) /\ Len(called) = n
        /\ \A i \in 1..n : called[i] = exits.names[i]
        /\ leaving.at = "done" => n = Len(exits.names)
    BY <1>3, <2>1 DEF ExitInv
  <2>3. SubSeq(called, 1, n) = SubSeq(exits.names, 1, n)
    <3>1. \A i \in 1..n : called[i] \in ExitNames /\ exits.names[i] \in ExitNames
      BY <1>1, <2>2, ElementOfSeq
    <3>2. /\ SubSeq(called, 1, n) \in Seq(ExitNames) /\ SubSeq(exits.names, 1, n) \in Seq(ExitNames)
          /\ Len(SubSeq(called, 1, n)) = n /\ Len(SubSeq(exits.names, 1, n)) = n
          /\ \A i \in 1..n : SubSeq(called, 1, n)[i] = called[i]
          /\ \A i \in 1..n : SubSeq(exits.names, 1, n)[i] = exits.names[i]
      <4>1. \A i \in 1..n : 1 + i - 1 = i
        OBVIOUS
      <4>2. n = (IF 1 <= n THEN n - 1 + 1 ELSE 0) /\ n - 1 + 1 = n /\ n \in Int
        OBVIOUS
      <4> QED  BY <3>1, <4>1, <4>2, SubSeqProperties
    <3> QED  BY <2>2, <3>2, SeqEqual
  <2>4. leaving.at = "done" => called = exits.names
    BY <1>1, <2>2, SeqEqual
  <2> QED  BY <1>1, <2>2, <2>3, <2>4 DEF IsPrefix
<1> QED  BY <1>2, <1>3

\* "call all of the functions registered with register_exit_function in order of
\* registration" (exit.hpp), as far as nothing is unregistered while they are called:
\* for every number of functions and of changes made by them.
THEOREM ExitsAreAlwaysCalled == ExitInit /\ [][ExitNext]_exitVars => []ExitsAreCalled
<1>1. ExitInv /\ [ExitNext]_exitVars => ExitInv'
  <2> SUFFICES ASSUME ExitInv, [ExitNext]_exitVars PROVE ExitInv'
    OBVIOUS
  <2>1. CASE UNCHANGED exitVars
    BY <2>1 DEF exitVars, ExitInv, Reached
  <2> QED
    BY <2>1, RegisterKeeps, UnregisterKeeps, LeaveKeeps, CallKeeps DEF ExitNext
<1> QED  BY <1>1, ExitBegins, CalledInOrder, PTL

(***************************************************************************)
(* Texts formatted into the ring.                                          *)
(***************************************************************************)

Names == 1..(TemporarySize + 1)
Marks == (0..(TemporarySize + 1)) \X {"unit", "Nul"}
Texts ==
  [name : Names, at : 0..(TemporarySize - 1), size : 0..(TemporarySize - 1), since : 1..TemporarySize]

TemporaryTypeOK ==
  /\ tbuf \in [data : {"null", "live"}, offset : 0..TemporarySize, cleanup : BOOLEAN]
  /\ tcells \in [0..(TemporarySize - 1) -> Marks]
  /\ recent \subseteq Texts

\* The offset is where what was written since a text was begun ends, Nul included.
OffsetFollows(t) ==
  t.size < t.since /\ (t.at + t.since) % TemporarySize = tbuf.offset % TemporarySize

TemporaryInv ==
  /\ TemporaryTypeOK /\ TemporariesStay
  /\ \A t \in recent : OffsetFollows(t)
  /\ \A t, u \in recent : t.name = u.name => t = u

\* What is written behind a text within the size of the buffer is not where the text is.
LEMMA WritesElsewhere ==
  ASSUME NEW t \in Texts, OffsetFollows(t), tbuf.offset \in Nat,
         NEW j \in Nat, j <= t.size, NEW i \in Nat, t.since + i < TemporarySize
  PROVE  (tbuf.offset + i) % TemporarySize # (t.at + j) % TemporarySize
<1>1. TemporarySize \in Nat \ {0} /\ t.at \in Nat /\ t.since \in Nat /\ t.size \in Nat
  BY TemporaryAssumption DEF Texts
<1>2. t.size < t.since
  BY DEF OffsetFollows
<1>3. PICK e \in Int, c \in Int : e = t.at + t.since /\ c = t.at + j
  BY <1>1
<1>4. e + i - c < TemporarySize /\ c - (e + i) < TemporarySize /\ e + i # c
  BY <1>1, <1>2, <1>3
<1>5. tbuf.offset % TemporarySize = e % TemporarySize /\ tbuf.offset \in Int /\ i \in Int
  BY <1>3 DEF OffsetFollows
<1>6. (tbuf.offset + i) % TemporarySize # c % TemporarySize
  BY <1>1, <1>3, <1>4, <1>5, RemaindersApart
<1> QED  BY <1>3, <1>6

\* There is a name that no text has: each has a cell of its own.
LEMMA NameIsFree ==
  ASSUME TemporaryInv
  PROVE  Fresh \in Names /\ \A t \in recent : t.name # Fresh
<1>0. TemporarySize \in Nat \ {0}
  BY TemporaryAssumption
<1>1. SUFFICES ASSUME \A k \in Names : \E t \in recent : t.name = k PROVE FALSE
  BY DEF Fresh, Names
<1> DEFINE C == 0..(TemporarySize - 1)
<1> DEFINE f == [k \in Names |-> CHOOSE c \in C : tcells[c] = <<k, "Nul">>]
<1>2. ASSUME NEW k \in Names PROVE f[k] \in C /\ tcells[f[k]] = <<k, "Nul">>
  <2>1. PICK t \in recent : t.name = k
    BY <1>1
  <2>2. tcells[(t.at + t.size) % TemporarySize] = <<k, "Nul">> /\ t \in Texts
    BY <2>1 DEF TemporaryInv, TemporariesStay, Intact, TemporaryTypeOK
  <2>3. t.at + t.size \in Int
    BY <1>0, <2>2 DEF Texts
  <2>4. (t.at + t.size) % TemporarySize \in C
    BY <1>0, <2>3, ReducedRemainder
  <2> QED  BY <2>2, <2>4
<1>3. IsFiniteSet(C) /\ IsFiniteSet(Names) /\ Cardinality(C) = TemporarySize
      /\ Cardinality(Names) = TemporarySize + 1
  BY <1>0, FS_Interval DEF Names
<1>4. f \in [Names -> C]
  BY <1>2
<1> HIDE DEF f, C
<1>5. PICK x, y \in Names : x # y /\ f[x] = f[y]
  BY <1>0, <1>3, <1>4, FS_PigeonHole
<1>6. <<x, "Nul">> = <<y, "Nul">>
  BY <1>2, <1>5
<1> QED  BY <1>5, <1>6

\* A text that survives s units keeps its cells, as long as only those behind the
\* offset are written and texts of its name are looked at.
LEMMA SurvivorIntact ==
  ASSUME TemporaryInv, NEW t \in recent, NEW s \in Nat, StaysFor(t, s),
         NEW cells, DOMAIN cells = DOMAIN tcells,
         \A c \in DOMAIN tcells : cells[c] # tcells[c] =>
            \E i \in 0..(s - 1) : c = (tbuf.offset + i) % TemporarySize,
         NEW texts, \E u \in texts : u.name = t.name
  PROVE  /\ \A c \in CellsOf(t.at, t.size) : Settled(cells, texts)[c] = <<t.name, "unit">>
         /\ Settled(cells, texts)[(t.at + t.size) % TemporarySize] = <<t.name, "Nul">>
<1>1. /\ t \in Texts /\ OffsetFollows(t) /\ Intact(t) /\ tbuf.offset \in Nat
      /\ DOMAIN tcells = 0..(TemporarySize - 1) /\ TemporarySize \in Nat \ {0}
  BY TemporaryAssumption DEF TemporaryInv, TemporaryTypeOK, TemporariesStay
<1>2. ASSUME NEW j \in Nat, j <= t.size, NEW c, c = (t.at + j) % TemporarySize
      PROVE  c \in DOMAIN tcells /\ cells[c] = tcells[c]
  <2>1. t.at + j \in Int
    BY <1>1 DEF Texts
  <2>2. c \in 0..(TemporarySize - 1)
    BY <1>1, <1>2, <2>1, ReducedRemainder
  <2>3. ASSUME NEW i \in 0..(s - 1) PROVE c # (tbuf.offset + i) % TemporarySize
    <3>1. i \in Nat /\ t.since + i < TemporarySize
      BY <1>1 DEF StaysFor, Texts
    <3> QED  BY <1>1, <1>2, <3>1, WritesElsewhere
  <2> QED  BY <1>1, <2>2, <2>3
<1>3. ASSUME NEW c \in DOMAIN tcells, cells[c] = tcells[c], tcells[c][1] = t.name
      PROVE  Settled(cells, texts)[c] = tcells[c]
  BY <1>3 DEF Settled
<1>4. t.size \in Nat
  BY <1>1 DEF Texts
<1>5. ASSUME NEW c \in CellsOf(t.at, t.size) PROVE Settled(cells, texts)[c] = <<t.name, "unit">>
  <2>1. PICK j \in 0..(t.size - 1) : c = (t.at + j) % TemporarySize
    BY DEF CellsOf
  <2>2. c \in DOMAIN tcells /\ cells[c] = tcells[c]
    BY <1>2, <1>4, <2>1
  <2>3. tcells[c] = <<t.name, "unit">>
    BY <1>1 DEF Intact
  <2> QED  BY <1>3, <2>2, <2>3
<1>6. Settled(cells, texts)[(t.at + t.size) % TemporarySize] = <<t.name, "Nul">>
  <2>1. PICK c : c = (t.at + t.size) % TemporarySize
    OBVIOUS
  <2>2. c \in DOMAIN tcells /\ cells[c] = tcells[c]
    BY <1>2, <1>4, <2>1
  <2>3. tcells[c] = <<t.name, "Nul">>
    BY <1>1, <2>1 DEF Intact
  <2> QED  BY <1>3, <2>1, <2>2, <2>3
<1> QED  BY <1>5, <1>6

\* Where the offset comes to lie is behind what was written.
LEMMA AdvancedIs ==
  ASSUME NEW o \in 0..TemporarySize, NEW n \in 0..TemporarySize
  PROVE  /\ AdvanceOffset(o, n) \in 0..TemporarySize
         /\ AdvanceOffset(o, n) % TemporarySize = (o + n) % TemporarySize
<1>0. TemporarySize \in Nat \ {0}
  BY TemporaryAssumption
<1>1. PICK e \in Int : e = o + n
  BY <1>0
<1>2. (e - TemporarySize) % TemporarySize = e % TemporarySize
  BY <1>0, ReducedRemainder
<1>3. AdvanceOffset(o, n) = IF e > TemporarySize THEN e - TemporarySize ELSE e
  BY <1>1 DEF AdvanceOffset
<1> QED  BY <1>0, <1>1, <1>2, <1>3

LEMMA FormatKeeps ==
  ASSUME TemporaryInv, NEW n \in 0..(TemporarySize + 1), NEW fails \in BOOLEAN, TFormat(n, fails)
  PROVE  TemporaryInv'
<1>0. /\ TemporarySize \in Nat \ {0} /\ TemporaryTypeOK /\ ~tfault
      /\ \A t \in recent : t \in Texts /\ OffsetFollows(t)
  BY TemporaryAssumption DEF TemporaryInv, TemporariesStay, TemporaryTypeOK
<1>1. PICK w : w = IF n < UnitCount THEN n ELSE UnitCount
  OBVIOUS
<1>2. PICK s : s = IF fails THEN w ELSE w + 1
  OBVIOUS
<1>3. w \in 0..(TemporarySize - 1) /\ s \in Nat /\ s <= TemporarySize /\ (~fails => s = w + 1)
      /\ (fails => s = w)
  BY <1>0, <1>1, <1>2 DEF UnitCount
<1>4. PICK b : b = WithBuffer
  OBVIOUS
<1>5. PICK o \in 0..TemporarySize :
         /\ b \in [data : {"null", "live"}, offset : 0..TemporarySize, cleanup : BOOLEAN]
         /\ b.offset = o /\ tbuf.offset = o /\ b.cleanup
  BY <1>0, <1>4 DEF WithBuffer, TemporaryTypeOK, TemporaryInv, TemporariesStay
<1>6. PICK name \in Names : name = Fresh /\ \A t \in recent : t.name # name
  BY NameIsFree
<1>7. PICK text : text = [name |-> name, at |-> o % TemporarySize, size |-> w, since |-> w + 1]
  OBVIOUS
<1>8. PICK cells : cells = [c \in DOMAIN tcells |->
                  IF ~fails /\ c \in CellsOf(o + w, 1) THEN <<name, "Nul">>
                  ELSE IF c \in CellsOf(o, w) THEN <<name, "unit">>
                  ELSE tcells[c]]
  OBVIOUS
<1>9. PICK texts : texts = {[t EXCEPT !.since = @ + (IF fails THEN 0 ELSE s)] : t \in Surviving(s)}
                 \cup (IF fails THEN {} ELSE {text})
  OBVIOUS
<1>10. /\ tbuf' = IF fails THEN b ELSE [b EXCEPT !.offset = AdvanceOffset(o, w + 1)]
       /\ recent' = texts /\ tcells' = Settled(cells, texts)
       /\ tfault' = (tfault \/ o + s > 2 * TemporarySize)
  BY <1>1, <1>2, <1>4, <1>5, <1>6, <1>7, <1>8, <1>9 DEF TFormat
<1>11. text \in Texts /\ text.name = name /\ text.at = o % TemporarySize /\ text.size = w
       /\ text.since = w + 1
  <2>1. o \in Int
    BY <1>0
  <2>2. o % TemporarySize \in 0..(TemporarySize - 1)
    BY <1>0, <2>1, ReducedRemainder
  <2> QED  BY <1>0, <1>3, <1>7, <2>2 DEF Texts
\* A text is the new one or one that survives.
<1>12. ASSUME NEW u \in texts
       PROVE  \/ ~fails /\ u = text
              \/ \E t \in recent : /\ StaysFor(t, s) /\ u \in Texts
                                   /\ u.name = t.name /\ u.at = t.at /\ u.size = t.size
                                   /\ u.since = t.since + (IF fails THEN 0 ELSE s)
  <2>1. CASE u = text /\ ~fails
    BY <2>1
  <2>2. ASSUME NEW t \in Surviving(s), u = [t EXCEPT !.since = @ + (IF fails THEN 0 ELSE s)]
        PROVE  /\ t \in recent /\ StaysFor(t, s) /\ u \in Texts
               /\ u.name = t.name /\ u.at = t.at /\ u.size = t.size
               /\ u.since = t.since + (IF fails THEN 0 ELSE s)
    <3>1. t \in Texts /\ t \in recent /\ StaysFor(t, s)
      BY <1>0 DEF Surviving
    <3>2. t.since + (IF fails THEN 0 ELSE s) \in 1..TemporarySize
      BY <1>0, <1>3, <3>1 DEF Texts, StaysFor
    <3> QED  BY <2>2, <3>1, <3>2 DEF Texts
  <2>3. u \in {[t EXCEPT !.since = @ + (IF fails THEN 0 ELSE s)] : t \in Surviving(s)}
        \/ (u = text /\ ~fails)
    BY <1>9
  <2> QED  BY <2>1, <2>2, <2>3
<1>13. recent' \subseteq Texts
  BY <1>10, <1>11, <1>12
<1>14. tbuf' \in [data : {"null", "live"}, offset : 0..TemporarySize, cleanup : BOOLEAN] /\ tbuf'.cleanup
  <2>1. AdvanceOffset(o, w + 1) \in 0..TemporarySize
    <3>1. w + 1 \in 0..TemporarySize
      BY <1>0, <1>3
    <3> QED  BY <3>1, AdvancedIs
  <2> QED  BY <1>5, <1>10, <2>1
<1>15. \A c \in DOMAIN tcells : cells[c] \in Marks /\ (cells[c] # tcells[c] =>
          \E i \in 0..(s - 1) : c = (tbuf.offset + i) % TemporarySize)
  <2> TAKE c \in DOMAIN tcells
  <2>1. CASE ~fails /\ c \in CellsOf(o + w, 1)
    <3>1. c = (o + w + 0) % TemporarySize
      BY <2>1 DEF CellsOf
    <3>2. w \in 0..(s - 1) /\ o + w + 0 = tbuf.offset + w
      BY <1>0, <1>3, <1>5, <2>1
    <3> QED  BY <1>8, <2>1, <3>1, <3>2 DEF Marks, Names
  <2>2. CASE ~(~fails /\ c \in CellsOf(o + w, 1)) /\ c \in CellsOf(o, w)
    <3>1. PICK i \in 0..(w - 1) : c = (o + i) % TemporarySize
      BY <2>2 DEF CellsOf
    <3>2. i \in 0..(s - 1)
      BY <1>3
    <3> QED  BY <1>5, <1>8, <2>2, <3>1, <3>2 DEF Marks, Names
  <2>3. CASE ~(~fails /\ c \in CellsOf(o + w, 1)) /\ c \notin CellsOf(o, w)
    BY <1>0, <1>8, <2>3 DEF TemporaryTypeOK
  <2> QED  BY <2>1, <2>2, <2>3
<1>16. DOMAIN cells = DOMAIN tcells /\ DOMAIN tcells = 0..(TemporarySize - 1)
  BY <1>0, <1>8 DEF TemporaryTypeOK
<1>17. tcells' \in [0..(TemporarySize - 1) -> Marks]
  BY <1>0, <1>10, <1>15, <1>16 DEF Settled, Marks, Nobody
<1>18. ASSUME NEW u \in texts PROVE Intact(u)'
  <2>1. ASSUME NEW t \in recent, StaysFor(t, s), u.name = t.name, u.at = t.at, u.size = t.size
        PROVE  Intact(u)'
    <3>1. \E v \in texts : v.name = t.name
      BY <2>1
    <3>2. /\ \A c \in CellsOf(t.at, t.size) : Settled(cells, texts)[c] = <<t.name, "unit">>
          /\ Settled(cells, texts)[(t.at + t.size) % TemporarySize] = <<t.name, "Nul">>
      BY <1>3, <1>15, <1>16, <2>1, <3>1, SurvivorIntact
    <3> QED  BY <1>10, <2>1, <3>2 DEF Intact
  <2>2. CASE ~fails /\ u = text
    <3>0. o \in Nat /\ w \in Nat /\ text.at \in 0..(TemporarySize - 1)
          /\ text.at % TemporarySize = o % TemporarySize
      <4>0. o \in Int
        BY <1>0
      <4>1. (o % TemporarySize) % TemporarySize = o % TemporarySize
        BY <1>0, <4>0, ReducedRemainder
      <4> QED  BY <1>0, <1>3, <1>11, <4>1 DEF Texts
    <3>1. ASSUME NEW i \in 0..w
          PROVE  (text.at + i) % TemporarySize = (o + i) % TemporarySize
                 /\ (o + i) % TemporarySize \in DOMAIN tcells
      <4>1. o + i \in Int /\ i \in Int /\ text.at \in Int /\ o \in Int
        BY <3>0
      <4>2. (o + i) % TemporarySize \in DOMAIN tcells
        BY <1>0, <1>16, <4>1, ReducedRemainder
      <4> QED  BY <1>0, <3>0, <4>1, <4>2, ShiftedRemainder
    <3>2. ASSUME NEW c \in DOMAIN tcells, cells[c][1] = name PROVE tcells'[c] = cells[c]
      BY <1>10, <1>11, <1>16, <2>2, <3>2 DEF Settled
    <3>3. CellsOf(o + w, 1) = {(o + w) % TemporarySize}
      BY <3>0 DEF CellsOf
    <3>4. ASSUME NEW c \in CellsOf(text.at, w) PROVE tcells'[c] = <<name, "unit">>
      <4>1. PICK i \in 0..(w - 1) : c = (text.at + i) % TemporarySize
        BY DEF CellsOf
      <4>2. i \in 0..w /\ i \in Int /\ w \in Int /\ i < w
        BY <3>0
      <4>3. c = (o + i) % TemporarySize /\ c \in DOMAIN tcells /\ c \in CellsOf(o, w)
        BY <3>1, <4>1, <4>2 DEF CellsOf
      <4>4. (o + i) % TemporarySize # (o + w) % TemporarySize
        <5>1. PICK z \in Int : z = o + w
          BY <3>0
        <5>2. o + i - z < TemporarySize /\ z - (o + i) < TemporarySize /\ o + i # z /\ o \in Int
          BY <1>0, <1>3, <3>0, <4>2, <5>1
        <5>3. (o + i) % TemporarySize # z % TemporarySize
          BY <1>0, <4>2, <5>2, RemaindersApart
        <5> QED  BY <5>1, <5>3
      <4>5. cells[c] = <<name, "unit">>
        BY <1>8, <3>3, <4>3, <4>4
      <4> QED  BY <3>2, <4>3, <4>5
    <3>5. tcells'[(text.at + w) % TemporarySize] = <<name, "Nul">>
      <4>1. PICK c : c = (o + w) % TemporarySize
        OBVIOUS
      <4>2. c = (text.at + w) % TemporarySize /\ c \in DOMAIN tcells
        BY <3>0, <3>1, <4>1
      <4>3. cells[c] = <<name, "Nul">>
        BY <1>8, <2>2, <3>3, <4>1, <4>2
      <4> QED  BY <3>2, <4>2, <4>3
    <3> QED  BY <1>11, <2>2, <3>4, <3>5 DEF Intact
  <2> QED  BY <1>12, <2>1, <2>2
<1>19. ASSUME NEW u \in texts PROVE OffsetFollows(u)'
  <2>1. tbuf'.offset = IF fails THEN o ELSE AdvanceOffset(o, s)
    BY <1>3, <1>5, <1>10
  <2>2. AdvanceOffset(o, s) % TemporarySize = (o + s) % TemporarySize
    <3>1. s \in 0..TemporarySize
      BY <1>0, <1>3
    <3> QED  BY <3>1, AdvancedIs
  <2>3. o \in Int /\ s \in Int
    BY <1>3, <1>5
  <2>4. CASE ~fails /\ u = text
    <3>0. PICK a \in Int : a = text.at
      BY <1>0, <1>11 DEF Texts
    <3>1. a % TemporarySize = o % TemporarySize
      BY <1>0, <1>11, <2>3, <3>0, ReducedRemainder
    <3>2. (a + s) % TemporarySize = (o + s) % TemporarySize
      BY <1>0, <2>3, <3>1, ShiftedRemainder
    <3> QED  BY <1>3, <1>11, <2>1, <2>2, <2>4, <3>0, <3>2 DEF OffsetFollows
  <2>5. ASSUME NEW t \in recent, u.at = t.at, u.size = t.size,
               u.since = t.since + (IF fails THEN 0 ELSE s)
        PROVE  OffsetFollows(u)'
    <3>1. /\ t.size < t.since /\ (t.at + t.since) % TemporarySize = o % TemporarySize
          /\ t.at \in Int /\ t.size \in Int /\ t.since \in Int
      BY <1>0, <1>5 DEF OffsetFollows, Texts
    <3>2. PICK e \in Int : e = t.at + t.since
      BY <3>1
    <3>3. (e + s) % TemporarySize = (o + s) % TemporarySize
      <4>1. e % TemporarySize = o % TemporarySize
        BY <3>1, <3>2
      <4> QED  BY <1>0, <2>3, <4>1, ShiftedRemainder
    <3>4. CASE fails
      BY <2>1, <2>5, <3>1, <3>4 DEF OffsetFollows
    <3>5. CASE ~fails
      <4>1. u.at + u.since = e + s /\ u.size < u.since
        BY <1>3, <2>3, <2>5, <3>1, <3>2, <3>5
      <4> QED  BY <2>1, <2>2, <3>3, <3>5, <4>1 DEF OffsetFollows
    <3> QED  BY <3>4, <3>5
  <2> QED  BY <1>12, <2>4, <2>5
<1>20. ASSUME NEW u \in texts, NEW v \in texts, u.name = v.name PROVE u = v
  <2>1. ASSUME NEW x \in recent, x.name = name PROVE FALSE
    BY <1>6, <2>1
  <2>2. ASSUME NEW x \in recent, NEW y \in recent, x.name = y.name PROVE x = y
    BY <2>2 DEF TemporaryInv
  <2>3. CASE ~fails /\ (u = text \/ v = text)
    BY <1>11, <1>12, <1>20, <2>1, <2>3
  <2>4. CASE ~(~fails /\ (u = text \/ v = text))
    <3>1. PICK x \in recent, y \in recent :
             /\ u \in Texts /\ u.name = x.name /\ u.at = x.at /\ u.size = x.size
             /\ u.since = x.since + (IF fails THEN 0 ELSE s)
             /\ v \in Texts /\ v.name = y.name /\ v.at = y.at /\ v.size = y.size
             /\ v.since = y.since + (IF fails THEN 0 ELSE s)
      BY <1>12, <2>4
    <3>2. x = y
      BY <1>20, <2>2, <3>1
    <3> QED  BY <3>1, <3>2 DEF Texts
  <2> QED  BY <2>3, <2>4
<1>21. ~tfault'
  <2>1. ~(o + s > 2 * TemporarySize)
    BY <1>0, <1>3
  <2>2. tfault' = (tfault \/ o + s > 2 * TemporarySize)
    BY <1>10
  <2> QED  BY <1>0, <2>1, <2>2, Zenon
<1>22. recent' = texts
  BY <1>10
<1>23. TemporaryTypeOK'
  BY <1>13, <1>14, <1>17 DEF TemporaryTypeOK
<1>24. TemporariesStay'
  BY <1>14, <1>18, <1>21, <1>22 DEF TemporariesStay
<1>25. \A u, v \in recent' : u.name = v.name => u = v
  BY <1>20, <1>22
<1>26. \A u \in recent' : OffsetFollows(u)'
  BY <1>19, <1>22
<1> QED  BY <1>23, <1>24, <1>25, <1>26 DEF TemporaryInv

\* A text formatted with tformat, and its Nul, stay until more than the buffer holds has
\* been formatted, wherever the offset wraps and whatever failed meanwhile; nothing is
\* written outside the buffer, and a buffer that was made will be freed (format.hpp).
THEOREM TemporariesAlwaysStay ==
  TemporaryInit /\ [][TemporaryNext]_temporaryVars => []TemporariesStay
<1>1. TemporaryInit => TemporaryInv
  <2> SUFFICES ASSUME TemporaryInit PROVE TemporaryInv
    OBVIOUS
  <2>1. TemporaryTypeOK
    BY TemporaryAssumption
       DEF TemporaryInit, TemporaryTypeOK, NoCells, Nobody, Marks
  <2> QED  BY <2>1 DEF TemporaryInit, TemporaryInv, TemporariesStay
<1>2. TemporaryInv /\ [TemporaryNext]_temporaryVars => TemporaryInv'
  <2> SUFFICES ASSUME TemporaryInv, [TemporaryNext]_temporaryVars PROVE TemporaryInv'
    OBVIOUS
  <2>1. CASE UNCHANGED temporaryVars
    BY <2>1 DEF temporaryVars, TemporaryInv, TemporaryTypeOK, TemporariesStay, Intact, OffsetFollows
  <2>2. CASE FormatBufferCleanup
    <3>1. tcells' \in [0..(TemporarySize - 1) -> Marks]
      BY <2>2, TemporaryAssumption DEF FormatBufferCleanup, NoCells, Nobody, Marks
    <3> QED  BY <2>2, <3>1, TemporaryAssumption
             DEF FormatBufferCleanup, TemporaryInv, TemporaryTypeOK, TemporariesStay
  <2>3. CASE TFormatWithoutBuffer
    BY <2>1, <2>3 DEF TFormatWithoutBuffer
  <2> QED  BY <2>1, <2>2, <2>3, FormatKeeps DEF TemporaryNext
<1>3. TemporaryInv => TemporariesStay
  BY DEF TemporaryInv
<1> QED  BY <1>1, <1>2, <1>3, PTL

(***************************************************************************)
(* The ring buffer.                                                        *)
(***************************************************************************)

Makings ==
  [at : {"idle", "reserve", "map"}, op : {"init", "resize"}, data : Int, size : Nat,
   times : Nat, window : Nat, tries : Nat, object : 0..2]

Pages == {<<f, k>> : f \in Files, k \in 0..(RingMax - 1)} \cup {Nowhere, Reserved}

RingTypeOK ==
  /\ space \in [AddressSpace -> Pages]
  /\ objects \in [Files -> [0..(RingMax - 1) -> RingValues \cup {Empty}]]
  /\ ring \in [data : Int, size : Nat, times : Nat]
  /\ making \in Makings

\* The k addresses from d on, and no others, map the object, which repeats after n.
Maps(f, d, n, k) ==
  /\ d \in Nat /\ k \in Nat /\ d + k <= Addresses
  /\ \A a \in AddressSpace : IF a \in Run(d, k) THEN space[a] = <<f, (a - d) % n>>
                                                ELSE space[a][1] # f

\* Object f holds the buffer, 0 if there is none.
RingHolds(f) ==
  IF ring.data = -1 THEN f = 0
  ELSE /\ f \in Files /\ ring.size \in 1..RingMax /\ ring.times \in 1..TimesMax
       /\ Maps(f, ring.data, ring.size, ring.size * ring.times)

\* An init keeps to an object of its own, and to addresses nothing else maps.
RingMakes(f) ==
  /\ making.at # "idle" =>
       /\ making.object \in Files /\ making.object # f
       /\ making.size \in 1..RingMax /\ making.times \in 1..TimesMax
       /\ (making.op = "init" <=> ring.data = -1)
       /\ making.tries <= MapFailures
  /\ making.at = "map" =>
       /\ making.window <= making.times
       /\ Maps(making.object, making.data, making.size, making.size * making.window)
       /\ making.data + making.size * making.times <= Addresses
       /\ \A a \in Run(making.data, making.size * making.times) :
            space[a][1] \in {0, making.object}

\* Other objects are mapped nowhere, and those that do not hold the buffer are blank.
Elsewhere(f) ==
  \A g \in Files : g # f =>
    /\ \A k \in 0..(RingMax - 1) : objects[g][k] = Empty
    /\ (making.at = "map" => g # making.object) => \A a \in AddressSpace : space[a][1] # g

RingOf(f) == RingHolds(f) /\ RingMakes(f) /\ Elsewhere(f)

RingInv == RingTypeOK /\ \E f \in 0..2 : RingOf(f)

\* A step that the program cannot tell, or one that is what the header says.
CyclicStep == Cyclic!Next \/ UNCHANGED <<RingCells, ring.size, ringCall>>

LEMMA RingBounds ==
  Addresses \in Nat /\ RingMax \in Nat /\ TimesMax \in Nat /\ RetryCount \in Nat /\ MapFailures \in Nat
  BY RingAssumption

\* The next window lies within the buffer.
LEMMA WindowFits ==
  ASSUME NEW n \in Nat, NEW w \in Nat, NEW t \in Nat, w < t
  PROVE  n * w \in Nat /\ n * t \in Nat /\ n * (w + 1) = n * w + n /\ n * w + n <= n * t
<1>1. PICK q \in Nat : t = w + 1 + q
  <2>1. t - w - 1 \in Nat /\ t = w + 1 + (t - w - 1)
    OBVIOUS
  <2> QED  BY <2>1
<1>2. n * q \in Nat /\ n * w \in Nat
  OBVIOUS
<1>3. n * (w + 1) = n * w + n
  OBVIOUS
<1>4. n * t = n * w + n + n * q
  BY <1>1
<1> QED  BY <1>2, <1>3, <1>4

LEMMA SizeFits ==
  ASSUME NEW n \in Nat \ {0}, NEW t \in Nat \ {0}
  PROVE  n * t \in Nat /\ n <= n * t
<1>1. n * 0 + n <= n * t /\ n * t \in Nat
  BY WindowFits
<1> QED  BY <1>1

LEMMA RunIs ==
  ASSUME NEW d \in Nat, NEW k \in Nat, d + k <= Addresses
  PROVE  /\ Run(d, k) = {a \in AddressSpace : d <= a /\ a < d + k}
         /\ Run(d, k) \subseteq AddressSpace
         /\ \A i \in 1..k : d + i - 1 \in Run(d, k)
  BY RingBounds DEF Run, AddressSpace

CellsFrom(s, os, d, k) ==
  [i \in 1..k |-> LET page == s[d + i - 1]
                  IN  IF page[1] = 0 THEN NotMapped ELSE os[page[1]][page[2]]]

Cycles(s, f, d, n, k) == \A a \in Run(d, k) : s[a] = <<f, (a - d) % n>>

Repeating(c, n, k) == [i \in 1..k |-> c[(i - 1) % n]]

\* What is read at each index, where the addresses map one object over and over.
LEMMA CellsAre ==
  ASSUME NEW s, NEW os, NEW d \in Nat, NEW n \in Nat \ {0}, NEW k \in Nat, d + k <= Addresses,
         NEW f \in Files, Cycles(s, f, d, n, k)
  PROVE  CellsFrom(s, os, d, k) = Repeating(os[f], n, k)
<1>1. f # 0
  BY DEF Files
<1>2. ASSUME NEW i \in 1..k
      PROVE  (LET page == s[d + i - 1]
              IN  IF page[1] = 0 THEN NotMapped ELSE os[page[1]][page[2]]) = os[f][(i - 1) % n]
  <2>1. PICK a : a = d + i - 1
    OBVIOUS
  <2>2. a \in Run(d, k) /\ a - d = i - 1
    <3>1. a \in Run(d, k)
      BY <2>1 DEF Run
    <3>2. i \in Int
      OBVIOUS
    <3> QED  BY <2>1, <3>1, <3>2
  <2>3. s[a] = <<f, (i - 1) % n>>
    BY <2>2 DEF Cycles
  <2> QED  BY <1>1, <2>1, <2>3
<1> QED  BY <1>2 DEF CellsFrom, Repeating

LEMMA HeldCells ==
  ASSUME NEW f, RingHolds(f), ring.data # -1
  PROVE  RingCells = Repeating(objects[f], ring.size, ring.size * ring.times)
<1>1. /\ f \in Files /\ ring.data \in Nat /\ ring.size \in Nat \ {0}
      /\ ring.size * ring.times \in Nat /\ ring.data + ring.size * ring.times <= Addresses
      /\ \A a \in Run(ring.data, ring.size * ring.times) :
           space[a] = <<f, (a - ring.data) % ring.size>>
  <2>1. ring.size \in Nat \ {0} /\ Maps(f, ring.data, ring.size, ring.size * ring.times)
    BY RingBounds DEF RingHolds
  <2> QED  BY <2>1, RunIs DEF RingHolds, Maps
<1>2. PICK s : s = space
  OBVIOUS
<1>3. PICK os : os = objects
  OBVIOUS
<1>4. PICK d : d = ring.data
  OBVIOUS
<1>5. PICK n : n = ring.size
  OBVIOUS
<1>6. PICK k : k = ring.size * ring.times
  OBVIOUS
<1>7. CellsFrom(s, os, d, k) = Repeating(os[f], n, k)
  <2>1. d \in Nat /\ n \in Nat \ {0} /\ k \in Nat /\ d + k <= Addresses /\ f \in Files
    BY <1>1, <1>4, <1>5, <1>6
  <2>2. Cycles(s, f, d, n, k)
    BY <1>1, <1>2, <1>4, <1>5, <1>6 DEF Cycles
  <2> QED  BY <2>1, <2>2, CellsAre
<1> QED  BY <1>2, <1>3, <1>4, <1>5, <1>6, <1>7 DEF RingCells, CellsFrom

LEMMA HeldCellsNext ==
  ASSUME NEW f, RingHolds(f)', ring'.data # -1
  PROVE  RingCells' = Repeating(objects'[f], ring'.size, ring'.size * ring'.times)
<1>1. /\ f \in Files /\ ring'.data \in Nat /\ ring'.size \in Nat \ {0}
      /\ ring'.size * ring'.times \in Nat /\ ring'.data + ring'.size * ring'.times <= Addresses
      /\ \A a \in Run(ring'.data, ring'.size * ring'.times) :
           space'[a] = <<f, (a - ring'.data) % ring'.size>>
  <2>1. ring'.size \in Nat \ {0} /\ Maps(f, ring.data, ring.size, ring.size * ring.times)'
    BY RingBounds DEF RingHolds
  <2> QED  BY <2>1, RunIs DEF RingHolds, Maps
<1>2. PICK s : s = space'
  OBVIOUS
<1>3. PICK os : os = objects'
  OBVIOUS
<1>4. PICK d : d = ring'.data
  OBVIOUS
<1>5. PICK n : n = ring'.size
  OBVIOUS
<1>6. PICK k : k = ring'.size * ring'.times
  OBVIOUS
<1>7. CellsFrom(s, os, d, k) = Repeating(os[f], n, k)
  <2>1. d \in Nat /\ n \in Nat \ {0} /\ k \in Nat /\ d + k <= Addresses /\ f \in Files
    BY <1>1, <1>4, <1>5, <1>6
  <2>2. Cycles(s, f, d, n, k)
    BY <1>1, <1>2, <1>4, <1>5, <1>6 DEF Cycles
  <2> QED  BY <2>1, <2>2, CellsAre
<1> QED  BY <1>2, <1>3, <1>4, <1>5, <1>6, <1>7 DEF RingCells, CellsFrom

\* A step that only maps and unmaps elsewhere leaves the buffer, and what is read in it.
LEMMA BufferStays ==
  ASSUME NEW f \in 0..2, RingHolds(f), ring' = ring, objects' = objects,
         \A a \in AddressSpace : f \in Files =>
           IF space[a][1] = f THEN space'[a] = space[a] ELSE space'[a][1] # f
  PROVE  RingHolds(f)' /\ RingCells' = RingCells
<1>1. CASE ring.data = -1
  BY <1>1 DEF RingHolds, RingCells
<1>2. CASE ring.data # -1
  <2>1. /\ f \in Files /\ ring.size \in 1..RingMax /\ ring.times \in 1..TimesMax
        /\ Maps(f, ring.data, ring.size, ring.size * ring.times)
    BY <1>2 DEF RingHolds
  <2>2. \A a \in AddressSpace :
          IF a \in Run(ring.data, ring.size * ring.times)
          THEN space[a] = <<f, (a - ring.data) % ring.size>> ELSE space[a][1] # f
    BY <2>1 DEF Maps
  <2>3. ASSUME NEW a \in AddressSpace
        PROVE  IF a \in Run(ring.data, ring.size * ring.times)
               THEN space'[a] = <<f, (a - ring.data) % ring.size>> ELSE space'[a][1] # f
    <3>1. CASE a \in Run(ring.data, ring.size * ring.times)
      <4>1. space[a] = <<f, (a - ring.data) % ring.size>>
        BY <2>2, <3>1
      <4>2. space[a][1] = f
        BY <4>1
      <4> QED  BY <2>1, <3>1, <4>1, <4>2
    <3>2. CASE a \notin Run(ring.data, ring.size * ring.times)
      BY <2>1, <2>2, <3>2
    <3> QED  BY <3>1, <3>2
  <2>4. Maps(f, ring.data, ring.size, ring.size * ring.times)'
    BY <2>1, <2>3 DEF Maps
  <2>5. RingHolds(f)'
    BY <2>1, <2>4 DEF RingHolds
  <2>6. /\ RingCells = Repeating(objects[f], ring.size, ring.size * ring.times)
        /\ RingCells' = Repeating(objects'[f], ring'.size, ring'.size * ring'.times)
    BY <1>2, <2>5, HeldCells, HeldCellsNext
  <2> QED  BY <2>5, <2>6
<1> QED  BY <1>1, <1>2

LEMMA FirstAddress ==
  ASSUME NEW f \in 0..2, RingHolds(f), f # 0 \/ ring.data # -1
  PROVE  /\ f \in Files /\ ring.data # -1 /\ ring.data \in AddressSpace
         /\ OfRing(ring.data) /\ space[ring.data][1] = f
<1>1. /\ f \in Files /\ ring.data # -1 /\ ring.size \in Nat \ {0} /\ ring.times \in Nat \ {0}
      /\ Maps(f, ring.data, ring.size, ring.size * ring.times)
  BY RingBounds DEF RingHolds
<1>2. PICK k : k = ring.size * ring.times
  OBVIOUS
<1>3. k \in Nat /\ 1 <= k
  BY <1>1, <1>2, SizeFits
<1>4. ring.data \in Nat /\ ring.data + k <= Addresses
  BY <1>1, <1>2 DEF Maps
<1>5. ring.data \in Run(ring.data, k) /\ ring.data \in AddressSpace
  BY <1>3, <1>4, RingBounds DEF Run, AddressSpace
<1>6. space[ring.data] = <<f, (ring.data - ring.data) % ring.size>>
  BY <1>1, <1>2, <1>5 DEF Maps
<1> QED  BY <1>1, <1>2, <1>5, <1>6 DEF OfRing

\* The addresses of the buffer are those that map its object.
LEMMA OfRingIs ==
  ASSUME NEW f \in 0..2, RingHolds(f), NEW a \in AddressSpace
  PROVE  OfRing(a) <=> f \in Files /\ space[a][1] = f
<1>1. CASE ring.data = -1
  BY <1>1 DEF RingHolds, OfRing, Files
<1>2. CASE ring.data # -1
  <2>1. f \in Files /\ Maps(f, ring.data, ring.size, ring.size * ring.times)
    BY <1>2 DEF RingHolds
  <2>2. CASE a \in Run(ring.data, ring.size * ring.times)
    <3>1. space[a] = <<f, (a - ring.data) % ring.size>>
      BY <2>1, <2>2 DEF Maps
    <3> QED  BY <1>2, <2>1, <2>2, <3>1 DEF OfRing
  <2>3. CASE a \notin Run(ring.data, ring.size * ring.times)
    <3>1. space[a][1] # f
      BY <2>1, <2>3 DEF Maps
    <3> QED  BY <2>3, <3>1 DEF OfRing
  <2> QED  BY <2>2, <2>3
<1> QED  BY <1>1, <1>2

\* What is numbered from one is what is numbered from zero.
ShiftedTo(d, c, n) == \A k \in 0..(n - 1) : d[k + 1] = c[k]

\* Cells that repeat what an object holds.
LEMMA RepeatIs ==
  ASSUME NEW d, NEW c, NEW n \in Nat \ {0}, NEW t \in Nat, ShiftedTo(d, c, n)
  PROVE  Cyclic!Repeat(d, n, t) = Repeating(c, n, n * t)
<1>1. ASSUME NEW i \in 1..(n * t)
      PROVE  d[((i - 1) % n) + 1] = c[(i - 1) % n]
  <2>1. i - 1 \in Int
    OBVIOUS
  <2>2. PICK k : k = (i - 1) % n
    OBVIOUS
  <2>3. k \in 0..(n - 1)
    BY <2>1, <2>2
  <2> QED  BY <2>2, <2>3 DEF ShiftedTo
<1> QED  BY <1>1 DEF Cyclic!Repeat, Repeating

\* The first repetition is what the object holds.
LEMMA FirstCells ==
  ASSUME NEW c, NEW n \in Nat \ {0}, NEW t \in Nat \ {0}, NEW k \in 0..(n - 1)
  PROVE  Repeating(c, n, n * t)[k + 1] = c[k]
<1>1. PICK m : m = n * t
  OBVIOUS
<1>2. m \in Nat /\ n <= m
  BY <1>1, SizeFits
<1>3. k + 1 \in 1..m /\ (k + 1) - 1 = k
  BY <1>2
<1>4. k % n = k
  OBVIOUS
<1>5. Repeating(c, n, m)[k + 1] = c[((k + 1) - 1) % n]
  BY <1>3 DEF Repeating
<1> QED  BY <1>1, <1>3, <1>4, <1>5

LEMMA RingBeginKeeps ==
  ASSUME RingTypeOK, NEW f \in 0..2, RingOf(f),
         NEW op \in {"init", "resize"}, NEW n \in 1..RingMax, NEW times \in 1..TimesMax,
         RingBegin(op, n, times)
  PROVE  RingInv' /\ CyclicStep
<1>1. /\ making = Idle /\ (op = "init" <=> ring.data = -1)
      /\ space' = space /\ ring' = ring /\ objects' = objects
  BY DEF RingBegin
<1>2. RingHolds(f)' /\ RingCells' = RingCells
  BY <1>1, BufferStays DEF RingOf
<1>3. \A g \in Files : g # f => /\ \A k \in 0..(RingMax - 1) : objects'[g][k] = Empty
                                /\ \A a \in AddressSpace : space'[a][1] # g
  BY <1>1 DEF RingOf, Elsewhere, Idle
<1>4. CASE op = "resize" /\ n = ring.size /\ times = ring.times
  <2>1. Answer(op, n, times, TRUE) /\ making' = making
    BY <1>4 DEF RingBegin
  <2>2. RingInv'
    <3>1. RingTypeOK'
      BY <1>1, <2>1 DEF RingTypeOK
    <3>2. RingMakes(f)' /\ Elsewhere(f)'
      BY <1>1, <1>3, <2>1 DEF RingMakes, Elsewhere, Idle
    <3> QED  BY <1>2, <3>1, <3>2 DEF RingInv, RingOf
  <2>3. n \in Nat \ {0} /\ times \in Nat \ {0} /\ ring.data # -1
    BY <1>1, <1>4, RingBounds
  <2>4. RingCells = Repeating(objects[f], n, n * times)
    BY <1>4, <2>3, HeldCells DEF RingOf
  <2>5. PICK d : d = [i \in 1..n |-> IF i <= n THEN RingCells[i] ELSE Empty]
    OBVIOUS
  <2>6. ASSUME NEW k \in 0..(n - 1) PROVE d[k + 1] = objects[f][k]
    <3>1. k + 1 \in 1..n /\ k + 1 <= n
      BY <2>3
    <3>2. d[k + 1] = RingCells[k + 1]
      BY <2>5, <3>1
    <3> QED  BY <2>3, <2>4, <3>2, FirstCells
  <2>7. Cyclic!Repeat(d, n, times) = RingCells
    <3>1. PICK c : c = objects[f]
      OBVIOUS
    <3>2. ShiftedTo(d, c, n)
      BY <2>6, <3>1 DEF ShiftedTo
    <3>3. times \in Nat
      BY <2>3
    <3>4. Cyclic!Repeat(d, n, times) = Repeating(c, n, n * times)
      BY <2>3, <3>2, <3>3, RepeatIs
    <3> QED  BY <2>4, <3>1, <3>4
  <2>8. Cyclic!Resize
    <3>1. ringCall'.op = "resize" /\ ringCall'.n = n /\ ringCall'.times = times /\ ringCall'.ret = TRUE
      BY <1>4, <2>1 DEF Answer
    <3>2. ring'.size = n /\ ring.size = n
      BY <1>1, <1>4
    <3> QED  BY <1>2, <2>5, <2>7, <3>1, <3>2 DEF Cyclic!Resize, Cyclic!Answered
  <2> QED  BY <2>2, <2>8 DEF CyclicStep, Cyclic!Next
<1>5. CASE Answer(op, n, times, FALSE) /\ making' = making
  <2>1. RingTypeOK'
    BY <1>1, <1>5 DEF RingTypeOK
  <2>2. RingMakes(f)' /\ Elsewhere(f)'
    BY <1>1, <1>3, <1>5 DEF RingMakes, Elsewhere, Idle
  <2>3. Cyclic!Fail
    BY <1>2, <1>5 DEF Cyclic!Fail, Answer
  <2> QED  BY <1>2, <2>1, <2>2, <2>3 DEF RingInv, RingOf, CyclicStep, Cyclic!Next
<1>6. CASE ~(op = "resize" /\ n = ring.size /\ times = ring.times)
             /\ ~(Answer(op, n, times, FALSE) /\ making' = making)
  <2>1. PICK o \in Files :
          /\ ~Mapped(o) /\ ringCall' = ringCall
          /\ making' = [Idle EXCEPT !.at = "reserve", !.op = op, !.size = n, !.times = times,
                                    !.object = o]
    BY <1>6 DEF RingBegin
  <2>2. /\ making' \in Makings /\ making'.at = "reserve" /\ making'.op = op /\ making'.size = n
        /\ making'.times = times /\ making'.tries = 0 /\ making'.object = o
    <3>1. making' = [at |-> "reserve", op |-> op, data |-> -1, size |-> n, times |-> times,
                     window |-> 0, tries |-> 0, object |-> o]
      BY <2>1 DEF Idle
    <3>2. n \in Nat /\ times \in Nat
      BY RingBounds
    <3>3. o \in 0..2
      BY DEF Files
    <3> QED  BY <3>1, <3>2, <3>3 DEF Makings
  <2>3. o # f
    BY <2>1, FirstAddress DEF Mapped, RingOf, Files
  <2>4. RingTypeOK'
    BY <1>1, <2>2 DEF RingTypeOK
  <2>5. RingMakes(f)'
    BY <1>1, <2>2, <2>3, RingBounds DEF RingMakes
  <2>6. Elsewhere(f)'
    BY <1>3 DEF Elsewhere
  <2>7. CyclicStep
    BY <1>1, <1>2, <2>1 DEF CyclicStep
  <2> QED  BY <1>2, <2>4, <2>5, <2>6, <2>7 DEF RingInv, RingOf
<1> QED  BY <1>4, <1>5, <1>6

LEMMA RingReserveKeeps ==
  ASSUME RingTypeOK, NEW f \in 0..2, RingOf(f), RingReserve
  PROVE  RingInv' /\ CyclicStep
<1>1. /\ making.at = "reserve" /\ objects' = objects /\ ring' = ring /\ making \in Makings
      /\ making.object \in Files /\ making.object # f
      /\ making.size \in Nat \ {0} /\ making.times \in Nat \ {0}
  BY RingBounds DEF RingReserve, RingTypeOK, RingOf, RingMakes
<1>2. PICK total : total = making.size * making.times
  OBVIOUS
<1>3. total \in Nat
  BY <1>1, <1>2, SizeFits
<1> DEFINE free == {a \in AddressSpace : a + total <= Addresses
                                 /\ \A b \in Run(a, total) : space[b] = Nowhere}
<1>4. \A g \in Files : g # f => /\ \A k \in 0..(RingMax - 1) : objects[g][k] = Empty
                                /\ \A a \in AddressSpace : space[a][1] # g
  BY <1>1 DEF RingOf, Elsewhere
<1>5. CASE free = {}
  <2>1. /\ making' = Idle /\ Answer(making.op, making.size, making.times, FALSE)
        /\ space' = space
    BY <1>2, <1>5 DEF RingReserve, RingFails
  <2>2. RingHolds(f)' /\ RingCells' = RingCells
    BY <1>1, <2>1, BufferStays DEF RingOf
  <2>3. RingTypeOK'
    BY <1>1, <2>1 DEF RingTypeOK, Idle, Makings
  <2>4. RingMakes(f)' /\ Elsewhere(f)'
    BY <1>1, <1>4, <2>1 DEF RingMakes, Elsewhere, Idle
  <2>5. Cyclic!Fail
    BY <1>1, <2>1, <2>2 DEF Cyclic!Fail, Answer, Makings
  <2> QED  BY <2>2, <2>3, <2>4, <2>5 DEF RingInv, RingOf, CyclicStep, Cyclic!Next
<1>6. CASE free # {}
  <2>1. PICK first : first = CHOOSE a \in free : \A b \in free : a <= b
    OBVIOUS
  <2>2. first \in free
    <3>1. free \in SUBSET Nat
      BY DEF AddressSpace
    <3>2. \E a \in free : \A b \in free : a <= b
      BY <1>6, <3>1, LeastExists
    <3> QED  BY <2>1, <3>2
  <2>3. /\ space' = [b \in AddressSpace |-> IF b \in Run(first, total) THEN Reserved ELSE space[b]]
        /\ making' = [making EXCEPT !.at = "map", !.data = first, !.window = 0]
        /\ ringCall' = ringCall
    BY <1>2, <1>6, <2>1 DEF RingReserve
  <2>4. /\ first \in AddressSpace /\ first \in Nat /\ first + total <= Addresses
        /\ \A b \in Run(first, total) : space[b] = Nowhere
    BY <2>2 DEF AddressSpace
  <2> HIDE DEF free
  <2>5. /\ making' \in Makings /\ making'.at = "map" /\ making'.op = making.op
        /\ making'.size = making.size /\ making'.times = making.times /\ making'.window = 0
        /\ making'.tries = making.tries /\ making'.object = making.object
        /\ making'.data = first
    <3>1. first \in Int
      BY <2>4
    <3>2. making' = [making EXCEPT !.at = "map", !.data = first, !.window = 0]
      BY <2>3
    <3> QED  BY <1>1, <3>1, <3>2 DEF Makings
  <2>6. /\ space \in [AddressSpace -> Pages] /\ Reserved[1] = 0 /\ Nowhere[1] = 0
        /\ Reserved \in Pages
    BY DEF RingTypeOK, Reserved, Nowhere, Pages
  <2>7. \A a \in AddressSpace : space'[a] = IF a \in Run(first, total) THEN Reserved ELSE space[a]
    BY <2>3
  <2>8. RingTypeOK'
    BY <1>1, <2>3, <2>5, <2>6 DEF RingTypeOK
  <2>9. RingHolds(f)' /\ RingCells' = RingCells
    <3>1. ASSUME NEW a \in AddressSpace, f \in Files
          PROVE  IF space[a][1] = f THEN space'[a] = space[a] ELSE space'[a][1] # f
      <4>1. f # 0
        BY <3>1 DEF Files
      <4> QED  BY <2>4, <2>6, <2>7, <4>1
    <3> QED  BY <1>1, <3>1, BufferStays DEF RingOf
  <2>10. \A g \in Files : \A a \in AddressSpace : space[a][1] # g => space'[a][1] # g
    BY <2>6, <2>7 DEF Files
  <2>11. RingMakes(f)'
    <3>1. Maps(making.object, first, making.size, 0)'
      <4>1. Run(first, 0) = {}
        BY <2>4 DEF Run
      <4>2. first + 0 <= Addresses
        BY <1>3, <2>4, RingBounds
      <4> QED  BY <1>1, <1>4, <2>4, <2>10, <2>5, <4>1, <4>2 DEF Maps
    <3>2. making.size * 0 = 0
      BY <1>1
    <3>3. \A a \in Run(first, total) : space'[a][1] = 0
      <4>1. Run(first, total) \subseteq AddressSpace
        BY <1>3, <2>4, RunIs
      <4> QED  BY <2>6, <2>7, <4>1
    <3>4. /\ making'.object \in Files /\ making'.object # f
          /\ making'.size \in 1..RingMax /\ making'.times \in 1..TimesMax
          /\ (making'.op = "init" <=> ring'.data = -1) /\ making'.tries <= MapFailures
      BY <1>1, <2>5 DEF RingOf, RingMakes
    <3>5. Maps(making.object, making.data, making.size, making.size * making.window)'
      BY <2>5, <3>1, <3>2
    <3> QED  BY <1>1, <1>2, <2>4, <2>5, <3>3, <3>4, <3>5 DEF RingMakes
  <2>12. Elsewhere(f)'
    BY <1>1, <1>4, <2>10 DEF Elsewhere
  <2>13. CyclicStep
    BY <1>1, <2>3, <2>9 DEF CyclicStep
  <2> QED  BY <2>8, <2>9, <2>11, <2>12, <2>13 DEF RingInv, RingOf
<1> QED  BY <1>5, <1>6

\* What the init that maps windows knows.
LEMMA MakingIs ==
  ASSUME RingTypeOK, NEW f \in 0..2, RingOf(f), making.at = "map"
  PROVE  /\ making \in Makings /\ making.object \in Files /\ making.object # f
         /\ making.size \in Nat \ {0} /\ making.times \in Nat \ {0} /\ making.window \in Nat
         /\ making.data \in Nat /\ making.size * making.times \in Nat
         /\ making.size <= RingMax /\ making.tries \in Nat
         /\ making.data + making.size * making.times <= Addresses
         /\ \A g \in Files : g # f => /\ \A k \in 0..(RingMax - 1) : objects[g][k] = Empty
                                      /\ g # making.object => \A a \in AddressSpace : space[a][1] # g
<1>1. /\ making.size \in Nat \ {0} /\ making.times \in Nat \ {0} /\ making.size <= RingMax
  BY RingBounds DEF RingOf, RingMakes
<1> QED  BY <1>1, SizeFits DEF RingTypeOK, Makings, RingOf, RingMakes, Maps, Elsewhere

LEMMA RingMapKeeps ==
  ASSUME RingTypeOK, NEW f \in 0..2, RingOf(f), RingMap
  PROVE  RingInv' /\ CyclicStep
<1>1. /\ making.at = "map" /\ objects' = objects /\ ring' = ring /\ ringCall' = ringCall
      /\ making.window < making.times
  BY DEF RingMap
<1>2. PICK d : d = making.data
  OBVIOUS
<1>3. PICK n : n = making.size
  OBVIOUS
<1>4. PICK w : w = making.window
  OBVIOUS
<1>5. PICK t : t = making.times
  OBVIOUS
<1>6. PICK o : o = making.object
  OBVIOUS
<1>7. /\ making \in Makings /\ o \in Files /\ o # f /\ n \in Nat \ {0} /\ t \in Nat \ {0}
      /\ w \in Nat /\ d \in Nat /\ n * t \in Nat /\ n <= RingMax /\ d + n * t <= Addresses /\ w < t
      /\ \A g \in Files : g # f => /\ \A k \in 0..(RingMax - 1) : objects[g][k] = Empty
                                   /\ g # o => \A a \in AddressSpace : space[a][1] # g
  BY <1>1, <1>2, <1>3, <1>4, <1>5, <1>6, MakingIs
<1>8. /\ Maps(o, d, n, n * w) /\ \A a \in Run(d, n * t) : space[a][1] \in {0, o}
  BY <1>1, <1>2, <1>3, <1>4, <1>5, <1>6 DEF RingOf, RingMakes
<1>9. PICK k : k = n * w
  OBVIOUS
<1>10. PICK total : total = n * t
  OBVIOUS
<1>11. k \in Nat /\ total \in Nat /\ n * (w + 1) = k + n /\ k + n <= total /\ d + total <= Addresses
       /\ w * n = k
  BY <1>7, <1>9, <1>10, WindowFits
<1>12. /\ space' = [a \in AddressSpace |-> IF a \in Window(d, n, w)
                                            THEN <<o, (a - d) % n>> ELSE space[a]]
       /\ making' = [making EXCEPT !.window = w + 1]
  BY <1>2, <1>3, <1>4, <1>6 DEF RingMap
<1>13. Window(d, n, w) = Run(d + k, n)
  BY <1>11 DEF Window
<1>14. /\ Run(d, k + n) \subseteq Run(d, total) /\ Run(d, total) \subseteq AddressSpace
       /\ Run(d + k, n) \subseteq Run(d, k + n)
       /\ \A a \in AddressSpace : a \in Run(d, k + n) /\ a \notin Run(d + k, n) => a \in Run(d, k)
       /\ \A a \in AddressSpace : a \in Run(d, k) => a \in Run(d, k + n) /\ a \notin Run(d + k, n)
  BY <1>7, <1>11, RingBounds DEF Run, AddressSpace
<1>15. \A a \in AddressSpace :
         space'[a] = IF a \in Run(d + k, n) THEN <<o, (a - d) % n>> ELSE space[a]
  BY <1>12, <1>13
<1>16. space \in [AddressSpace -> Pages]
  BY DEF RingTypeOK
<1>17. /\ making' \in Makings /\ making'.at = "map" /\ making'.op = making.op
       /\ making'.size = n /\ making'.times = t /\ making'.window = w + 1
       /\ making'.tries = making.tries /\ making'.object = o /\ making'.data = d
  <2>1. w + 1 \in Nat
    BY <1>7
  <2> QED  BY <1>2, <1>3, <1>5, <1>6, <1>7, <1>1, <1>12, <2>1 DEF Makings
<1>18. RingTypeOK'
  <2>1. ASSUME NEW a \in AddressSpace PROVE <<o, (a - d) % n>> \in Pages
    <3>1. a - d \in Int
      BY <1>7 DEF AddressSpace
    <3>2. PICK r : r = (a - d) % n
      OBVIOUS
    <3>3. r \in 0..(n - 1)
      BY <1>7, <3>1, <3>2
    <3>4. r \in 0..(RingMax - 1)
      BY <1>7, <3>3, RingBounds
    <3> QED  BY <1>7, <3>2, <3>4 DEF Pages
  <2>2. space' \in [AddressSpace -> Pages]
    BY <1>12, <1>16, <2>1
  <2> QED  BY <1>1, <1>17, <2>2 DEF RingTypeOK
<1>19. RingHolds(f)' /\ RingCells' = RingCells
  <2>1. ASSUME NEW a \in AddressSpace, f \in Files
        PROVE  IF space[a][1] = f THEN space'[a] = space[a] ELSE space'[a][1] # f
    <3>1. f # 0
      BY <2>1 DEF Files
    <3>2. CASE a \in Run(d + k, n)
      <4>1. space[a][1] \in {0, o}
        BY <1>8, <1>10, <1>14, <3>2
      <4>2. space'[a] = <<o, (a - d) % n>>
        BY <1>15, <3>2
      <4> QED  BY <1>7, <3>1, <4>1, <4>2
    <3>3. CASE a \notin Run(d + k, n)
      BY <1>15, <3>3
    <3> QED  BY <3>2, <3>3
  <2> QED  BY <1>1, <2>1, BufferStays DEF RingOf
<1>20. Maps(o, d, n, k + n)'
  <2>1. k + n \in Nat /\ d + (k + n) <= Addresses
    BY <1>7, <1>11, RingBounds
  <2>2. ASSUME NEW a \in AddressSpace
        PROVE  IF a \in Run(d, k + n) THEN space'[a] = <<o, (a - d) % n>> ELSE space'[a][1] # o
    <3>1. CASE a \in Run(d + k, n)
      BY <1>14, <1>15, <3>1
    <3>2. CASE a \notin Run(d + k, n)
      <4>1. IF a \in Run(d, k) THEN space[a] = <<o, (a - d) % n>> ELSE space[a][1] # o
        BY <1>8, <1>9 DEF Maps
      <4>2. a \in Run(d, k) <=> a \in Run(d, k + n)
        BY <1>14, <3>2
      <4> QED  BY <1>15, <3>2, <4>1, <4>2
    <3> QED  BY <3>1, <3>2
  <2> QED  BY <1>7, <2>1, <2>2 DEF Maps
<1>21. \A a \in Run(d, total) : space'[a][1] \in {0, o}
  <2>1. ASSUME NEW a \in Run(d, total) PROVE space'[a][1] \in {0, o}
    <3>1. a \in AddressSpace /\ space[a][1] \in {0, o}
      BY <1>8, <1>10, <1>14
    <3>2. CASE a \in Run(d + k, n)
      <4>1. space'[a] = <<o, (a - d) % n>>
        BY <1>15, <3>1, <3>2
      <4> QED  BY <4>1
    <3>3. CASE a \notin Run(d + k, n)
      BY <1>15, <3>1, <3>3
    <3> QED  BY <3>2, <3>3
  <2> QED  BY <2>1
<1>22. RingMakes(f)'
  <2>1. Maps(making.object, making.data, making.size, making.size * making.window)'
    BY <1>11, <1>17, <1>20
  <2>2. making'.data + making'.size * making'.times <= Addresses
    BY <1>10, <1>11, <1>17
  <2>3. \A a \in Run(making'.data, making'.size * making'.times) :
          space'[a][1] \in {0, making'.object}
    BY <1>10, <1>17, <1>21
  <2>4. /\ making'.object \in Files /\ making'.object # f
        /\ making'.size \in 1..RingMax /\ making'.times \in 1..TimesMax
        /\ (making'.op = "init" <=> ring'.data = -1) /\ making'.tries <= MapFailures
    BY <1>1, <1>3, <1>5, <1>7, <1>17 DEF RingOf, RingMakes
  <2>5. making'.window <= making'.times
    BY <1>7, <1>17
  <2> QED  BY <2>1, <2>2, <2>3, <2>4, <2>5 DEF RingMakes
<1>23. Elsewhere(f)'
  <2>1. ASSUME NEW g \in Files, g # o, NEW a \in AddressSpace, space[a][1] # g
        PROVE  space'[a][1] # g
    <3>1. CASE a \in Run(d + k, n)
      <4>1. space'[a] = <<o, (a - d) % n>>
        BY <1>15, <3>1
      <4> QED  BY <2>1, <4>1
    <3>2. CASE a \notin Run(d + k, n)
      BY <1>15, <2>1, <3>2
    <3> QED  BY <3>1, <3>2
  <2> QED  BY <1>1, <1>7, <1>17, <2>1 DEF Elsewhere
<1>24. CyclicStep
  BY <1>1, <1>19 DEF CyclicStep
<1> QED  BY <1>18, <1>19, <1>22, <1>23, <1>24 DEF RingInv, RingOf

\* Another try, with other addresses: the windows that were mapped are gone.
LEMMA RingMapFailsKeeps ==
  ASSUME RingTypeOK, NEW f \in 0..2, RingOf(f), MapFailures < RetryCount, RingMapFails
  PROVE  RingInv' /\ CyclicStep
<1>1. /\ making.at = "map" /\ objects' = objects /\ ring' = ring /\ ringCall' = ringCall
      /\ making.tries < MapFailures
  BY DEF RingMapFails
<1>2. PICK d : d = making.data
  OBVIOUS
<1>3. PICK k : k = making.size * making.window
  OBVIOUS
<1>4. PICK o : o = making.object
  OBVIOUS
<1>5. /\ making \in Makings /\ o \in Files /\ o # f /\ d \in Nat /\ making.tries \in Nat
      /\ making.size \in Nat /\ making.window \in Nat
      /\ \A g \in Files : g # f => /\ \A i \in 0..(RingMax - 1) : objects[g][i] = Empty
                                   /\ g # o => \A a \in AddressSpace : space[a][1] # g
  BY <1>1, <1>2, <1>4, MakingIs
<1>6. Maps(o, d, making.size, k)
  BY <1>1, <1>2, <1>3, <1>4 DEF RingOf, RingMakes
<1>7. making.tries + 1 < RetryCount /\ making.tries + 1 <= MapFailures /\ making.tries + 1 \in Nat
  BY <1>1, <1>5, RingBounds
<1>8. making.window * making.size = k
  BY <1>3, <1>5
<1>9. /\ space' = [a \in AddressSpace |-> IF a \in Run(d, k) THEN Nowhere ELSE space[a]]
      /\ making' = [making EXCEPT !.at = "reserve", !.tries = making.tries + 1, !.window = 0]
  BY <1>2, <1>7, <1>8 DEF RingMapFails
<1>10. \A a \in AddressSpace : space'[a] = IF a \in Run(d, k) THEN Nowhere ELSE space[a]
  BY <1>9
<1>11. /\ making' \in Makings /\ making'.at = "reserve" /\ making'.op = making.op
       /\ making'.size = making.size /\ making'.times = making.times
       /\ making'.tries = making.tries + 1 /\ making'.object = o
  BY <1>4, <1>5, <1>7, <1>9 DEF Makings
<1>12. Nowhere \in Pages /\ Nowhere[1] = 0 /\ space \in [AddressSpace -> Pages]
  BY DEF Nowhere, Pages, RingTypeOK
<1>13. RingTypeOK'
  BY <1>1, <1>9, <1>11, <1>12 DEF RingTypeOK
<1>14. \A a \in AddressSpace : IF a \in Run(d, k) THEN space[a][1] = o ELSE space[a][1] # o
  BY <1>6 DEF Maps
<1>15. RingHolds(f)' /\ RingCells' = RingCells
  <2>1. ASSUME NEW a \in AddressSpace, f \in Files
        PROVE  IF space[a][1] = f THEN space'[a] = space[a] ELSE space'[a][1] # f
    BY <1>5, <1>10, <1>12, <1>14, <2>1 DEF Files
  <2> QED  BY <1>1, <2>1, BufferStays DEF RingOf
<1>16. RingMakes(f)'
  <2>1. /\ making'.object \in Files /\ making'.object # f
        /\ making'.size \in 1..RingMax /\ making'.times \in 1..TimesMax
        /\ (making'.op = "init" <=> ring'.data = -1)
    BY <1>1, <1>5, <1>11 DEF RingOf, RingMakes
  <2> QED  BY <1>7, <1>11, <2>1 DEF RingMakes
<1>17. Elsewhere(f)'
  <2>1. ASSUME NEW g \in Files, g # f, NEW a \in AddressSpace PROVE space'[a][1] # g
    <3>1. g # 0
      BY DEF Files
    <3> QED  BY <1>5, <1>10, <1>12, <1>14, <2>1, <3>1
  <2> QED  BY <1>1, <1>5, <2>1 DEF Elsewhere
<1>18. CyclicStep
  BY <1>1, <1>15 DEF CyclicStep
<1> QED  BY <1>13, <1>15, <1>16, <1>17, <1>18 DEF RingInv, RingOf

\* Without the buffer, only the addresses that the init has mapped map anything.
LEMMA UnmappedIs ==
  ASSUME RingTypeOK, NEW f \in 0..2, RingOf(f), space' = Unmapped
  PROVE  /\ space' \in [AddressSpace -> Pages]
         /\ \A a \in AddressSpace : f \in Files => space'[a][1] # f
         /\ \A a \in AddressSpace : ~(f \in Files /\ space[a][1] = f) => space'[a] = space[a]
         /\ \A g \in Files : \A a \in AddressSpace : space[a][1] # g => space'[a][1] # g
<1>1. Nowhere \in Pages /\ Nowhere[1] = 0 /\ space \in [AddressSpace -> Pages]
  BY DEF Nowhere, Pages, RingTypeOK
<1>2. \A a \in AddressSpace : OfRing(a) <=> f \in Files /\ space[a][1] = f
  BY OfRingIs DEF RingOf
<1>3. space' \in [AddressSpace -> Pages]
  BY <1>1 DEF Unmapped
<1>4. \A a \in AddressSpace : space'[a] = IF OfRing(a) THEN Nowhere ELSE space[a]
  BY DEF Unmapped
<1>5. \A g \in Files : g # 0
  BY DEF Files
<1> QED  BY <1>1, <1>2, <1>3, <1>4, <1>5

\* Only the object of the buffer is dropped.
LEMMA DroppedIs ==
  ASSUME RingTypeOK, NEW f \in 0..2, RingOf(f),
         NEW objs \in [Files -> [0..(RingMax - 1) -> RingValues \cup {Empty}]]
  PROVE  /\ Dropped(objs) \in [Files -> [0..(RingMax - 1) -> RingValues \cup {Empty}]]
         /\ \A k \in 0..(RingMax - 1) : f \in Files => Dropped(objs)[f][k] = Empty
         /\ \A g \in Files : g # f => Dropped(objs)[g] = objs[g]
<1> DEFINE gone(g) == \E a \in AddressSpace : OfRing(a) /\ space[a][1] = g
<1>1. ASSUME NEW g \in Files, g # f PROVE ~gone(g)
  BY <1>1, OfRingIs DEF RingOf
<1>2. f \in Files => gone(f)
  BY FirstAddress DEF RingOf, Files
<1>3. \A g \in Files : DOMAIN objs[g] = 0..(RingMax - 1)
  OBVIOUS
<1>4. Dropped(objs) = [g \in Files |-> IF gone(g) THEN [k \in 0..(RingMax - 1) |-> Empty]
                                       ELSE objs[g]]
  BY <1>3 DEF Dropped
<1> HIDE DEF gone
<1>5. [k \in 0..(RingMax - 1) |-> Empty] \in [0..(RingMax - 1) -> RingValues \cup {Empty}]
  OBVIOUS
<1>6. Dropped(objs) \in [Files -> [0..(RingMax - 1) -> RingValues \cup {Empty}]]
  BY <1>4, <1>5
<1>7. \A k \in 0..(RingMax - 1) : f \in Files => Dropped(objs)[f][k] = Empty
  BY <1>2, <1>4
<1>8. \A g \in Files : g # f => Dropped(objs)[g] = objs[g]
  BY <1>1, <1>4
<1> QED  BY <1>6, <1>7, <1>8

LEMMA RingFreeKeeps ==
  ASSUME RingTypeOK, NEW f \in 0..2, RingOf(f), RingFree
  PROVE  RingInv' /\ CyclicStep
<1>1. /\ making = Idle /\ ring.data # -1 /\ making' = making /\ space' = Unmapped
      /\ objects' = Dropped(objects) /\ ring' = [ring EXCEPT !.data = -1]
      /\ Answer("free", 0, 0, TRUE)
  BY DEF RingFree
<1>2. f \in Files
  BY <1>1 DEF RingOf, RingHolds
<1>3. /\ objects \in [Files -> [0..(RingMax - 1) -> RingValues \cup {Empty}]]
      /\ ring \in [data : Int, size : Nat, times : Nat] /\ making \in Makings
  BY DEF RingTypeOK
<1>4. /\ objects' \in [Files -> [0..(RingMax - 1) -> RingValues \cup {Empty}]]
      /\ \A k \in 0..(RingMax - 1) : objects'[f][k] = Empty
      /\ \A g \in Files : g # f => objects'[g] = objects[g]
  BY <1>1, <1>2, <1>3, DroppedIs
<1>5. /\ space' \in [AddressSpace -> Pages] /\ \A a \in AddressSpace : space'[a][1] # f
      /\ \A g \in Files : \A a \in AddressSpace : space[a][1] # g => space'[a][1] # g
  BY <1>1, <1>2, UnmappedIs
<1>6. ring' \in [data : Int, size : Nat, times : Nat] /\ ring'.data = -1
  BY <1>1, <1>3
<1>7. RingTypeOK'
  BY <1>1, <1>3, <1>4, <1>5, <1>6 DEF RingTypeOK
<1>8. RingHolds(0)' /\ RingMakes(0)'
  BY <1>1, <1>6 DEF RingHolds, RingMakes, Idle
<1>9. Elsewhere(0)'
  <2>1. \A g \in Files : g # f => /\ \A k \in 0..(RingMax - 1) : objects[g][k] = Empty
                                  /\ \A a \in AddressSpace : space[a][1] # g
    BY <1>1 DEF RingOf, Elsewhere, Idle
  <2> QED  BY <1>4, <1>5, <2>1 DEF Elsewhere
<1>10. Cyclic!Drop
  BY <1>1, <1>6 DEF Cyclic!Drop, Cyclic!Answered, Answer, RingCells
<1> QED  BY <1>7, <1>8, <1>9, <1>10 DEF RingInv, RingOf, CyclicStep, Cyclic!Next

\* The new buffer is there, with what fits of the old one.
LEMMA RingEndKeeps ==
  ASSUME RingTypeOK, NEW f \in 0..2, RingOf(f), RingEnd
  PROVE  RingInv' /\ CyclicStep
<1>1. making.at = "map" /\ making.window = making.times
  BY DEF RingEnd
<1>2. PICK d : d = making.data
  OBVIOUS
<1>3. PICK n : n = making.size
  OBVIOUS
<1>4. PICK t : t = making.times
  OBVIOUS
<1>5. PICK o : o = making.object
  OBVIOUS
<1>6. PICK kept : kept = IF making.op = "init" THEN 0 ELSE IF ring.size < n THEN ring.size ELSE n
  OBVIOUS
<1>7. PICK objs : objs = [objects EXCEPT ![o] =
        [k \in DOMAIN @ |-> IF k < kept THEN objects[space[ring.data + k][1]][k] ELSE @[k]]]
  OBVIOUS
<1>8. /\ objects' = Dropped(objs) /\ space' = Unmapped
      /\ ring' = [data |-> d, size |-> n, times |-> t]
      /\ making' = Idle /\ Answer(making.op, n, t, TRUE)
  BY <1>2, <1>3, <1>4, <1>5, <1>6, <1>7 DEF RingEnd
<1>9. /\ making \in Makings /\ o \in Files /\ o # f /\ n \in Nat \ {0} /\ t \in Nat \ {0}
      /\ d \in Nat /\ n * t \in Nat /\ n <= RingMax /\ d + n * t <= Addresses
      /\ \A g \in Files : g # f => /\ \A k \in 0..(RingMax - 1) : objects[g][k] = Empty
                                   /\ g # o => \A a \in AddressSpace : space[a][1] # g
  BY <1>1, <1>2, <1>3, <1>4, <1>5, MakingIs
<1>10. /\ Maps(o, d, n, n * t) /\ n \in 1..RingMax /\ t \in 1..TimesMax
       /\ (making.op = "init" <=> ring.data = -1)
  BY <1>1, <1>2, <1>3, <1>4, <1>5 DEF RingOf, RingMakes
<1>11. /\ objects \in [Files -> [0..(RingMax - 1) -> RingValues \cup {Empty}]]
       /\ ring \in [data : Int, size : Nat, times : Nat]
  BY DEF RingTypeOK
<1>12. kept \in Nat /\ kept <= n
  BY <1>6, <1>9, <1>11
<1>13. ASSUME NEW k \in 0..(RingMax - 1), k < kept
       PROVE  space[ring.data + k][1] = f /\ f \in Files
  <2>1. /\ ring.data # -1 /\ k < ring.size
    BY <1>6, <1>9, <1>10, <1>11, <1>13 DEF Makings
  <2>2. /\ f \in Files /\ ring.size \in Nat \ {0} /\ ring.times \in Nat \ {0}
        /\ Maps(f, ring.data, ring.size, ring.size * ring.times)
    BY <2>1, RingBounds DEF RingOf, RingHolds
  <2>3. PICK total : total = ring.size * ring.times
    OBVIOUS
  <2>4. total \in Nat /\ ring.size <= total /\ ring.data \in Nat /\ ring.data + total <= Addresses
    BY <2>2, <2>3, SizeFits DEF Maps
  <2>5. PICK a : a = ring.data + k
    OBVIOUS
  <2>6. k \in Nat
    BY <1>13
  <2>7. a \in Run(ring.data, total) /\ a \in AddressSpace
    BY <2>1, <2>2, <2>4, <2>5, <2>6, RingBounds DEF Run, AddressSpace
  <2>8. space[a] = <<f, (a - ring.data) % ring.size>>
    BY <2>2, <2>3, <2>7 DEF Maps
  <2> QED  BY <2>2, <2>5, <2>8
<1>14. /\ objs[o] = [k \in 0..(RingMax - 1) |-> IF k < kept THEN objects[f][k] ELSE Empty]
       /\ \A g \in Files : g # o => objs[g] = objects[g]
       /\ objs \in [Files -> [0..(RingMax - 1) -> RingValues \cup {Empty}]]
  <2>1. DOMAIN objects[o] = 0..(RingMax - 1) /\ \A k \in 0..(RingMax - 1) : objects[o][k] = Empty
    BY <1>9, <1>11
  <2>2. PICK b : b = [k \in 0..(RingMax - 1) |-> IF k < kept THEN objects[space[ring.data + k][1]][k]
                                                 ELSE objects[o][k]]
    OBVIOUS
  <2>3. objs = [objects EXCEPT ![o] = b]
    BY <1>7, <2>1, <2>2
  <2>4. b = [k \in 0..(RingMax - 1) |-> IF k < kept THEN objects[f][k] ELSE Empty]
    BY <1>13, <2>1, <2>2
  <2>5. b \in [0..(RingMax - 1) -> RingValues \cup {Empty}]
    BY <1>11, <1>13, <2>4
  <2> QED  BY <1>9, <1>11, <2>3, <2>4, <2>5
<1>15. /\ objects' \in [Files -> [0..(RingMax - 1) -> RingValues \cup {Empty}]]
       /\ \A k \in 0..(RingMax - 1) : f \in Files => objects'[f][k] = Empty
       /\ \A g \in Files : g # f => objects'[g] = objs[g]
  BY <1>8, <1>14, DroppedIs
<1>16. \A k \in 0..(RingMax - 1) : objects'[o][k] = IF k < kept THEN objects[f][k] ELSE Empty
  <2>1. objects'[o] = objs[o]
    BY <1>9, <1>15
  <2> QED  BY <1>14, <2>1, Zenon
<1>17. \A g \in Files : g # o => \A k \in 0..(RingMax - 1) : objects'[g][k] = Empty
  BY <1>9, <1>14, <1>15
<1>18. /\ space' \in [AddressSpace -> Pages]
       /\ \A a \in AddressSpace : f \in Files => space'[a][1] # f
       /\ \A a \in AddressSpace : ~(f \in Files /\ space[a][1] = f) => space'[a] = space[a]
       /\ \A g \in Files : \A a \in AddressSpace : space[a][1] # g => space'[a][1] # g
  BY <1>8, UnmappedIs
<1>19. RingTypeOK'
  BY <1>8, <1>9, <1>15, <1>18 DEF RingTypeOK, Idle, Makings
<1>20. Maps(o, d, n, n * t)'
  <2>1. ASSUME NEW a \in AddressSpace
        PROVE  IF a \in Run(d, n * t) THEN space'[a] = <<o, (a - d) % n>> ELSE space'[a][1] # o
    <3>1. IF a \in Run(d, n * t) THEN space[a] = <<o, (a - d) % n>> ELSE space[a][1] # o
      BY <1>10 DEF Maps
    <3>2. CASE a \in Run(d, n * t)
      <4>1. space[a][1] = o
        BY <3>1, <3>2
      <4> QED  BY <1>9, <1>18, <3>1, <3>2, <4>1
    <3>3. CASE a \notin Run(d, n * t)
      BY <1>9, <1>18, <3>1, <3>3
    <3> QED  BY <3>2, <3>3
  <2> QED  BY <1>9, <2>1 DEF Maps
<1>21. ring'.data = d /\ ring'.size = n /\ ring'.times = t /\ d # -1
  BY <1>8, <1>9
<1>22. RingHolds(o)' /\ RingMakes(o)'
  BY <1>8, <1>9, <1>10, <1>20, <1>21 DEF RingHolds, RingMakes, Idle
<1>23. Elsewhere(o)'
  <2>1. ASSUME NEW g \in Files, g # o, NEW a \in AddressSpace PROVE space'[a][1] # g
    BY <1>9, <1>18, <2>1
  <2> QED  BY <1>17, <2>1 DEF Elsewhere
<1>24. RingCells' = Repeating(objects'[o], n, n * t)
  BY <1>21, <1>22, HeldCellsNext
<1>25. PICK c : c = objects'[o]
  OBVIOUS
<1>26. \A k \in 0..(n - 1) : k \in 0..(RingMax - 1) /\ k \in Nat
  BY <1>9, RingBounds
<1>27. /\ ringCall'.op = making.op /\ ringCall'.n = n /\ ringCall'.times = t
       /\ ringCall'.ret = TRUE
  BY <1>8 DEF Answer
<1>28. CyclicStep
  <2>1. CASE making.op = "init"
    <3>1. PICK b : b = [i \in 1..n |-> Empty]
      OBVIOUS
    <3>2. ASSUME NEW k \in 0..(n - 1) PROVE b[k + 1] = c[k]
      <4>1. k + 1 \in 1..n /\ ~(k < kept)
        BY <1>6, <1>9, <2>1
      <4>2. c[k] = Empty
        BY <1>16, <1>25, <1>26, <4>1
      <4> QED  BY <3>1, <4>1, <4>2
    <3>3. Cyclic!Repeat(b, n, t) = Repeating(c, n, n * t)
      <4>1. n \in Nat \ {0} /\ t \in Nat
        BY <1>9
      <4>2. ShiftedTo(b, c, n)
        BY <3>2 DEF ShiftedTo
      <4> QED  BY <4>1, <4>2, RepeatIs, Zenon
    <3>4. Cyclic!Make
      BY <1>21, <1>24, <1>25, <1>27, <2>1, <3>1, <3>3 DEF Cyclic!Make, Cyclic!Answered
    <3> QED  BY <3>4 DEF CyclicStep, Cyclic!Next
  <2>2. CASE making.op # "init"
    <3>1. making.op = "resize" /\ ring.data # -1
      BY <1>9, <1>10, <2>2 DEF Makings
    <3>2. /\ f \in Files /\ ring.size \in Nat \ {0} /\ ring.times \in Nat \ {0}
          /\ RingCells = Repeating(objects[f], ring.size, ring.size * ring.times)
      BY <3>1, HeldCells, RingBounds DEF RingOf, RingHolds
    <3>3. PICK b : b = [i \in 1..n |-> IF i <= ring.size THEN RingCells[i] ELSE Empty]
      OBVIOUS
    <3>4. ASSUME NEW k \in 0..(n - 1) PROVE b[k + 1] = c[k]
      <4>1. k + 1 \in 1..n /\ k \in Nat
        BY <1>9
      <4>2. b[k + 1] = IF k + 1 <= ring.size THEN RingCells[k + 1] ELSE Empty
        BY <3>3, <4>1
      <4>3. c[k] = IF k < kept THEN objects[f][k] ELSE Empty
        BY <1>16, <1>25, <1>26
      <4>4. CASE k < ring.size
        <5>1. k \in 0..(ring.size - 1) /\ k + 1 <= ring.size /\ k < kept
          BY <1>6, <1>9, <2>2, <3>2, <4>1, <4>4
        <5>2. RingCells[k + 1] = objects[f][k]
          <6>1. PICK e : e = objects[f]
            OBVIOUS
          <6>2. PICK m \in Nat \ {0} : m = ring.size
            BY <3>2
          <6>3. PICK s \in Nat \ {0} : s = ring.times
            BY <3>2
          <6>4. Repeating(e, m, m * s)[k + 1] = e[k]
            BY <5>1, <6>2, FirstCells
          <6> QED  BY <3>2, <6>1, <6>2, <6>3, <6>4
        <5> QED  BY <4>2, <4>3, <5>1, <5>2
      <4>5. CASE ~(k < ring.size)
        <5>1. ~(k + 1 <= ring.size) /\ ~(k < kept)
          BY <1>6, <1>9, <2>2, <3>2, <4>1, <4>5
        <5> QED  BY <4>2, <4>3, <5>1
      <4> QED  BY <4>4, <4>5
    <3>5. Cyclic!Repeat(b, n, t) = Repeating(c, n, n * t)
      <4>1. n \in Nat \ {0} /\ t \in Nat
        BY <1>9
      <4>2. ShiftedTo(b, c, n)
        BY <3>4 DEF ShiftedTo
      <4> QED  BY <4>1, <4>2, RepeatIs, Zenon
    <3>6. Cyclic!Resize
      BY <1>21, <1>24, <1>25, <1>27, <3>1, <3>3, <3>5 DEF Cyclic!Resize, Cyclic!Answered
    <3> QED  BY <3>6 DEF CyclicStep, Cyclic!Next
  <2> QED  BY <2>1, <2>2
<1>29. o \in 0..2
  BY <1>9 DEF Files
<1> QED  BY <1>19, <1>22, <1>23, <1>28, <1>29 DEF RingInv, RingOf

\* Two indices read one cell when the size divides what is between them.
LEMMA SameCell ==
  ASSUME NEW n \in Nat \ {0}, NEW a \in Int, NEW b \in Int
  PROVE  (a - b) % n = 0 <=> a % n = b % n
<1>1. 0 % n = 0
  OBVIOUS
<1>2. ASSUME (a - b) % n = 0 PROVE a % n = b % n
  <2>1. PICK c \in Int : c = a - b
    OBVIOUS
  <2>2. c % n = 0 % n
    BY <1>1, <1>2, <2>1
  <2>3. (c + b) % n = (0 + b) % n
    <3>1. PICK z \in Int : z = 0
      OBVIOUS
    <3>2. (c + b) % n = (z + b) % n
      BY <2>2, <3>1, ShiftedRemainder
    <3> QED  BY <3>1, <3>2
  <2>4. c + b = a /\ 0 + b = b
    BY <2>1
  <2> QED  BY <2>3, <2>4
<1>3. ASSUME a % n = b % n PROVE (a - b) % n = 0
  <2>1. PICK c \in Int : c = -b
    OBVIOUS
  <2>2. (a + c) % n = (b + c) % n
    BY <1>3, ShiftedRemainder
  <2>3. a + c = a - b /\ b + c = 0
    BY <2>1
  <2> QED  BY <1>1, <2>2, <2>3
<1> QED  BY <1>2, <1>3

LEMMA RingWriteKeeps ==
  ASSUME RingTypeOK, NEW f \in 0..2, RingOf(f),
         NEW i \in AddressSpace, NEW v \in RingValues, RingWrite(i, v)
  PROVE  RingInv' /\ CyclicStep
<1>1. /\ making = Idle /\ ring.data # -1 /\ i < ring.size * ring.times
      /\ space' = space /\ ring' = ring /\ making' = making /\ Answer("write", 0, 0, TRUE)
      /\ i \in Nat
  <2>1. i \in Nat
    BY DEF AddressSpace
  <2> QED  BY <2>1 DEF RingWrite
<1>2. PICK n \in Nat \ {0} : n = ring.size
  BY <1>1, RingBounds DEF RingOf, RingHolds
<1>3. PICK k : k = ring.size * ring.times
  OBVIOUS
<1>4. /\ f \in Files /\ Maps(f, ring.data, n, k) /\ k \in Nat /\ n <= RingMax
      /\ ring.data \in Nat /\ ring.data + k <= Addresses
  BY <1>1, <1>2, <1>3 DEF RingOf, RingHolds, Maps
<1>5. PICK r : r = i % n
  OBVIOUS
<1>6. r \in 0..(n - 1) /\ r \in 0..(RingMax - 1)
  BY <1>1, <1>2, <1>4, <1>5, RingBounds
<1>7. space[ring.data + i] = <<f, r>>
  <2>1. PICK a : a = ring.data + i
    OBVIOUS
  <2>2. a \in AddressSpace /\ a \in Run(ring.data, k) /\ a - ring.data = i
    BY <1>1, <1>3, <1>4, <2>1, RingBounds DEF AddressSpace, Run
  <2> QED  BY <1>4, <1>5, <2>1, <2>2 DEF Maps
<1>8. objects' = [objects EXCEPT ![f][r] = v]
  BY <1>7 DEF RingWrite
<1>9. objects \in [Files -> [0..(RingMax - 1) -> RingValues \cup {Empty}]]
  BY DEF RingTypeOK
<1>10. /\ objects' \in [Files -> [0..(RingMax - 1) -> RingValues \cup {Empty}]]
       /\ \A g \in Files : g # f => objects'[g] = objects[g]
       /\ \A c \in 0..(RingMax - 1) : objects'[f][c] = IF c = r THEN v ELSE objects[f][c]
  BY <1>4, <1>6, <1>8, <1>9
<1>11. RingTypeOK'
  BY <1>1, <1>10 DEF RingTypeOK
<1>12. RingHolds(f)' /\ RingMakes(f)'
  BY <1>1 DEF RingOf, RingHolds, Maps, RingMakes, Idle
<1>13. Elsewhere(f)'
  <2>1. Elsewhere(f) /\ space' = space /\ making' = making
        /\ \A g \in Files : g # f => objects'[g] = objects[g]
    BY <1>1, <1>10 DEF RingOf
  <2>2. ASSUME NEW g \in Files, g # f
        PROVE  /\ \A c \in 0..(RingMax - 1) : objects'[g][c] = Empty
               /\ (making'.at = "map" => g # making'.object) =>
                    \A a \in AddressSpace : space'[a][1] # g
    <3>1. /\ \A c \in 0..(RingMax - 1) : objects[g][c] = Empty
          /\ (making.at = "map" => g # making.object) => \A a \in AddressSpace : space[a][1] # g
      BY <2>1, <2>2, Zenon DEF Elsewhere
    <3>2. objects'[g] = objects[g]
      BY <2>1, <2>2
    <3> QED  BY <2>1, <3>1, <3>2, Zenon
  <2> QED  BY <2>2, Zenon DEF Elsewhere
<1>14. /\ RingCells = Repeating(objects[f], n, k)
       /\ RingCells' = Repeating(objects'[f], n, k)
  BY <1>1, <1>2, <1>3, <1>12, HeldCells, HeldCellsNext DEF RingOf
<1>15. PICK c : c = RingCells
  OBVIOUS
<1>16. PICK old : old = objects[f]
  OBVIOUS
<1>17. PICK new : new = objects'[f]
  OBVIOUS
<1>18. c = [j \in 1..k |-> old[(j - 1) % n]] /\ RingCells' = [j \in 1..k |-> new[(j - 1) % n]]
  BY <1>14, <1>15, <1>16, <1>17 DEF Repeating
<1>19. Len(c) = k
  BY <1>4, <1>18
<1>20. ASSUME NEW j \in 1..k
       PROVE  new[(j - 1) % n] = IF (j - (i + 1)) % n = 0 THEN v ELSE c[j]
  <2>1. PICK b \in Int : b = j - 1
    OBVIOUS
  <2>2. PICK m : m = b % n
    OBVIOUS
  <2>3. m \in 0..(n - 1) /\ m \in 0..(RingMax - 1)
    BY <1>2, <1>4, <2>2, RingBounds
  <2>4. new[m] = IF m = r THEN v ELSE old[m]
    BY <1>10, <1>16, <1>17, <2>3
  <2>5. c[j] = old[m]
    BY <1>18, <2>1, <2>2
  <2>6. (b - i) % n = 0 <=> m = r
    <3>1. PICK e \in Int : e = i
      BY <1>1
    <3>2. (b - e) % n = 0 <=> b % n = e % n
      BY SameCell
    <3> QED  BY <1>5, <2>2, <3>1, <3>2
  <2>7. j - (i + 1) = b - i
    BY <1>1, <2>1
  <2> QED  BY <2>1, <2>2, <2>4, <2>5, <2>6, <2>7
<1>21. RingCells' = [j \in 1..Len(c) |-> IF (j - (i + 1)) % n = 0 THEN v ELSE c[j]]
  BY <1>18, <1>19, <1>20
<1>22. i + 1 \in 1..Len(c)
  BY <1>1, <1>3, <1>4, <1>19
<1>23. Cyclic!Write
  <2>1. ring'.size = ring.size /\ ringCall'.op = "write" /\ ringCall'.ret = TRUE
    BY <1>1 DEF Answer
  <2> QED  BY <1>2, <1>15, <1>21, <1>22, <2>1 DEF Cyclic!Write, Cyclic!Answered
<1> QED  BY <1>11, <1>12, <1>13, <1>23 DEF RingInv, RingOf, CyclicStep, Cyclic!Next

\* What is written at one index of a ring buffer is read at every index that repeats it,
\* and a resize keeps the content that fits, whatever was tried, unmapped, resized and
\* freed before: as long as no init fails at as many windows as it has tries, for it
\* then returns a buffer that is not mapped (ring_buffer.cpp).
THEOREM RingImplementsCycle ==
  ASSUME MapFailures < RetryCount
  PROVE  RingInit /\ [][RingNext]_ringVars => RingIsCyclic
<1>1. RingInit => RingInv /\ Cyclic!Init
  <2> SUFFICES ASSUME RingInit PROVE RingInv /\ Cyclic!Init
    OBVIOUS
  <2>1. space = [a \in AddressSpace |-> Nowhere] /\ making = Idle /\ ring = NoRing
        /\ objects = [o \in Files |-> [k \in 0..(RingMax - 1) |-> Empty]]
    BY DEF RingInit
  <2>2. RingTypeOK
    BY <2>1 DEF RingTypeOK, NoRing, Idle, Makings, Pages
  <2>3. \A g \in Files : g # 0
    BY DEF Files
  <2>4. RingHolds(0) /\ RingMakes(0) /\ Elsewhere(0)
    BY <2>1, <2>3 DEF RingHolds, RingMakes, Elsewhere, NoRing, Idle, Nowhere
  <2>5. Cyclic!Init
    BY <2>1 DEF RingInit, NoRing, Cyclic!Init, RingCells
  <2> QED  BY <2>2, <2>4, <2>5 DEF RingInv, RingOf
<1>2. RingInv /\ [RingNext]_ringVars => RingInv' /\ CyclicStep
  <2> SUFFICES ASSUME RingInv, [RingNext]_ringVars PROVE RingInv' /\ CyclicStep
    OBVIOUS
  <2>1. PICK f \in 0..2 : RingTypeOK /\ RingOf(f)
    BY DEF RingInv
  <2>2. CASE UNCHANGED ringVars
    <3>1. RingTypeOK' /\ RingOf(f)'
      BY <2>1, <2>2 DEF ringVars, RingTypeOK, RingOf, RingHolds, RingMakes, Maps, Elsewhere
    <3>2. UNCHANGED <<RingCells, ring.size, ringCall>>
      BY <2>2 DEF ringVars, RingCells
    <3> QED  BY <3>1, <3>2 DEF RingInv, CyclicStep
  <2>3. CASE \E op \in {"init", "resize"}, n \in 1..RingMax, times \in 1..TimesMax :
               RingBegin(op, n, times)
    BY <2>1, <2>3, RingBeginKeeps
  <2>4. CASE \E i \in AddressSpace, v \in RingValues : RingWrite(i, v)
    BY <2>1, <2>4, RingWriteKeeps
  <2>5. CASE RingReserve \/ RingMap \/ RingMapFails \/ RingEnd \/ RingFree
    BY <2>1, <2>5, RingReserveKeeps, RingMapKeeps, RingMapFailsKeeps, RingEndKeeps, RingFreeKeeps
  <2> QED  BY <2>2, <2>3, <2>4, <2>5 DEF RingNext
<1>3. CyclicStep => [Cyclic!Next]_(Cyclic!vars)
  BY DEF CyclicStep, Cyclic!vars
<1> QED  BY <1>1, <1>2, <1>3, PTL DEF RingIsCyclic, Cyclic!Spec
=============================================================================
