-------------------------------- MODULE Arena --------------------------------
(***************************************************************************)
(* allocator_arena.cpp: an allocator that cuts its blocks off a larger one *)
(* and only takes back the last of them.  Addresses count from the start   *)
(* of that block, which the default allocator has aligned.  The program    *)
(* gives back a block once, with the size it has.                          *)
(*                                                                         *)
(* The test for room asks whether anything is left, and not whether enough *)
(* is: a block may reach over the end, and start may lie behind it.        *)
(***************************************************************************)
EXTENDS Integers

CONSTANTS
  ArenaSize,
  Alignment,
  BlockSizes   \* the sizes that are asked for; 0 is what a free asks for

ASSUME ArenaAssumption ==
  ArenaSize \in Nat /\ Alignment \in Nat \ {0} /\ BlockSizes \subseteq Nat

VARIABLES
  arena,    \* where the next block may begin; whether the memory is there
  blocks    \* the blocks the program holds, each its address and size

arenaVars == <<arena, blocks>>

ArenaInit == arena = [start |-> 0, at |-> "none"] /\ blocks = {}

End(b)     == b[1] + b[2]
Remaining  == ArenaSize - arena.start
Padding    == (-arena.start) % Alignment
NextAt(p)  == arena' = [arena EXCEPT !.start = p]
Holding(b) == arena.at = "live" /\ b \in blocks

ArenaMake == arena.at = "none" /\ arena' = [start |-> 0, at |-> "live"] /\ UNCHANGED blocks

\* free hands the default allocator what is left, from start on: that is the block
\* it came from only if start is back where it began.
ArenaFree ==
  /\ arena.at = "live" /\ blocks' = {}
  /\ arena' = [start |-> 0, at |-> IF arena.start = 0 THEN "none" ELSE "misfreed"]

HasRoom == Remaining - Padding >= 0

\* A new block in place of those in old.
Cut(n, old) ==
  /\ n # 0 /\ HasRoom
  /\ NextAt(arena.start + Padding + n)
  /\ blocks' = (blocks \ old) \cup {<<arena.start + Padding, n>>}

NoBlock(n) == (n = 0 \/ ~HasRoom) /\ UNCHANGED arenaVars

BlockAlloc(n) == arena.at = "live" /\ (Cut(n, {}) \/ NoBlock(n))

IsLast(b) == End(b) = arena.start

\* Variant: any block is taken back as if it were the last.
BlockFreeAny(b) ==
  /\ Holding(b) /\ blocks' = blocks \ {b} /\ NextAt(arena.start - b[2])

\* Only the last block is taken back.
BlockFree(b) ==
  /\ Holding(b) /\ blocks' = blocks \ {b}
  /\ IF IsLast(b) THEN NextAt(arena.start - b[2]) ELSE UNCHANGED arena

\* The last block grows, if there is room for that, or shrinks where it is; another
\* one shrinks where it is, and grows by moving.
BlockRealloc(b, n) ==
  /\ Holding(b) /\ n # 0
  /\ \/ n = b[2] /\ UNCHANGED arenaVars
     \/ /\ n # b[2] /\ IsLast(b)
        /\ IF n > b[2] /\ Remaining < n - b[2] THEN UNCHANGED arenaVars
           ELSE NextAt(b[1] + n) /\ blocks' = (blocks \ {b}) \cup {<<b[1], n>>}
     \/ /\ n < b[2] /\ ~IsLast(b)
        /\ blocks' = (blocks \ {b}) \cup {<<b[1], n>>} /\ UNCHANGED arena
     \/ n > b[2] /\ ~IsLast(b) /\ (Cut(n, {b}) \/ NoBlock(n))

ArenaNext ==
  \/ ArenaMake \/ ArenaFree
  \/ \E n \in BlockSizes : BlockAlloc(n)
  \/ \E b \in blocks : BlockFree(b) \/ \E n \in BlockSizes : BlockRealloc(b, n)

ArenaSpec == ArenaInit /\ [][ArenaNext]_arenaVars

(***************************************************************************)
(* Properties                                                              *)
(***************************************************************************)

Apart(b, c) == End(b) <= c[1] \/ End(c) <= b[1]

\* "arena_allocator - stack-like allocator" (allocator.hpp): the blocks the program holds
\* never share a byte, in whatever order they are allocated, resized and given back,
\* and none reaches behind the place where the next one will begin.
BlocksApart ==
  /\ \A b, c \in blocks : b # c => Apart(b, c)
  /\ \A b \in blocks : End(b) <= arena.start
=============================================================================
