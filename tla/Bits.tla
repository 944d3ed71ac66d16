------------------------------- MODULE Bits -------------------------------
(***************************************************************************)
(* bits.hpp: the rounding that the containers reserve memory by.           *)
(***************************************************************************)
EXTENDS Integers

\* A power of two is a number that no odd number other than one divides.
PowerOfTwo(p) == p > 0 /\ \A d \in 2..p : p % d = 0 => d % 2 = 0

\* ceil_exp2 of a number other than 0.
CeilExp2(n) == CHOOSE p \in n..(2 * n - 1) : PowerOfTwo(p)
=============================================================================
