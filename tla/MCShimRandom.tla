---------------------------- MODULE MCShimRandom ----------------------------
(***************************************************************************)
(* Small instances of ShimRandom: two process ids, so that a child can     *)
(* take the id of a process that ended; the seed goes from 0 to 15 once.   *)
(* Words have four bits, halves two: pid 1 with seed 0 and pid 2 with seed *)
(* 15 are mixed into the same value, as may happen with 64 bits.           *)
(***************************************************************************)
EXTENDS ShimRandom, Bitwise

MCWord64 == 0 .. 15
MCPids == {1, 2}
MCSeeds == {15}
MCUserSeeds == {2}
MCMix(seed, pid) == seed ^^ (pid * 4 + pid)
MCLow(seed) == seed % 4
=============================================================================
