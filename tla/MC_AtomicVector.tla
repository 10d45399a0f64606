---------------------------- MODULE MC_AtomicVector ----------------------------
(***************************************************************************)
(* AtomicVector for TLC: threads and stored values are model values, and   *)
(* both are interchangeable.                                               *)
(***************************************************************************)
EXTENDS AtomicVector, TLC

MCSymmetry == Permutations(Threads) \cup Permutations(Values)
=============================================================================
