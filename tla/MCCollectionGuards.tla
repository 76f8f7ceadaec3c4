-------------------------- MODULE MCCollectionGuards --------------------------
(***************************************************************************)
(* CollectionGuards for TLC: the threads are model values, interchangeable *)
(* in the runs that check safety only.                                     *)
(***************************************************************************)
EXTENDS CollectionGuards, TLC

ThreadSymmetry == Permutations(Threads)
===============================================================================
