----------------------------- MODULE MCStringPool -----------------------------
(***************************************************************************)
(* Instances of StringPool for TLC.                                        *)
(***************************************************************************)
EXTENDS StringPool, TLC

ThreadSymmetry == Permutations(Threads)
===============================================================================
