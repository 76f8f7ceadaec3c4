-------------------------------- MODULE MCBin ---------------------------------
(***************************************************************************)
(* Instances of Bin for TLC; the configurations give the sizes.            *)
(***************************************************************************)
EXTENDS Bin
===============================================================================
