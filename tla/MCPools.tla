-------------------------------- MODULE MCPools --------------------------------
(***************************************************************************)
(* Instances of Pools for TLC; the configurations give the sizes.          *)
(***************************************************************************)
EXTENDS Pools
===============================================================================
