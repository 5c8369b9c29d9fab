------------------------------ MODULE MC_Cache ------------------------------
(***************************************************************************)
(* CacheHistory with real 64-byte blocks: two addresses of block 0, then   *)
(* blocks 1, 2, 4 and 6, which collide with one another in different ways  *)
(* under 1, 2, 3, 4 and 8 sets.                                            *)
(***************************************************************************)
EXTENDS CacheHistory

MCAddresses == {0, 63, 64, 130, 256, 447}
MCSetCounts == {0, 1, 2, 3, 4, 8}

=============================================================================
