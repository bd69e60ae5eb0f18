--------------------------- MODULE MCStatusCache ---------------------------
(***************************************************************************)
(* StatusCache on small instances.                                         *)
(***************************************************************************)
EXTENDS StatusCacheInv

Interchangeable == Permutations(Callers) \cup Permutations(Keys)
============================================================================
