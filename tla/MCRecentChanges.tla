-------------------------- MODULE MCRecentChanges --------------------------
(***************************************************************************)
(* RecentChanges on small instances.                                       *)
(***************************************************************************)
EXTENDS RecentChanges
============================================================================
