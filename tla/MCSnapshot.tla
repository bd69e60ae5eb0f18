---------------------------- MODULE MCSnapshot -----------------------------
(***************************************************************************)
(* Snapshot, and the sync it is taken of, on small instances.              *)
(***************************************************************************)
EXTENDS SnapshotInv

(* Where a death loses nothing for good: anywhere but between the two      *)
(* writes that end a sync, and while a snapshot is written.                *)
SafePoints == (SyncSteps \ {"clearPage"}) \cup (ExportSteps \ {"writing"})
BetweenStamps == {"clearPage"}
NoPoints == {}
============================================================================
