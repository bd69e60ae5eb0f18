---------------------------- MODULE MCSyncTick -----------------------------
(***************************************************************************)
(* SyncTick on small instances.                                            *)
(***************************************************************************)
EXTENDS SyncTickInv

(* Primary keys are listing positions. *)
MCChargers == 1..MaxRows

NoSeeds == {}
FirstRowSeed == {{1}}
============================================================================
