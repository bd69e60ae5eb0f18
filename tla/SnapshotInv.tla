---------------------------- MODULE SnapshotInv ----------------------------
(***************************************************************************)
(* The inductive invariant behind PySync and Snapshot, for one syncer with *)
(* one page size that does not die between the two writes that end a sync  *)
(* (OneSafeSyncer), and any number of exporters.                           *)
(***************************************************************************)
EXTENDS Snapshot

(* The assumption of the proofs.  Without any part of it ResumePoint or    *)
(* FullSyncFinish fails.                                                   *)
OneSafeSyncer ==
    /\ \A p, q \in Syncers : p = q
    /\ \A m, n \in PageSizes : m = n
    /\ "clearPage" \notin KillPoints

PageSteps == SyncSteps \ {"putSynced", "clearPage"}

(* Only syncers sync, and in whole pages.                                  *)
SyncsInPages(p) ==
    /\ pc[p] \in SyncSteps => p \in Syncers
    /\ pc[p] \in PageSteps => sync[p].page > 0 /\ sync[p].size \in PageSizes

(* A sync never works ahead of the recorded page (--full: behind it).      *)
FollowsCursor(p) ==
    pc[p] \in {"fetch", "sleep", "upsert", "putPage"} => sync[p].page <= Lcp + 1

(* The page in hand holds all that is owed of it, and a page that will be  *)
(* taken for the last one reaches beyond all that is owed.                 *)
PageInHand(p) ==
    pc[p] \in {"upsert", "putPage", "putTotal"} =>
        /\ PageRows(sync[p].page, sync[p].size) \cap 1..owed \subseteq sync[p].items
        /\ IsLastPage(sync[p]) => sync[p].page * sync[p].size >= owed

PageUpserted(p) == pc[p] \in {"putPage", "putTotal"} => sync[p].items \subseteq seen
PageRecorded(p) == pc[p] = "putTotal" => Lcp = sync[p].page
EndReached(p) == pc[p] = "putSynced" => 1..owed \subseteq seen

SyncerInv(p) ==
    /\ SyncsInPages(p)
    /\ FollowsCursor(p)
    /\ PageInHand(p)
    /\ PageUpserted(p)
    /\ PageRecorded(p)
    /\ EndReached(p)

CycleInv ==
    /\ ResumePoint
    /\ owed <= listed
    /\ \A p \in Processes : SyncerInv(p)

(* The table keeps what completed syncs vouched for.                       *)
VouchedFor(synced_at, rows) ==
    /\ synced_at \in 1..LastSynced
    /\ 1..owedBy[synced_at] \subseteq rows

TableKeeps ==
    /\ seen \subseteq table
    /\ Len(owedBy) = LastSynced
    /\ \A s \in 1..LastSynced : 1..owedBy[s] \subseteq table

ExporterInv(p) ==
    /\ pc[p] \in {"readCount", "check", "copy", "writing"} =>
           export[p].synced_at \in 0..LastSynced
    /\ pc[p] \in {"check", "copy", "writing"} =>
           VouchedFor(export[p].synced_at, table)
    /\ pc[p] = "writing" => VouchedFor(export[p].synced_at, export[p].rows)
    /\ pc[p] \in {"copy", "writing"} => export[p].date \in 1..today
    /\ pc[p] = "writing" => export[p].date \in DOMAIN files

FilesVouch ==
    \A d \in DOMAIN files : files[d].whole => VouchedFor(files[d].synced_at, files[d].rows)

ExportInv ==
    /\ TableKeeps
    /\ \A p \in Processes : ExporterInv(p)
    /\ FilesVouch

(* The inductive invariant: the named parts above together.                *)
IInv == TypeOK /\ CycleInv /\ ExportInv
============================================================================
