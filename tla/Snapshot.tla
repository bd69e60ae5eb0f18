----------------------------- MODULE Snapshot ------------------------------
(***************************************************************************)
(* write_snapshot of src/ev_mcp/snapshot.py: the store is exported to one  *)
(* Parquet file per day, at the end of an ev-mcp-sync or by an             *)
(* ev-mcp-snapshot that someone runs at any time, while a sync writes too. *)
(*                                                                         *)
(* The state of the store is read in three steps: synced_at and the number *)
(* of rows on one connection, the rows themselves by DuckDB on another.    *)
(* DuckDB writes a new file in place; an existing one is replaced when the *)
(* new one is complete.  So a process that dies while it writes leaves a   *)
(* torn file under a new name.                                             *)
(***************************************************************************)
EXTENDS PySync

CONSTANT MaxDay          \* bound: days

ASSUME SnapshotAssumption == MaxDay \in Nat \ {0}

VARIABLES
    today,               \* the date in Korea
    files,               \* the snapshot directory: date -> content
    export               \* the locals of write_snapshot in each process

snapshotVars == <<today, files, export>>
vars == <<listed, table, sync_state, pc, sync, kills, seen, owed, owedBy,
          today, files, export>>

Torn == [whole |-> FALSE, synced_at |-> 0, row_count |-> 0, rows |-> {}]
NoExport == [force |-> FALSE, synced_at |-> 0, row_count |-> 0, date |-> 0, rows |-> {}]

ExportSteps == {"readSynced", "readCount", "check", "copy", "writing"}

(* File names sort by date.                                                *)
Latest == files[CHOOSE d \in DOMAIN files : \A e \in DOMAIN files : e <= d]

Init ==
    /\ SyncInit
    /\ today = 1
    /\ files = <<>>
    /\ export = [p \in Processes |-> NoExport]

Leave(p, from) ==
    /\ Goto(p, from, "idle")
    /\ export' = [export EXCEPT ![p] = NoExport]

StartSnapshot(p, force) ==
    /\ Goto(p, "idle", "readSynced")
    /\ export' = [export EXCEPT ![p].force = force]
    /\ UNCHANGED <<syncVars, today, files>>

ReadSynced(p) ==
    /\ Goto(p, "readSynced", "readCount")
    /\ export' = [export EXCEPT ![p].synced_at = LastSynced]
    /\ UNCHANGED <<syncVars, today, files>>

(* Never synced, or nothing in the store: a RuntimeError, which sync()     *)
(* logs, and which ends ev-mcp-snapshot.                                   *)
ReadCount(p) ==
    /\ IF export[p].synced_at = 0 \/ table = {}
       THEN Leave(p, "readCount")
       ELSE /\ Goto(p, "readCount", "check")
            /\ export' = [export EXCEPT ![p].row_count = Cardinality(table)]
    /\ UNCHANGED <<syncVars, today, files>>

IsRecorded_slipAnyFile(synced_at) == files # <<>>
(* The latest snapshot is of this sync already.                            *)
IsRecorded(synced_at) == files # <<>> /\ Latest.synced_at = synced_at

(* A torn latest file cannot be read: a DuckDB error, which neither sync() *)
(* nor ev-mcp-snapshot catches.                                            *)
CannotCheck(p) ==
    /\ ~export[p].force
    /\ files # <<>> /\ ~Latest.whole
    /\ Leave(p, "check")
    /\ UNCHANGED <<syncVars, today, files>>

Skip(p) ==
    /\ ~export[p].force
    /\ files # <<>> => Latest.whole
    /\ IsRecorded(export[p].synced_at)
    /\ Leave(p, "check")
    /\ UNCHANGED <<syncVars, today, files>>

Accept(p) ==
    /\ export[p].force \/ ((files # <<>> => Latest.whole) /\ ~IsRecorded(export[p].synced_at))
    /\ Goto(p, "check", "copy")
    /\ export' = [export EXCEPT ![p].date = today]
    /\ UNCHANGED <<syncVars, today, files>>

(* COPY ... TO: the query sees the rows as of its start.                   *)
BeginCopy(p) ==
    /\ Goto(p, "copy", "writing")
    /\ export' = [export EXCEPT ![p].rows = table]
    /\ files' = IF export[p].date \in DOMAIN files THEN files
                ELSE [d \in DOMAIN files \cup {export[p].date} |->
                          IF d = export[p].date THEN Torn ELSE files[d]]
    /\ UNCHANGED <<syncVars, today>>

EndCopy_slipStampsLate(p) ==
    /\ Leave(p, "writing")
    /\ files' = [files EXCEPT ![export[p].date] =
                     [whole |-> TRUE, synced_at |-> LastSynced,
                      row_count |-> export[p].row_count, rows |-> export[p].rows]]
    /\ UNCHANGED <<syncVars, today>>

EndCopy(p) ==
    /\ Leave(p, "writing")
    /\ files' = [files EXCEPT ![export[p].date] =
                     [whole |-> TRUE, synced_at |-> export[p].synced_at,
                      row_count |-> export[p].row_count, rows |-> export[p].rows]]
    /\ UNCHANGED <<syncVars, today>>

Die(p) ==
    /\ kills < MaxKills
    /\ pc[p] \in KillPoints
    /\ kills' = kills + 1
    /\ Leave(p, pc[p])
    /\ sync' = [sync EXCEPT ![p] = NoSync]
    /\ UNCHANGED <<listed, storeVars, historyVars, today, files>>

Midnight ==
    /\ today < MaxDay
    /\ today' = today + 1
    /\ UNCHANGED <<syncVars, pc, files, export>>

ExportStep(p) ==
    \/ ReadSynced(p) \/ ReadCount(p)
    \/ CannotCheck(p) \/ Skip(p) \/ Accept(p)
    \/ BeginCopy(p) \/ EndCopy(p)

Start(p) ==
    \/ /\ p \in Syncers
       /\ \E size \in PageSizes, full, snapshot \in BOOLEAN :
            StartSync(p, size, full, snapshot)
       /\ UNCHANGED snapshotVars
    \/ p \in Exporters /\ \E force \in BOOLEAN : StartSnapshot(p, force)

Next ==
    \/ \E p \in Processes :
         \/ Start(p)
         \/ SyncStep(p) /\ UNCHANGED snapshotVars
         \/ ExportStep(p)
         \/ Die(p)
    \/ Publish /\ UNCHANGED snapshotVars
    \/ Midnight

Spec == Init /\ [][Next]_vars

(* A process that runs goes on until it ends or dies, syncs and snapshots  *)
(* are started again, and the upstream, asked again and again, answers.    *)
Fairness ==
    /\ \A p \in Processes : WF_vars(Start(p)) /\ WF_vars(ExportStep(p))
    /\ \A p \in Syncers :
           /\ WF_vars(SyncStep(p) /\ UNCHANGED snapshotVars)
           /\ SF_vars(FetchPage(p) /\ UNCHANGED snapshotVars)

FairSpec == Spec /\ Fairness

----------------------------------------------------------------------------
SyncLocals == [page : Nat, size : Nat, snapshot : BOOLEAN, items : SUBSET Rows, total : Nat]
ExportLocals == [force : BOOLEAN, synced_at : Nat, row_count : Nat, date : Nat,
                 rows : SUBSET Rows]
File == [whole : BOOLEAN, synced_at : Nat, row_count : Nat, rows : SUBSET Rows]

(* Every variable keeps its type: a process is in sync() or in             *)
(* write_snapshot, and no snapshot is dated ahead of the day.              *)
TypeOK ==
    /\ listed \in 0..MaxRows
    /\ table \subseteq Rows
    /\ sync_state \in [StateKeys -> Nat]
    /\ pc \in [Processes -> {"idle"} \cup SyncSteps \cup ExportSteps]
    /\ sync \in [Processes -> SyncLocals]
    /\ kills \in Nat
    /\ seen \subseteq Rows
    /\ owed \in 0..MaxRows
    /\ owedBy \in Seq(0..MaxRows)
    /\ today \in Nat \ {0}
    /\ DOMAIN files \subseteq 1..today /\ files \in [DOMAIN files -> File]
    /\ export \in [Processes -> ExportLocals]

(* A snapshot that names a sync has at least the rows that sync vouched    *)
(* for, however the export was interleaved with the next one.              *)
ExportCoversSync ==
    \A d \in DOMAIN files :
        files[d].whole => 1..owedBy[files[d].synced_at] \subseteq files[d].rows

(* The snapshots keep up with the syncs: once no more syncs complete, the  *)
(* latest snapshot comes to be of the last one and stays so, although      *)
(* processes die, overlap, and overwrite one another's snapshots.          *)
SnapshotsKeepUp ==
    <>[](files # <<>> /\ Latest.whole /\ Latest.synced_at = MaxSyncs)
============================================================================
