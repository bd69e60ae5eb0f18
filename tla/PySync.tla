------------------------------ MODULE PySync -------------------------------
(***************************************************************************)
(* The batch sync of the Python server, sync() of src/ev_mcp/sync.py, with *)
(* the part of its store (src/ev_mcp/store.py) that it writes.             *)
(*                                                                         *)
(* A command is an operating-system process.  Each call of the store is a  *)
(* committed transaction and a step of its own, and so is each answer of   *)
(* the upstream.  A command may die at any point in KillPoints: it is      *)
(* interrupted, or an exception the code does not catch ends it.           *)
(*                                                                         *)
(* The upstream listing is append only, and cut into pages as in SyncTick. *)
(* A row is its key: the store replaces rows unconditionally, and what     *)
(* counts here is whether a sync has brought them.                         *)
(*                                                                         *)
(* After its sync a command may export a snapshot: see Snapshot, which     *)
(* also has the specification.  For X_slip... definitions see SyncTick.    *)
(***************************************************************************)
EXTENDS Integers, FiniteSets, Sequences

CONSTANTS
    Syncers,             \* processes that run ev-mcp-sync
    Exporters,           \* processes that run ev-mcp-snapshot
    PageSizes,           \* the --page-size a sync may be given
    KillPoints,          \* where a process may die
    InitialRows,         \* rows listed upstream at the start
    MaxRows,             \* bound: rows ever listed
    MaxSyncs,            \* bound: completed syncs
    MaxKills             \* bound: processes that die

ASSUME PySyncAssumption ==
    /\ Syncers \cap Exporters = {}
    /\ PageSizes \subseteq Nat \ {0}
    /\ InitialRows \in Nat /\ MaxRows \in Nat /\ InitialRows <= MaxRows
    /\ MaxSyncs \in Nat /\ MaxKills \in Nat

VARIABLES
    listed,              \* number of rows the upstream lists
    table,               \* the `chargers` table: the rows in it
    sync_state,          \* the `sync_state` table
    pc,                  \* what each process does next
    sync,                \* the locals of sync() in each process
    kills,               \* how many have died
    seen,                \* history: rows upserted since last_synced_at was written
    owed,                \* history: rows listed when it was
    owedBy               \* history: what each completed sync owed

Processes == Syncers \cup Exporters
Rows == 1..MaxRows
StateKeys == {"last_completed_page", "total_count_observed", "last_synced_at"}

storeVars == <<table, sync_state>>
historyVars == <<seen, owed, owedBy>>
syncVars == <<listed, table, sync_state, sync, kills, seen, owed, owedBy>>

SyncSteps == {"fetch", "sleep", "upsert", "putPage", "putTotal", "putSynced", "clearPage"}

Lcp == sync_state["last_completed_page"]
LastSynced == sync_state["last_synced_at"]
PageRows(page, size) == ((page - 1) * size + 1)..(page * size)

NoSync == [page |-> 0, size |-> 0, snapshot |-> FALSE, items |-> {}, total |-> 0]

SyncInit ==
    /\ listed = InitialRows
    /\ table = {}
    /\ sync_state = [k \in StateKeys |-> 0]
    /\ pc = [p \in Processes |-> "idle"]
    /\ sync = [p \in Processes |-> NoSync]
    /\ kills = 0
    /\ seen = {}
    /\ owed = InitialRows
    /\ owedBy = <<>>

Goto(p, from, to) ==
    /\ pc[p] = from
    /\ pc' = [pc EXCEPT ![p] = to]

(* set_state: one transaction.  An unset key and "0" are the same number.  *)
SetState(key, value) == sync_state' = [sync_state EXCEPT ![key] = value]

(* upsert_many: one transaction, INSERT OR REPLACE.                        *)
UpsertMany(chargers) == table' = table \cup chargers

ResumePage_slipTwice(full) == IF full THEN 1 ELSE Lcp + 2
ResumePage_slipBefore(full) == IF full THEN 1 ELSE Lcp - 1
(* --full ignores the recorded page; it does not clear it.                 *)
ResumePage(full) == IF full THEN 1 ELSE Lcp + 1

StartSync(p, size, full, snapshot) ==
    /\ LastSynced < MaxSyncs
    /\ Goto(p, "idle", "fetch")
    /\ sync' = [sync EXCEPT ![p] = [page |-> ResumePage(full), size |-> size,
                                    snapshot |-> snapshot, items |-> {}, total |-> 0]]
    /\ UNCHANGED <<listed, storeVars, kills, historyVars>>

(* Locals of a sync that goes on to `page`, and of one that has no more to *)
(* fetch: those that are read again.                                       *)
AtPage(t, page) == [t EXCEPT !.page = page, !.items = {}, !.total = 0]
NoMorePages(t) == [NoSync EXCEPT !.snapshot = t.snapshot]

(* A page with its header, whose total_count may be missing: 0 here, as in *)
(* `or 0`.  An empty page ends the sync.                                   *)
FetchPage(p) ==
    LET items == PageRows(sync[p].page, sync[p].size) \cap 1..listed
    IN  /\ IF items = {}
           THEN /\ Goto(p, "fetch", "putSynced")
                /\ sync' = [sync EXCEPT ![p] = NoMorePages(@)]
           ELSE /\ Goto(p, "fetch", "upsert")
                /\ \E total \in {0, listed} :
                     sync' = [sync EXCEPT ![p].items = items, ![p].total = total]
        /\ UNCHANGED <<listed, storeVars, kills, historyVars>>

(* EvChargerError: sleep, and ask for the same page again.                 *)
FetchFails(p) ==
    /\ Goto(p, "fetch", "sleep")
    /\ UNCHANGED syncVars
WakeUp(p) ==
    /\ Goto(p, "sleep", "fetch")
    /\ UNCHANGED syncVars

UpsertPage(p) ==
    /\ Goto(p, "upsert", "putPage")
    /\ UpsertMany(sync[p].items)
    /\ seen' = seen \cup sync[p].items
    /\ UNCHANGED <<listed, sync_state, sync, kills, owed, owedBy>>

(* The header's total is reached, or the page is short.                    *)
IsLastPage(t) ==
    \/ t.total > 0 /\ t.page * t.size >= t.total
    \/ Cardinality(t.items) < t.size

(* After a page: the end, or the next page.                                *)
Proceed(p, from) ==
    IF IsLastPage(sync[p])
    THEN /\ Goto(p, from, "putSynced")
         /\ sync' = [sync EXCEPT ![p] = NoMorePages(@)]
    ELSE /\ Goto(p, from, "fetch")
         /\ sync' = [sync EXCEPT ![p] = AtPage(@, @.page + 1)]

PutPage(p) ==
    /\ SetState("last_completed_page", sync[p].page)
    /\ IF sync[p].total > 0 THEN Goto(p, "putPage", "putTotal") /\ UNCHANGED sync
       ELSE Proceed(p, "putPage")
    /\ UNCHANGED <<listed, table, kills, historyVars>>

PutTotal(p) ==
    /\ SetState("total_count_observed", sync[p].total)
    /\ Proceed(p, "putTotal")
    /\ UNCHANGED <<listed, table, kills, historyVars>>

(* The completion stamp.  What it vouches for goes into the history, and   *)
(* the next sync owes all that is listed by now.                           *)
PutSynced(p) ==
    /\ Goto(p, "putSynced", "clearPage")
    /\ SetState("last_synced_at", LastSynced + 1)
    /\ owedBy' = Append(owedBy, owed)
    /\ owed' = listed
    /\ seen' = {}
    /\ UNCHANGED <<listed, table, sync, kills>>

ClearPage_slipNotCleared(p) ==
    /\ Goto(p, "clearPage", IF sync[p].snapshot THEN "readSynced" ELSE "idle")
    /\ sync' = [sync EXCEPT ![p] = NoSync]
    /\ UNCHANGED <<listed, storeVars, kills, historyVars>>

(* "next full run starts fresh"; then the snapshot, if it was asked for.   *)
ClearPage(p) ==
    /\ Goto(p, "clearPage", IF sync[p].snapshot THEN "readSynced" ELSE "idle")
    /\ SetState("last_completed_page", 0)
    /\ sync' = [sync EXCEPT ![p] = NoSync]
    /\ UNCHANGED <<listed, table, kills, historyVars>>

Publish ==
    /\ listed < MaxRows
    /\ listed' = listed + 1
    /\ UNCHANGED <<storeVars, pc, sync, kills, historyVars>>

SyncStep(p) ==
    \/ FetchPage(p) \/ FetchFails(p) \/ WakeUp(p) \/ UpsertPage(p)
    \/ PutPage(p) \/ PutTotal(p) \/ PutSynced(p) \/ ClearPage(p)

----------------------------------------------------------------------------
(* A resumed sync skips nothing: what lies on the pages recorded as        *)
(* completed has been upserted since the last completed sync.              *)
ResumePoint ==
    \A size \in PageSizes :
        (\A p \in Processes : pc[p] # "clearPage") =>
            1..(Lcp * size) \cap 1..owed \subseteq seen

(* last_synced_at means that the whole inventory has been synced: when it  *)
(* is written, every row listed at the time of the stamp before it has     *)
(* been upserted since.                                                    *)
FinishIsFull ==
    LastSynced' # LastSynced => 1..owed \subseteq seen
FullSyncFinish == [][FinishIsFull]_<<syncVars, pc>>
============================================================================
