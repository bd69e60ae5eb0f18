-------------------------- MODULE InventoryStore --------------------------
(***************************************************************************)
(* The global InventoryStore Durable Object (workers/src/inventory_store.ts)*)
(* as its writers see it: the `chargers` table and the `sync_state` key    *)
(* value table.  A method of the object runs to completion before the next *)
(* one starts, so each operator below is one atomic step; a caller that    *)
(* awaits several of them can be interleaved with other callers, or die,   *)
(* between any two.  (For the _slip definitions see SyncTick.)             *)
(*                                                                         *)
(* Of an incoming row we keep what the write path looks at: its primary    *)
(* key, its stat_upd_dt `dt` (a stamp, or NoDt for null) and `body`, the   *)
(* revision of everything else.  A stored row also has `upserted_at`; a    *)
(* charger without a row has NoRow, whose dt is NoDt because               *)
(* `existing[0]?.stat_upd_dt ?? null` reads a missing row as null.         *)
(***************************************************************************)
EXTENDS Integers

CONSTANT Chargers        \* the primary keys (stat_id, chger_id) there can be

VARIABLES
    chargers,            \* the `chargers` table
    sync_state           \* the `sync_state` table

storeVars == <<chargers, sync_state>>

NoDt == 0
NoRow == [dt |-> NoDt, body |-> 0, upserted_at |-> 0]

Row == [key : Chargers, dt : Nat, body : Nat \ {0}]
StoredRow == [dt : Nat, body : Nat, upserted_at : Nat]

(* Counters are read back through parseIntOrZero, so an unset key and "0"  *)
(* are the same number; an unset or empty timestamp is 0.                  *)
SyncKeys == {"last_completed_page", "total_pages", "page_size",
             "cycle_started_at", "last_synced_at"}

StoreTypeOK ==
    /\ chargers \in [Chargers -> StoredRow]
    /\ sync_state \in [SyncKeys -> Nat]

StoreInit ==
    /\ chargers = [c \in Chargers |-> NoRow]
    /\ sync_state = [k \in SyncKeys |-> 0]

SameStamp_slipNullsMatch(stored, row) == stored.dt = row.dt

(* Skip a row when both sides carry a stat_upd_dt and they are equal.      *)
SameStamp(stored, row) ==
    /\ stored.dt # NoDt
    /\ row.dt # NoDt
    /\ stored.dt = row.dt

UpsertMany_slipDeleteFirst(rows, now) ==
    chargers' =
        [c \in Chargers |->
            LET new == {row \in rows : row.key = c /\ ~SameStamp(chargers[c], row)}
            IN  IF new = {} THEN IF c \in {row.key : row \in rows} THEN NoRow
                                 ELSE chargers[c]
                ELSE LET row == CHOOSE row \in new : TRUE
                     IN  [dt |-> row.dt, body |-> row.body, upserted_at |-> now]]

(* `rows` holds at most one row per key.                                   *)
UpsertMany(rows, now) ==
    chargers' =
        [c \in Chargers |->
            LET new == {row \in rows : row.key = c /\ ~SameStamp(chargers[c], row)}
            IN  IF new = {} THEN chargers[c]
                ELSE LET row == CHOOSE row \in new : TRUE
                     IN  [dt |-> row.dt, body |-> row.body, upserted_at |-> now]]

SetSyncState(key, value) ==
    sync_state' = [sync_state EXCEPT ![key] = value]

(* seedForTesting: an upsert and the completion stamp in one call.         *)
SeedForTesting(rows, now) ==
    /\ UpsertMany(rows, now)
    /\ SetSyncState("last_synced_at", now)
============================================================================
