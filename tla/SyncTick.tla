----------------------------- MODULE SyncTick ------------------------------
(***************************************************************************)
(* The paginated inventory sync of workers/src/sync.ts.                    *)
(*                                                                         *)
(* A slot is a Worker invocation: it runs one runSyncTick (the cron        *)
(* trigger, or POST /internal/sync with its own pageSize / pagesPerTick)   *)
(* or one resetSyncCycle (POST /internal/sync-reset) and is then free for  *)
(* the next one.  Every `await` on the store or on the upstream is a step  *)
(* of its own, so two slots interleave exactly where the code lets them;   *)
(* one slot models the cron alone.  A slot may be killed between any two   *)
(* of its steps (CPU budget, eviction, an RPC that throws): its locals are *)
(* lost and what it has written stays.                                     *)
(*                                                                         *)
(* The upstream listing is append only: row r is on page p of size n when  *)
(* (p-1)*n < r <= p*n.  Rows are revised in place.                         *)
(*                                                                         *)
(* Definitions named X_slip... are X with a slip a maintainer could make;  *)
(* Spec does not use them.  Each shows that some property can fail.        *)
(***************************************************************************)
EXTENDS InventoryStore, FiniteSets

CONSTANTS
    Slots,           \* concurrent invocations
    PageSizes,       \* the page sizes a tick may be asked for
    PagesPerTick,    \* the pagesPerTick a tick may be asked for
    InitialRows,     \* rows listed upstream at the start
    MaxRows,         \* bound: rows ever listed
    MaxRevisions,    \* bound: revisions of upstream rows
    MaxKills,        \* bound: invocations killed
    MaxResets,       \* bound: cycle resets requested
    MaxClock,        \* bound: cycles finished or reset
    SeedSets         \* sets of rows the dev seed route may post

ASSUME SyncAssumption ==
    /\ PageSizes \subseteq Nat \ {0}
    /\ PagesPerTick \subseteq Nat \ {0}
    /\ InitialRows \in Nat /\ MaxRows \in Nat /\ InitialRows <= MaxRows
    /\ MaxRevisions \in Nat /\ MaxKills \in Nat /\ MaxResets \in Nat
    /\ MaxClock \in Nat
    /\ Chargers = 1..MaxRows
    /\ SeedSets \subseteq SUBSET Chargers

VARIABLES
    listed,          \* number of rows the upstream lists
    upstream,        \* their contents
    revisions,       \* revisions of upstream rows so far
    pc,              \* what each slot awaits next
    tick,            \* the locals of the tick a slot runs
    clock,           \* the time, counted in cycles finished or reset
    kills, resets,   \* how many there have been
    seen,            \* history: rows upserted in the cycle in progress
    sizes,           \* history: page sizes they were fetched with
    owed             \* history: rows listed when the cycle began

upstreamVars == <<listed, upstream, revisions>>
slotVars == <<pc, tick>>
historyVars == <<seen, sizes, owed>>
vars == <<chargers, sync_state, listed, upstream, revisions, pc, tick, clock,
          kills, resets, seen, sizes, owed>>

TickSteps == {"readPage", "readTotal", "readSize", "fetch", "lockSize",
              "putTotal", "stampStart", "upsert", "putPage", "putSynced",
              "clearPage", "clearTotal", "clearSize"}
ResetSteps == {"resetPage", "resetTotal", "resetSize", "resetStart"}
Steps == {"idle"} \cup TickSteps \cup ResetSteps

(* The locals of a tick called with these options, and of no tick.         *)
NewTick(size, pages) ==
    [last |-> 0, total |-> 0, locked |-> 0, size |-> size, left |-> pages,
     items |-> {}, count |-> 0]
Idle == NewTick(0, 0)

Lcp_slipFromZero == sync_state["last_completed_page"] - 1
Lcp == sync_state["last_completed_page"]
TotalPages == sync_state["total_pages"]
PageSize == sync_state["page_size"]

PageRows(page, size) == ((page - 1) * size + 1)..(page * size)
CeilDiv_slipFloor(a, b) == a \div b
CeilDiv(a, b) == (a + b - 1) \div b

----------------------------------------------------------------------------
Init ==
    /\ StoreInit
    /\ listed = InitialRows
    /\ upstream = [r \in Chargers |-> [key |-> r, dt |-> 1, body |-> 1]]
    /\ revisions = 0
    /\ pc = [s \in Slots |-> "idle"]
    /\ tick = [s \in Slots |-> Idle]
    /\ clock = 1
    /\ kills = 0
    /\ resets = 0
    /\ seen = {}
    /\ sizes = {}
    /\ owed = InitialRows

(* The slot leaves `from` for `to` with locals `locals`.                   *)
Goto(s, from, to, locals) ==
    /\ pc[s] = from
    /\ pc' = [pc EXCEPT ![s] = to]
    /\ tick' = [tick EXCEPT ![s] = locals]

Return(s, from) == Goto(s, from, "idle", Idle)

----------------------------------------------------------------------------
(* runSyncTick                                                             *)

StartTick(s, size, pages) ==
    /\ clock < MaxClock
    /\ Goto(s, "idle", "readPage", NewTick(size, pages))
    /\ UNCHANGED <<storeVars, upstreamVars, clock, kills, resets, historyVars>>

ReadPage_slipFromStart(s) ==
    /\ Goto(s, "readPage", "readTotal", [tick[s] EXCEPT !.last = 0])
    /\ UNCHANGED <<storeVars, upstreamVars, clock, kills, resets, historyVars>>

ReadPage(s) ==
    /\ Goto(s, "readPage", "readTotal", [tick[s] EXCEPT !.last = Lcp])
    /\ UNCHANGED <<storeVars, upstreamVars, clock, kills, resets, historyVars>>

ReadTotal(s) ==
    /\ Goto(s, "readTotal", "readSize", [tick[s] EXCEPT !.total = TotalPages])
    /\ UNCHANGED <<storeVars, upstreamVars, clock, kills, resets, historyVars>>

ReadSize_slipNoOverride(s) ==
    /\ Goto(s, "readSize", "fetch", [tick[s] EXCEPT !.locked = PageSize])
    /\ UNCHANGED <<storeVars, upstreamVars, clock, kills, resets, historyVars>>

(* A non-zero lock overrides the requested page size.                      *)
ReadSize(s) ==
    /\ Goto(s, "readSize", "fetch",
            [tick[s] EXCEPT !.locked = PageSize,
                            !.size = IF PageSize > 0 THEN PageSize ELSE @])
    /\ UNCHANGED <<storeVars, upstreamVars, clock, kills, resets, historyVars>>

(* Where the tick goes after each of the conditional writes of a page (the *)
(* test `i === 0` adds nothing to `lastCompleted === 0`).                  *)
AfterTotal(t) == IF t.last = 0 THEN "stampStart" ELSE "upsert"
AfterLock_slipStampWithTotal(t) ==
    IF t.total # 0 \/ t.count = 0 THEN "upsert" ELSE "putTotal"
AfterLock(t) ==
    IF t.total # 0 THEN "upsert"
    ELSE IF t.count > 0 THEN "putTotal" ELSE AfterTotal(t)
AfterFetch_slipLockWithTotal(t) ==
    IF t.locked = 0 /\ t.last = 0 /\ t.count > 0 THEN "lockSize" ELSE AfterLock(t)
AfterFetch(t) ==
    IF t.locked = 0 /\ t.last = 0 THEN "lockSize" ELSE AfterLock(t)

(* getChargerInfo answered: the rows of the page as they are now, and a    *)
(* header whose total_count may be missing (`?? 0`).                       *)
Served(t) == {upstream[r] : r \in PageRows(t.last + 1, t.size) \cap 1..listed}
WithPage(t, rows, count) == [t EXCEPT !.items = rows, !.count = count]

FetchPage(s) ==
    /\ \E count \in {0, listed} :
         LET t == WithPage(tick[s], Served(tick[s]), count)
         IN  Goto(s, "fetch", AfterFetch(t), t)
    /\ UNCHANGED <<storeVars, upstreamVars, clock, kills, resets, historyVars>>

(* All retries failed: the error is reported and the state left alone.     *)
FetchFails(s) ==
    /\ Return(s, "fetch")
    /\ UNCHANGED <<storeVars, upstreamVars, clock, kills, resets, historyVars>>

LockSize(s) ==
    /\ Goto(s, "lockSize", AfterLock(tick[s]), tick[s])
    /\ SetSyncState("page_size", tick[s].size)
    /\ UNCHANGED <<chargers, upstreamVars, clock, kills, resets, historyVars>>

PutTotal(s) ==
    LET total == CeilDiv(tick[s].count, tick[s].size)
    IN  /\ Goto(s, "putTotal", AfterTotal(tick[s]), [tick[s] EXCEPT !.total = total])
        /\ SetSyncState("total_pages", total)
        /\ UNCHANGED <<chargers, upstreamVars, clock, kills, resets, historyVars>>

StampStart(s) ==
    /\ Goto(s, "stampStart", "upsert", tick[s])
    /\ SetSyncState("cycle_started_at", clock)
    /\ UNCHANGED <<chargers, upstreamVars, clock, kills, resets, historyVars>>

(* An empty page makes no call; it leaves the table as it is.              *)
UpsertPage(s) ==
    LET t == tick[s]
    IN  /\ Goto(s, "upsert", "putPage", t)
        /\ UpsertMany(t.items, clock)
        /\ seen' = seen \cup {row.key : row \in t.items}
        /\ sizes' = sizes \cup {t.size}
        /\ UNCHANGED <<sync_state, upstreamVars, clock, kills, resets, owed>>

CycleEnds_slipOneEarly(t) ==
    \/ Cardinality(t.items) < t.size
    \/ t.total > 0 /\ t.last + 2 >= t.total

(* A short page, or the predicted last one, ends the cycle.                *)
CycleEnds(t) ==
    \/ Cardinality(t.items) < t.size
    \/ t.total > 0 /\ t.last + 1 >= t.total

NextPage_slipTwice(t) ==
    [last |-> t.last + 2, total |-> t.total, locked |-> t.locked, size |-> t.size,
     left |-> t.left - 1, items |-> {}, count |-> 0]

NextPage(t) ==
    [last |-> t.last + 1, total |-> t.total, locked |-> t.locked, size |-> t.size,
     left |-> t.left - 1, items |-> {}, count |-> 0]

PutPage(s) ==
    LET t == tick[s]
    IN  /\ IF CycleEnds(t) THEN Goto(s, "putPage", "putSynced", Idle)
           ELSE IF t.left = 1 THEN Return(s, "putPage")
           ELSE Goto(s, "putPage", "fetch", NextPage(t))
        /\ SetSyncState("last_completed_page", t.last + 1)
        /\ UNCHANGED <<chargers, upstreamVars, clock, kills, resets, historyVars>>

PutSynced(s) ==
    /\ Goto(s, "putSynced", "clearPage", Idle)
    /\ SetSyncState("last_synced_at", clock)
    /\ clock' = clock + 1
    /\ UNCHANGED <<chargers, upstreamVars, kills, resets, historyVars>>

BeginCycle_slipKeepsCursor ==
    /\ SetSyncState("total_pages", 0)
    /\ UNCHANGED historyVars

(* With the cursor back at 0 the next cycle begins: it owes every row that *)
(* is listed by now.                                                       *)
BeginCycle ==
    /\ SetSyncState("last_completed_page", 0)
    /\ seen' = {}
    /\ sizes' = {}
    /\ owed' = listed

(* The three writes that release the cycle.                                *)
ClearPage(s) ==
    /\ Goto(s, "clearPage", "clearTotal", Idle)
    /\ BeginCycle
    /\ UNCHANGED <<chargers, upstreamVars, clock, kills, resets>>

ClearTotal(s) ==
    /\ Goto(s, "clearTotal", "clearSize", Idle)
    /\ SetSyncState("total_pages", 0)
    /\ UNCHANGED <<chargers, upstreamVars, clock, kills, resets, historyVars>>

ClearSize(s) ==
    /\ Return(s, "clearSize")
    /\ SetSyncState("page_size", 0)
    /\ UNCHANGED <<chargers, upstreamVars, clock, kills, resets, historyVars>>

----------------------------------------------------------------------------
(* resetSyncCycle                                                          *)

StartReset(s) ==
    /\ resets < MaxResets
    /\ resets' = resets + 1
    /\ Goto(s, "idle", "resetPage", Idle)
    /\ UNCHANGED <<storeVars, upstreamVars, clock, kills, historyVars>>

ResetPage(s) ==
    /\ Goto(s, "resetPage", "resetTotal", Idle)
    /\ BeginCycle
    /\ clock' = clock + 1
    /\ UNCHANGED <<chargers, upstreamVars, kills, resets>>

ResetTotal(s) ==
    /\ Goto(s, "resetTotal", "resetSize", Idle)
    /\ SetSyncState("total_pages", 0)
    /\ UNCHANGED <<chargers, upstreamVars, clock, kills, resets, historyVars>>

ResetSize(s) ==
    /\ Goto(s, "resetSize", "resetStart", Idle)
    /\ SetSyncState("page_size", 0)
    /\ UNCHANGED <<chargers, upstreamVars, clock, kills, resets, historyVars>>

ResetStart(s) ==
    /\ Return(s, "resetStart")
    /\ SetSyncState("cycle_started_at", 0)
    /\ UNCHANGED <<chargers, upstreamVars, clock, kills, resets, historyVars>>

----------------------------------------------------------------------------
(* The environment: a killed invocation, the dev seed route, the upstream. *)

Kill(s) ==
    /\ kills < MaxKills
    /\ pc[s] # "idle"
    /\ kills' = kills + 1
    /\ Return(s, pc[s])
    /\ UNCHANGED <<storeVars, upstreamVars, clock, resets, historyVars>>

Seed(rows) ==
    /\ SeedForTesting({upstream[r] : r \in rows}, clock)
    /\ UNCHANGED <<upstreamVars, slotVars, clock, kills, resets, historyVars>>

Publish ==
    /\ listed < MaxRows
    /\ listed' = listed + 1
    /\ UNCHANGED <<storeVars, upstream, revisions, slotVars, clock, kills, resets,
                   historyVars>>

(* A revision comes with a fresh stat_upd_dt or with none.                 *)
Revise(r) ==
    /\ revisions < MaxRevisions
    /\ revisions' = revisions + 1
    /\ \E dt \in {NoDt, upstream[r].body + 1} :
         upstream' = [upstream EXCEPT ![r] = [key |-> r, dt |-> dt, body |-> @.body + 1]]
    /\ UNCHANGED <<storeVars, listed, slotVars, clock, kills, resets, historyVars>>

TickStep(s) ==
    \/ ReadPage(s) \/ ReadTotal(s) \/ ReadSize(s)
    \/ FetchPage(s) \/ FetchFails(s)
    \/ LockSize(s) \/ PutTotal(s) \/ StampStart(s) \/ UpsertPage(s) \/ PutPage(s)
    \/ PutSynced(s) \/ ClearPage(s) \/ ClearTotal(s) \/ ClearSize(s)

ResetStep(s) ==
    \/ ResetPage(s) \/ ResetTotal(s) \/ ResetSize(s) \/ ResetStart(s)

Next ==
    \/ \E s \in Slots :
         \/ \E size \in PageSizes, pages \in PagesPerTick : StartTick(s, size, pages)
         \/ TickStep(s)
         \/ StartReset(s)
         \/ ResetStep(s)
         \/ Kill(s)
    \/ \E rows \in SeedSets : Seed(rows)
    \/ Publish
    \/ \E r \in 1..listed : Revise(r)

Spec == Init /\ [][Next]_vars

(* Every invocation that has started takes its next step, the cron trigger *)
(* keeps firing, and the upstream, asked again and again, sometimes        *)
(* answers.  Nobody is obliged to kill, reset, seed, list or revise.       *)
Fairness ==
    \A s \in Slots :
        /\ WF_vars(\E size \in PageSizes, pages \in PagesPerTick :
                       StartTick(s, size, pages))
        /\ WF_vars(TickStep(s))
        /\ SF_vars(FetchPage(s))
        /\ WF_vars(ResetStep(s))

FairSpec == Spec /\ Fairness

----------------------------------------------------------------------------
Locals == [last : Nat, total : Nat, locked : Nat, size : Nat, left : Nat,
           items : SUBSET Row, count : Nat]

(* Every variable keeps its type: in particular the persisted counters and *)
(* the tick's page arithmetic never leave the naturals.                    *)
TypeOK ==
    /\ StoreTypeOK
    /\ listed \in 0..MaxRows
    /\ upstream \in [Chargers -> Row]
    /\ revisions \in Nat
    /\ pc \in [Slots -> Steps]
    /\ tick \in [Slots -> Locals]
    /\ clock \in Nat \ {0}
    /\ kills \in Nat /\ resets \in Nat
    /\ seen \subseteq Chargers
    /\ sizes \subseteq Nat \ {0}
    /\ owed \in 0..MaxRows

(* While a cycle is in progress its page size is on record, so that the    *)
(* tick that resumes it, after a kill too, cannot choose another.          *)
LockHeldMidCycle == Lcp > 0 => PageSize > 0

(* "pageSize is locked for the duration of a cycle": all the pages of one  *)
(* cycle were fetched with one page size (runSyncTick, pageSize lock).     *)
OneSizePerCycle == \A m, n \in sizes : m = n

(* Resuming at last_completed_page + 1 skips nothing: each row owed by the *)
(* cycle that lies on a completed page, in pages of the recorded size, has *)
(* been upserted in this cycle.                                            *)
ResumePoint ==
    \A p \in 1..Lcp : PageRows(p, PageSize) \cap 1..owed \subseteq seen

(* last_completed_page is the highest page upserted: it goes up one page   *)
(* at a time and never back, except to 0 when the cycle is released.       *)
CursorStep == Lcp' \in {0, Lcp, Lcp + 1}
CursorNeverFallsBack == [][CursorStep]_vars

(* last_synced_at is "the last full-cycle finish": when a tick writes it,  *)
(* every row listed before the cycle began has been upserted in it.        *)
FinishIsFull ==
    \A s \in Slots :
        pc[s] = "putSynced" /\ pc'[s] = "clearPage" => 1..owed \subseteq seen
FullCycleFinish == [][FinishIsFull]_vars

(* cycle_started_at is the time "when last_completed_page last             *)
(* transitioned from 0 to 1": that transition finds it freshly stamped.    *)
StartIsStamped == Lcp = 0 /\ Lcp' = 1 => sync_state'["cycle_started_at"] = clock
CycleStartStamped == [][StartIsStamped]_vars

(* The smart upsert leaves no page row behind: after upsertMany the table  *)
(* holds the fetched revision of each row of the page, written or skipped. *)
PageIsStored ==
    \A s \in Slots :
        pc[s] = "upsert" /\ pc'[s] = "putPage" =>
            \A row \in tick[s].items : chargers'[row.key].body = row.body
UpsertStoresPage == [][PageIsStored]_vars

(* A stored row is never replaced by an older revision of itself.          *)
RowsKeepUp == \A c \in Chargers : chargers'[c].body >= chargers[c].body
RowsNeverRegress == [][RowsKeepUp]_vars

(* The sync keeps finishing cycles, whatever fails, dies or is reset on    *)
(* the way, up to the bound on the cycles.                                 *)
CyclesKeepFinishing == <>(clock >= MaxClock)
============================================================================
