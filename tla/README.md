# A formal model of ev-mcp-kr

ev-mcp-kr serves Korean EV-charger data to MCP clients, from a Python server and
from a Cloudflare Worker, and publishes static dashboards built from the same data.
This directory holds TLA+ modules of the parts of it that have a protocol of their
own and of the queries whose figures must agree, the TLC configurations that check
them on small instances, and TLAPS proofs of what matters most for every instance.
Paths are relative to the repository root.

To run it: `tlc -config SyncKilled.cfg MCSyncTick.tla` for a model-checking run
(the table of runs below names module and configuration), `tlapm
SyncTickProofs.tla` for a proof module. Every module's opening comment says how its state and its steps correspond to the code. `PROJECT.json` lists the
components, the runs, the source lines of each definition, and the hazards.

## 1. The system

### Components, their state and their operations

| component | state | operations | modelled |
|---|---|---|---|
| Worker sync, `workers/src/sync.ts` | `sync_state` rows in the store; locals of a running tick | `runSyncTick`, `resetSyncCycle` (both write), `getSyncStatus` (reads) | yes |
| Worker store, `workers/src/inventory_store.ts` | `chargers`, `sync_state` tables of one Durable Object | `upsertMany`, `setSyncState`, `seedForTesting`; read queries | yes |
| Worker routes and cron, `workers/src/index.ts` | none | `/internal/sync`, `/internal/sync-reset`, `/internal/seed`, `scheduled` | triggers |
| Status cache, `src/ev_mcp/cache.py` | `_store`, `_locks` | `get_or_fetch`, `_gc`, `invalidate` | yes |
| Worker status tools, `workers/src/tools/status.ts` | `RecentChangesCache` | `recentStatusChanges`, `getChargerStatus` | yes |
| Worker's upstream client, `workers/src/client.ts` | attempt and timers of a call | `request`; unwrapping of bodies | `request` |
| Python's upstream client, `src/ev_mcp/client.py` | retry counter of a call | `_request`, `iter_all` | no (section 7) |
| Python sync, `src/ev_mcp/sync.py` with `store.py` | SQLite `chargers`, `sync_state` | `sync`, `upsert_many`, `set_state`; read queries | yes |
| Snapshot export, `src/ev_mcp/snapshot.py` | Parquet files, one per day | `write_snapshot` | yes |
| Web publication, `scripts/publish_web_*.py`, `build_trends_summary.py`, `refresh_web.sh` | files below `web/data` | copy, manifest, summary | as one step (section 7) |
| National dashboard and trends, `web/app.js`, `web/trends.js` | page variables, DuckDB workers with their files and views, charts, URL | `main`, `applyFilter`; `lazyDiff`, `ensureDates`, `ensureConn` | yes |
| Highway dashboard, `web/highway/*.js` (seven pages) | page variables, charts, markers, URL | `main`, `loadRoute`, `rerenderStations`, `rerender`, `loadStation`, `plotMarkers` | yes |
| Queries behind the dashboards, `Q_*` and `q*` in the same files | none | figures computed from rows | those that must agree |
| Inventory tools of the Worker, `workers/src/tools/inventory.ts`, `workers/src/codes` | none | pure functions of rows | yes |
| Query and analytics tools of the Python server, `src/ev_mcp/tools` | none; the status tools use the status cache | pure functions of rows | yes, but for three (section 7) |
| Geocoder, server shell, code tables, build scripts | none that matters | | no (no protocol) |

### How they interact

The Worker's cron trigger fires every five minutes (`workers/wrangler.toml`) and
runs one sync tick; a person can run another at any time through
`POST /internal/sync`, with a page size of their own (`workers/DEPLOY.md`
recommends it). A tick reads its position from the store, asks the upstream
`data.go.kr getChargerInfo` for a page, upserts it and writes its position back,
each by a separate call of the Durable Object. The query tools read the
`chargers` table at any moment in between. On the Python side the status tools
share one `StatusCache`; `ev-mcp-sync` fills a SQLite file which the server reads
and `snapshot.py` exports to Parquet; the publication scripts copy the exports to
the static site, where the dashboards query them with DuckDB in the browser. A
page is one script; its async functions share its variables, its canvases and its
DuckDB worker, and nothing keeps a second click from starting before the first
one's queries have answered.

### What is hard

* *Interleaving.* An export reads the SQLite file in three steps while a sync
  writes it. Every `await` of `runSyncTick` lets another invocation in, and
  nothing excludes two ticks, or a tick and a reset, from running together. In
  `get_or_fetch` the only atomicity is the code between two awaits, and `_gc`
  and `invalidate` take locks away from under their users.
* *Kills and partial failure.* A Worker invocation may end after any call, and so
  may an `ev-mcp-sync` or `ev-mcp-snapshot`. What belongs together (cursor, page
  count, page-size lock, start stamp; the completion stamp and the cleared cursor
  of the Python sync) is written by separate calls.
* *Ordering.* Slow answers meet newer ones: a page fetched before another tick's,
  a status fetched before a second fetch of the same key.
* *Time and growth.* A cycle takes most of a day while the listing grows and rows
  are revised; a fetch may outlast the cache's TTL, and a call of
  the Worker's client its own timeout three times over.
* *Liveness.* Fetches fail and invocations die, yet cycles must go on being
  finished, no caller may wait for ever on a lock, and no spinner may stay but for
  a wait that has no deadline.
* *Overlapping loads.* A page changes its variables before an await, draws after
  it, and may have been asked for something else meanwhile; `new Chart` throws on
  a canvas that was drawn on by another load.
* *Figures from different queries.* A KPI, the bars below it and the list one came
  from are each a query of its own, with its own filters (deleted rows, rows
  without a district, an address that names two highways, a boundary day).

### What makes each part correct

* *Sync*: resuming skips no row; all pages of a cycle have one size; the cursor
  never falls back; "synced" means a full refresh; every cycle has its start
  stamp; cycles keep being finished.
* *Store*: after an upsert the table has the fetched revision, skipped or written;
  no row goes back to an older revision.
* *Status cache*: no hit older than the TTL; one fetch per key at a time; those who
  waited take the answer that came; a late answer does not replace a newer entry;
  every call returns.
* *Recent changes*: a hit was current less than a TTL and one attempt ago.
* *Worker's client*: a call ends, within its attempts and their delays.
* *Python sync*: resuming skips no row; `last_synced_at` means that everything
  listed at the stamp before it has been fetched since.
* *Snapshot*: a file has what the sync it names vouched for; `row_count` is that of
  the file; the latest snapshot comes to be of the latest sync.
* *Dashboards*: once a page is quiet and showed no exception, all its parts belong
  to the selection of its URL; a difference is computed over both its dates; the
  spinner stops unless something without a deadline never comes.
* *Queries*: figures that a reader adds up or carries from one part to another agree;
  a difference balances.
* *Tools*: the answer has only what was asked for, and all of it, or the nearest,
  as far as the limits allow.

`PROJECT.json` lists these hazards one by one at their lines, the ones no
property covers yet included.

## 2. The plan

1. **InventoryStore**, **SyncTick**, **InventoryRefresh** (abstract), their
   invariant and proofs. *Done.*
2. **StatusCache**, its invariant and proofs. *Done.*
3. **PySync** and **Snapshot**: the Python sync with its store, the export at its
   end and beside it, their invariant and proofs. *Done.*
4. **UpstreamClient** (the Worker's `request`) and **RecentChanges**: the Worker's
   cache over it, with proofs. *Done.*
5. **Browser**, the nine pages over it, and **Pages**, which composes them. *Done.*
6. **Figures**, **InventoryTools** and **PyTools**: the queries of the pages and of
   the tools as operators on rows, and **Queries**, which checks them against each
   other on every small inventory. *Done.*
7. **TrendsProofs**: `DiffCoversDates` for any dates, engines and events. *Done.*
8. **SyncTickFinishProofs**: what a finished cycle is worth, under the kills that
   spare the release, and the refinement of InventoryRefresh. *Done.*
9. **PagesProofs**: `OneSelectionShown`, page by page. *Done.*
10. **QueriesProofs**: `ToolsAnswer`, `DiffBalances` and `FiguresAgree` on every
   inventory. *Done.*
11. Left: `getSyncStatus` and the query tools beside a running tick; the Python
   client's retry loop; the separate writes of the publication scripts. Section 7
   says what each would show.

Proofs in the same order: for each module its type invariant and its
strongest safety invariant.

No module that is proved about has a RECURSIVE operator.

## 3. The modules

| module | what it is |
|---|---|
| `InventoryStore` | the store's two tables and its three writing methods, one atomic operator each (a Durable Object method runs to completion) |
| `SyncTick` | `runSyncTick` and `resetSyncCycle`, one action per `await`; EXTENDS InventoryStore |
| `InventoryRefresh` | abstract specification of a refresh, whatever its pages and ticks |
| `SyncTickInv` | the inductive invariants of SyncTick and the refinement mapping to InventoryRefresh |
| `SyncTickProofs`, `SyncTickFinishProofs` | proofs about SyncTick: types, rows and the cycle under any kills; its end, its stamp and the refinement |
| `StatusCache` | `get_or_fetch`, `_gc`, `invalidate` |
| `StatusCacheInv`, `StatusCacheProofs` | its inductive invariant and the proofs |
| `PySync` | `sync()` of the Python server, one action per transaction or answer, with the writers of its store |
| `Snapshot` | `write_snapshot`, and the specification that composes it with the syncs; EXTENDS PySync |
| `SnapshotInv`, `SnapshotProofs` | the inductive invariant of both and the proofs |
| `UpstreamClient` | `request` of the Worker's client: attempts, abort timer, delays |
| `RecentChanges` | the Worker's live status tools and their cache; EXTENDS UpstreamClient |
| `RecentChangesProofs` | proofs about RecentChanges |
| `Browser` | what the pages have in common: calls that wait, elements, charts that throw, `showError` |
| `NationalPage`, `TrendsPage` | `web/app.js` and `web/trends.js` |
| `HighwayPage`, `RoutePage`, `ComparePage`, `StationPage`, `MapPage`, `OperatorsPage`, `ActivityPage` | the scripts under `web/highway` |
| `Pages` | opens any of the nine, reloads, fails; its properties |
| `TrendsProofs` | proofs about the trends page: its inductive invariant and `DiffCoversDates` |
| `PagesProofs` | proofs about all pages, a section for each: `TypeOK` and `OneSelectionShown`; EXTENDS TrendsProofs |
| `Lists` | rows in an order: what `ORDER BY`, `sort` and `sorted` promise |
| `Figures` | the SQL of the pages, as operators on rows |
| `InventoryTools` | the Worker's inventory tools over the read methods of its store |
| `PyTools` | the tools of the Python server that differ; EXTENDS InventoryTools |
| `Queries` | a store that is upserted and published, and what the queries promise of each other on it |
| `QueriesProofs` | proofs about Queries |
| `MCSyncTick`, `MCStatusCache`, `MCSnapshot`, `MCRecentChanges`, `MCPages`, `MCQueries` | instances for TLC: seeds, symmetry, where processes may die, small lists, rows on both sides of every condition |

### SyncTick

A *slot* is a place for a running invocation: with `Slots = {s1}` invocations
never overlap, with two they may. `pc[s]` names the call the invocation awaits
next, `tick[s]` holds its locals (`lastCompleted`, `totalPages`,
`lockedPageSize`, `pageSize`, pages left, the page in hand). The actions follow
the awaits of `runSyncTick` in order:

    StartTick  ReadPage  ReadTotal  ReadSize
      { FetchPage | FetchFails }  [LockSize]  [PutTotal]  [StampStart]
      UpsertPage  PutPage          -> next page, or return, or
      PutSynced  ClearPage  ClearTotal  ClearSize

`AfterFetch`, `AfterLock` and `AfterTotal` are the `if`s between the writes in
brackets; `CycleEnds` is the end test of line 196. `StartReset` and the four
`Reset...` actions are `resetSyncCycle`. `Kill` ends an invocation after any
step, `Seed` is the dev route (one call of the store), `Publish` lists one more
row upstream, and `Revise` changes a listed row, with a fresh `stat_upd_dt` or
none.

Abstractions: a row is its key, its `stat_upd_dt` and a revision number of all
the rest, because `upsertMany` looks at nothing else. An unset counter is 0, which
is how `parseIntOrZero` reads it, and an unset or cleared timestamp is 0. The
clock counts cycles finished or reset, enough to tell "stamped in this cycle"
from "stamped earlier". `header.total_count` is the number of listed rows or
missing. `seen`, `sizes` and `owed` are history variables: rows upserted in the
cycle in progress, page sizes they were fetched with, rows listed when it began.
A cycle begins when its cursor goes back to 0.

### StatusCache

`calls` is the partial function of the callers inside `get_or_fetch`: `waiting`
in `async with` or `fetching` in `await fetch()`. Everything between two awaits
is one action: `Hit`; `Miss` (first look, lock looked up or made, queued, and on
a free lock the second look as well); `RecheckHit` / `RecheckMiss` (second look
by a caller that waited); `FetchDone` (store, `_gc`, release) and `FetchFails`
(an exception or a cancellation); `Cancel` (of a caller that waits);
`Invalidate`. A lock is an object apart from the table that names it: it is its
queue of callers, the first of which holds it (`asyncio.Lock` is fair), and it
goes on serving them after `_gc` has dropped it. A value is the time at which it
was true upstream, chosen anywhere between the start and the end of the fetch.
The event loop cannot hand a lock to a newcomer while someone queues for it, so a
lock with a queue is never free in the model either.

### PySync and Snapshot

A *process* is a command: a member of `Syncers` runs `ev-mcp-sync`, one of
`Exporters` runs `ev-mcp-snapshot`, over and over. `pc[p]` names the transaction,
the answer or the file operation it is about to do, `sync[p]` holds the locals of
`sync()` and `export[p]` those of `write_snapshot`:

    StartSync
      { FetchPage | FetchFails WakeUp }  UpsertPage  PutPage  [PutTotal]
                                          -> next page, or
      PutSynced  ClearPage                -> idle, or the export:
    (StartSnapshot)  ReadSynced  ReadCount
      { CannotCheck | Skip | Accept  BeginCopy  EndCopy }

`IsLastPage` is the two tests of lines 96-103; an empty page ends the sync in
`FetchPage`. `StartSync` reads the recorded page, or ignores it (`--full`).
`CannotCheck` is a latest file that DuckDB cannot read, `Skip` the `synced_at`
that is recorded already. `BeginCopy` and `EndCopy` are the start and the end of
DuckDB's `COPY`: between them a new file is torn; an existing one is replaced at
the end, as DuckDB does by way of a temporary file. `Die` ends a process at any
place in `KillPoints`: an interrupt, a full disk, a locked database, an answer
that does not parse. `Midnight` changes the date, `Publish` lists one more row.

Abstractions: a row is its key, since `INSERT OR REPLACE` looks at nothing.
`last_synced_at` counts completed syncs (the stamps have microseconds and differ).
`COPY` sees the rows of one moment, its start: DuckDB's query runs in one SQLite
transaction. `seen`, `owed` and `owedBy` are history variables: rows upserted
since the last completion stamp, rows listed at that stamp, and what each
completed sync owed. This is the weakest thing `last_synced_at` can mean for a
sync that may be resumed days later: everything listed at the stamp before has
been fetched since.

### UpstreamClient and RecentChanges

`requests` is the partial function of the calls inside `request`: an attempt is
`sent`, or the call is `delayed` before the next one; `until` is when the abort
timer or the delay ends. `Send` and `Resend` begin an attempt, `Return` ends the
call, `BackOff` is a failure that is retried. `Retried` and `Final` are the ways
an attempt can fail: a body that is not JSON is among the first, because its error
carries no `resultCode` and line 250 lets only errors with one through. `Elapse`
stops at the next timer, so that neither an abort nor the end of a delay is late.

RecentChanges adds the cache. `Hit` and `Miss` are `recentStatusChanges` up to
its `await` (a `Miss` drops an expired entry), `Answered` is the rest of it,
`Failed` an error that goes to the caller, `AskLive` a `getChargerStatus`. `Wake` is
a new object of the agent, with an empty cache (`agent.ts:52`). Rows are the time at
which they were current, at any moment of the attempt that brought them. The
delays are all those the code may draw, `base` to `1.3 * base`, with a `base`
of one unit.

Unlike StatusCache this cache has no locks, so calls with one key overlap, and it
counts a lifetime from when rows arrived. Hence the different promise: there a
hit is at most a TTL old, here less than a TTL and a timeout. A slow answer may
replace a newer entry.

### Browser, the pages, Pages

JavaScript runs one stretch of code between two awaits at a time, so each such
stretch is an action. `calls` is the sequence of the async functions that wait:
at which await (`at`), with which selection in their locals (`sel`), for what
(`on`) and whether an exception after the wait reaches `showError` (`caught`) or
the console. `on` is an engine, `"fetchT"` (the fetch that aborts after 45 s),
`"fetch"` (a plain one) or `"cdn"` (the library and its worker). A wait on `fetchT`
has two phases. It returns with the headers, and its `finally` stops the timer
there (`app.js:18`); the step `ResponseBegins` turns the wait into one for the
`"body"`, which nothing aborts. Only then the page goes on (`Resumes`). An engine
answers its queries in the order they were asked (`IsTurn`); everything else may
answer in any order, fail (`Reject`, when `Faulty`) in either phase, or, when it
is `Untimed`, never. A `Promise.all` is one wait.

`url` is the selection in the query string, `state` the module-level variables of
the script, `shown` what each element was last drawn from. A query result is
abstracted to the selection it was asked for, because the properties ask whether
two parts of a page belong together, not what a bar looks like. `Draw` performs
the steps of a rendering in their order up to the first that throws: `new Chart`
on a canvas that has a chart, a text composed of the first row when there is
none. `Blank` is a canvas after `destroy()`. `showError` stops the spinner; the
panel it opens is never closed again, which is why `OneSelectionShown` speaks of
behaviours without an exception.

| page | waits of | what an event of the user does |
|---|---|---|
| NationalPage | `main`; `applyFilter` (its queries) | `onSidoClick` on a bar, the chip to clear |
| RoutePage | `main`; `loadRoute`; `rerenderStations` | another highway; another order of the stations |
| StationPage | `main`; `loadStation` (once, or twice when the address names a highway) | another rest area; another order, which draws at once |
| ComparePage | `main`; `rerender` | a chip added or removed, a preset, the type |
| TrendsPage | `main`, `lazyDiff`; in both `ensureDates` with `ensureConn` | another date in one of the two lists |
| MapPage | `main` | another highway: the layer of markers is replaced |
| HighwayPage, OperatorsPage, ActivityPage | `main` | none |

In TrendsPage an engine has `files` and a `view`, because a difference asks
`v_all`, which every `ensureDates` makes anew; `job` is the locals of one such
call. `_db`, `_conn` and `_registered` are the source's: two calls that both find
no connection both open an engine, and each later file is registered with
whichever was opened last. `Engines` bounds how many there are.

The query string of ComparePage stands for a type (`operator` unless it says
`highway`) and for ids, `<<>>` when `entities` is absent *or empty*: `main` tests
`if (urlEntities)` (`compare.js:815`), and either way selects the first four of the
type. `updateUrl` writes an empty `entities` when the last chip is closed or a
preset finds nothing. A comparison asked for as one of highways and drawn as one
of operators (the type was switched in between) draws its first four parts and
then throws: its rows name no route (`compare.js:599`).

Pages composes the nine: `Init` opens one from a bookmark (a query string, also
one that names something the snapshot does not have), `Reload` starts the script
again (the theme button does that, too), the rest is the page's.

### Figures, InventoryTools, PyTools, Queries

A row is a record of the columns the queries look at. The type of a charger is
whether it is a DC type; an address is the highways it names, in its order
(`regexp_extract` takes the first, `LIKE` finds each, `CASE` takes the first one
*selected*); a position is a point of a grid in kilometres, and distances are
compared squared. An output may be NULL or a text that is no number (`TRY_CAST`).
Hours are counted, a day has 24. Each operator has the name of the SQL constant,
function or method it stands for and keeps its `WHERE`, its grouping and its
order; columns that no figure uses are left out. `IsCharger` says what a row may
hold: the columns the schema declares NOT NULL are not NULL, and a status is one of
the codes the parsers admit (any other is read as `"0"`, unknown).

A list in an order is any list of the rows with keys that do not decrease
(`Sorted`): where keys are equal, the code's order depends on the order in which
the store returns rows, which the SQL leaves open. The Worker rounds distances to
metres before it sorts; the grid is coarser, so that the order is the same. The
age of a charger is NULL, and no comparison with it true, when it has no
`last_tsdt` or no row has a `stat_upd_dt` (`Aged`).

`nearLatLng` is any set of as many rows of the box as are asked for: the SQL has a
`LIMIT` and no `ORDER BY`. `Overfetch` is the eight of `inventory.ts`,
`RegionFetch` the four times, 100 and 1000 of `region.py`, scaled down. The read
methods of the Python store run the same SELECTs as the Worker's, so PyTools
extends InventoryTools and has only the tools that differ.

Queries has two variables: the rows of the store, changed by an upsert, and those
of an earlier snapshot. Its properties are of one state: what the operators
answer on those rows.

### Definitions named `_slip`

`Lcp_slipFromZero`, `LockFor_slipAlwaysNew` and the like are variants of the
definition they are named after, each with a mistake a maintainer could make
(an off-by-one, a missing second look, a rounded-down page count, a stamp taken
after the fetch). No specification uses them: put in place of the original, each
makes TLC refute a property, which shows that the property depends on that piece
of the code. `PROJECT.json` pairs them under "mutants".

## 4. What the runs check

| run | instance | checks |
|---|---|---|
| SyncCron | 1 slot, sizes 1-3, 3 to 4 rows, one revision, one reset, no kill | `FullCycleFinish`, `CycleStartStamped`, `ImplementsRefresh`, `UpsertStoresPage`, `RowsNeverRegress` |
| SyncKilled | 1 slot, fair; sizes 1-2, 3 to 4 rows, failing fetches, two kills, a reset, seeds | `TypeOK`, `LockHeldMidCycle`, `ResumePoint`, `OneSizePerCycle`, `IInv`, `CursorNeverFallsBack`, `CyclesKeepFinishing` |
| SyncOverlap | 2 slots, fair; size 1, 3 rows, a reset | `CyclesKeepFinishing` |
| CacheHerd | 3 callers, fair; 1 key, TTL 2, time in steps of 1 | `TypeOK`, `NoStaleHit`, `NoRedundantFetch`, `EveryCallReturns` |
| CacheGc | 2 callers, 2 keys, TTL 1, time in jumps of 11 | `SingleFlight`, `IInv`, `NoOlderEntry` |
| PyPipeline | 1 syncer, 1 exporter, fair; size 2, 3 to 4 rows, 2 completed syncs, 2 days, a death | `ResumePoint`, `ExportCoversSync`, `IInv`, `FullSyncFinish`, `SnapshotsKeepUp` |
| RecentHerd | 2 callers, fair; 1 key, TTL 2, timeout 2, 2 attempts, delays from 1, 10 time units | `TypeOK`, `TimesInOrder`, `HitsAreRecent`, `CallEndsInTime`, `EveryCallReturns` |
| Pages | the nine pages, fair; 2 or 3 members of every list, 3 dates, 3 engines, failing requests, 2 events of the user | `TypeOK`, `OneSelectionShown`, `DiffCoversDates`, `SpinnerStops` |
| Queries | 4 chargers of 3 stations, each with 2 to 4 rows, and an earlier snapshot of the same | `FiguresAgree`, `DiffBalances`, `ToolsAnswer` |

Three more runs end with a counterexample: SyncKilledFinish, PySyncReplay and
PagesOverlap, in section 5.

**Sync without kills (SyncCron).** When `last_synced_at` is written, every row
listed when the cycle began has been upserted in it, although rows are added
during the cycle, the total is computed once, and it may be missing. The stamp of
the start is always fresh, and the whole is a refresh in the sense of
InventoryRefresh: `resume <- last_completed_page * page_size`, `collected <-
seen`. The skip test of `upsertMany` never skips a row that has changed, given
that a revision comes with a fresh `stat_upd_dt` or none, and no row goes back to
an older revision. The last needs that nothing else writes: a tick beside another
tick or the seed route may store the page it fetched earlier over a newer row.

**Sync with kills (SyncKilled).** A kill after any call leaves a state from which
the next tick goes on: the lock is there, no owed row lies before the resume
point without having been upserted, the cursor does not fall back, and cycles go
on being finished. Two things a kill does break: `FullCycleFinish` (section 5) and
`CycleStartStamped`, since the stamp at `sync.ts:176` is nested in the branch that
derives `total_pages`: killed between the two writes, the cycle keeps the stamp of
the one before.

**Overlap (SyncOverlap).** Two invocations may undo each other's cursor, but cycles
keep being finished. The safety properties of the cycle are lost. `OneSizePerCycle`
fails: a manual sync with its own page size, started while the first tick of a cycle
awaits its page, finds no lock (`sync.ts:120` reads it, `:168` writes it after the
fetch), and one cycle has two page sizes. `CursorNeverFallsBack` and `ResumePoint`
fail as well, because a tick writes the page number it counted from its own read
(`sync.ts:188-190`), so that of two ticks the slower one sets the cursor back, or,
after the faster one released the cycle, into the middle of the next.

**Cache.** No hit is older than the TTL, because the entry is stamped with the
time before the fetch; those who waited do not fetch again; two fetches of one
key at once require that `_gc` or `invalidate` dropped its lock; unless that
happened a late answer never replaces a newer one; every call returns. `_gc` looks
only at keys that have an entry, so the lock of a key whose fetch failed stays
(`cache.py:73`); no property is about that. Nor is one about a single upstream
call per key (`cache.py:8`) without that proviso: when `_gc` drops a lock in use,
a second fetch of its key may start.

**Worker's cache and client (RecentHerd).** Calls that overlap, are retried and come
back late do not spoil the cache: an answer from it was current less than a TTL
and one timeout ago, since what counts is the attempt that was answered, however
many were made before. That is the bound the code keeps; the minute its header
speaks of it does not keep (section 5). A call ends, and never lasts longer than all
its timeouts and longest delays (`Budget`).

**Python sync and export (PyPipeline).** Whatever dies where (but see below), a
sync that resumes has no owed row before its resume point that was not upserted,
also when a `--full` run died and left a record behind another's; a sync that
calls itself complete is. A snapshot may have more rows than the sync it names
(the next one is under way), never fewer than that sync vouched for, because the
stamp is read before the rows. An export may be overwritten by a slower one of an
earlier sync; the next one then notices, so that the snapshots catch up. Two
places are left out of `SafePoints`. A death between the two final writes breaks
`FullSyncFinish` (section 5). A death while DuckDB writes leaves a torn file that
nothing repairs while the date is the same and nobody passes `--force`: later
exports fail in `CannotCheck`, and `SnapshotsKeepUp` is lost.

An export counts the rows before it copies them, on another connection: a page
upserted in between makes `row_count` smaller than its file. The count is for
people to read; no property is about it.

**Dashboards (Pages).** Whatever two events overlap, with each other or with the load
of the page: if no exception was shown, the cards, charts, chip and URL of a
quiet page belong to one selection, so that a reload shows the same. A
difference is shown only when the view it was computed in has both its dates,
although other differences replace that view while it waits: an engine answers
in order and dates are only ever added. If the spinner never stops, then because
from some moment on the page waits for something without a deadline: the engine
from the CDN, a plain fetch (the code tables of the route, station, compare and map
pages, `route.js:237`), or the body of a response. The last is more than `fetchT` was
written to allow (section 5); `SpinnerStops` says that nothing else, no exception,
overlap or early return, leaves the spinner on. What the properties do *not*
forbid, because the code does it:

- a comparison with nothing selected has `entities=` in its URL, and a reload
  restores the first four instead (`compare.js:815`); `OneSelectionShown` speaks of
  pages that show a comparison;
- loads of a highway or a rest area that overlap end in the error panel (section
  5 has one that leaves charts blank), and the panel stays when the next load
  succeeds;
- a difference asked for earlier may arrive later and replace the cards of the dates
  chosen now, which do not name their dates (`trends.js:313`);
- two differences asked for before there is a connection open two engines; a file
  registered with one is missing in the other, and differences that need it fail
  until the page is reloaded (`trends.js:117`).

**Queries.** On every inventory of the instance the bars of the national page add up
to its KPI under every filter, and to the density tool of the Python server; the
pairs of neighbours on a route fall into one bar each; compared highways share
their rows without counting one twice, though an address may name both; the
dormant bars miss exactly the chargers on their sixtieth day (the label says
"60 or more", the bar starts after 60, `activity.js:226`, and the property says
that this is all that is missing); operators share the total, and every charger
is available, out of service, not monitored, or else in use, reserved or unknown
(`"3"`, `"6"`, `"0"`), for which `analyze_operator_health` has no figure: its three
numbers need not add up to the total. A difference explains the
change of the total, also when chargers are marked deleted or come back, and the
tools `snapshot_diff` and `inventory_trend` agree with it. A search answers with
what was asked, with all of it unless the list is full, and near a place with the
nearest, provided the box held no more chargers than candidates are read (the
region search of the Python server likewise). Behaviour that follows from the
code and that no property forbids: a search with a district ignores the province
(`inventory.ts`, `region.py`), and the tools list chargers marked deleted while
the pages do not count them.

### The bounds, and why they are enough

The cursor, total and lock interact through the first page, a middle page and the
last one. Three to five rows with pages of 1 to 3 give cycles of one page, of
several, with a full last page and with a short one, and a listing that grows
within a page or by one page. Two cycles show what one leaves to the next; SyncCron
has three (or two and a reset). Two kills cover a kill of the tick that
recovers from a kill. `PagesPerTick` includes 1 (the cron) and more (manual). Two
slots are the smallest overlap; it is what breaks the lock and the cursor. The
properties proved in section 6 do not depend on these bounds at all.

In PyPipeline three rows and a page size of 2 give a short last page, four an
exact multiple, and the listing may grow between the two; two syncs show what one
leaves to the next and to a slow export; two days give two files; with one syncer
and one exporter two exports overlap, as the syncer exports too.

In the cache the jumps of 11 with a TTL of 1 are the shortest that reach `_gc`'s
ten TTLs; a second key is needed because an entry is only collected by another
key's fetch. Three callers are a holder, one that waits and a newcomer. `Locks` has
one object per caller and per key and one more, so that there always is a new
one. Callers and keys are interchangeable, hence the symmetry in the runs
without a liveness property; CacheHerd has none.

In RecentHerd two attempts have a delay between them, and two callers overlap in
every way two calls can: both miss, one answers late, one finds what the other
stored. Ten units are time for two calls one after the other and for an entry to
expire between them (a call of the longest kind takes five); a call starts only if
it can end within them, so that the bound does not cut a call off. One key is enough, because a call
touches no other key's entry.

In Pages two events are what an overlap takes: with the load of the page itself
that is three loads at once. Two or three members per list are one that is
shown, one that is asked for and one more (a chip that fills the comparison);
bookmarks name a member, none, or one the snapshot does not have; those of the
comparison have each type without ids and with some, and a preset may find
nothing. Three engines
suffice for two events: the first difference and two more. The pages do not
interact, so the run is the union of nine.

In Queries the rows of a charger meet every condition of every query from both
sides: with and without output, district, position and time, deleted or not, at
a rest area or not, addresses naming no highway, one, and two in either order,
the sixtieth day, a charger at exactly 10 and 100 km (the ends of the bars), a
numeric and a garbled output, every kind of status, a row that was never updated.
Two chargers share a station, as the queries count
stations and chargers; the others have one each, so that a route has neighbours.
Chargers of a station share their address and position, as they do upstream.

Deadlock is not checked in the runs of SyncTick and Pages: with the clock at its
bound nothing starts any more, and a page may rest. The other runs check it.

### Fairness

*Sync.* Weak fairness of the steps of an invocation that has started: the runtime
goes on with it unless it kills it, which it may. Weak fairness of starting a
tick: the cron trigger fires every five minutes. Strong fairness of `FetchPage`:
an upstream asked again and again answers sometimes; nothing recovers without
that. No fairness for kills, resets, seeds, new rows and revisions; they may
happen or not.

*Cache.* Weak fairness of resuming whoever has been given the lock (the event
loop) and of the end of a fetch, with an answer or with an error: the HTTP client
has a timeout. None for time, cancellation and `invalidate`.

*Worker's cache and client.* Weak fairness of time, and of what ends an attempt or
a delay: timers fire. None for new calls and for `Wake`.

*Python sync and export.* Weak fairness of a running process: the operating system
goes on with it, unless it dies. Weak fairness of starting: someone, or a timer,
runs the two commands again (`web/README.md:155` has the sync run daily). Strong
fairness of `FetchPage`: the endless retry of `sync.py:68-76` only makes sense if
the upstream answers now and then. None for deaths, new rows and the date.

*Dashboards.* Weak fairness of `Progress`: a call that waits for a DuckDB worker goes
on, with an answer or an error, as the worker answers every query; a `fetchT`
returns with the headers or aborts after 45 seconds. None for what is `Untimed`,
the CDN, plain fetches and every body, which have no deadline, nor for the user.
Queries has no liveness property.

## 5. Where code and documentation disagree

Three have a run that ends with a counterexample.

| run | refuted | what happens |
|---|---|---|
| SyncKilledFinish | `FullCycleFinish` | killed between the release writes, the old `total_pages` ends the next cycle early (`sync.ts:16`: "full-cycle finish") |
| PySyncReplay | `FullSyncFinish` | killed between the stamp and the cleared cursor, the next sync resumes behind the end and reports itself complete, having fetched nothing (`sync.py:107`: "next full run starts fresh") |
| PagesOverlap | `AllChartsRedrawn` | the order of the stations is changed while another highway loads: its chart is drawn on the empty canvas, `new Chart` throws, and the other charts stay blank (`route.js:654`: all charts are drawn again when the highway changes) |

Two more have no run of their own. Each is a property defined next to the one that
a run does check; adding its name to the `.cfg` of that run makes TLC print the
counterexample.

| add to | refuted | what happens |
|---|---|---|
| `PROPERTIES` of Pages.cfg | `FetchTStopsSpinner` | `app.js:7` says of `fetchT` "타임아웃 … (스피너 무한 회전 방지)", a timeout against a spinner that turns for ever. The timer is stopped in the `finally` (line 18), when the headers are there; every page then reads a body without a deadline (`app.js:156`, `station.js:122`, `compare.js:91`, `map.js:101`, `trends.js:129`, `route.js:128`, and the `json()` of the manifest and the code tables). A body that stalls leaves the page neither failed nor drawn, and the spinner on. `SpinnerStops` is what holds. |
| `INVARIANTS` of RecentHerd.cfg | `HitsAreSubMinute` | `status.ts:4-5` says that the live tools answer questions that "demand sub-minute freshness". The cache keeps rows for 60 seconds (line 24) from when they arrived (line 46), not from when the upstream was asked, which may be up to 90 seconds earlier: rows asked for at 0 s that arrive at 30 s are answered at 60 s and later. `HitsAreRecent`, a TTL and one attempt, is what holds. |

## 6. What is proved

All with TLAPS, for every value of the constants that satisfies the named
assumptions (`SyncAssumption`: page sizes and pages per tick are positive, rows are
addressed by position; `CacheAssumption`: times are naturals; `PySyncAssumption`,
`SnapshotAssumption`: page sizes are positive, no process is of both kinds;
`ClientAssumption`, `RecentAssumption`: attempts and timeouts are positive, the TTL
is a natural; `PagesAssumption`: there is a date, and an element without content
does not show a difference; `InstanceAssumption`: the pages are those there are, a
page has a worker, which is not a server, an id is not null, a preset chooses from
its list, a query string of a comparison stands for a type and ids; `ChargersAssumption`: rows are what
the schema and the parsers admit; `AskedAssumption`: places are points, radii and
limits naturals; `NullAssumption`: NULL is no set and no record). TLC evaluates each
of these on the runs.

| theorem | says |
|---|---|
| `SyncTickProofs!TypeCorrect` | `Spec => []TypeOK`, any number of slots |
| `...!UpsertCorrect` | `UpsertStoresPage`, any number of slots, kills, resets, seeds, rows and revisions |
| `...!NeverRegressCorrect` | `RowsNeverRegress`, for at most one slot and no seeds |
| `...!InvCorrect` | `Spec => []IInv`, for at most one slot |
| `...!LockCorrect`, `OneSizeCorrect`, `ResumeCorrect`, `CursorCorrect` | the properties of the same names, for at most one slot, any number of kills, resets, seeds and new rows |
| `SyncTickFinishProofs!FinishCorrect` | `FullCycleFinish`, for at most one slot, any kills but in `ReleaseBegun` |
| `...!StampCorrect` | `CycleStartStamped`, for at most one slot, any kills but in `StampPending` |
| `...!RefreshCorrect` | `ImplementsRefresh`: the sync refines InventoryRefresh, as `FinishCorrect` and without seeds |
| `StatusCacheProofs!InvCorrect`, `TypeCorrect` | `Spec => []IInv`, `[]TypeOK` |
| `...!SingleFlightCorrect`, `NoStaleHitCorrect`, `NoOlderEntryCorrect`, `NoRedundantFetchCorrect` | the properties of the same names, any callers, keys, TTL |
| `SnapshotProofs!InvariantHolds` | `Spec => []IInv`, under `OneSafeSyncer` |
| `...!ResumeIsSafe`, `FinishIsAlwaysFull`, `SnapshotsCover` | `ResumePoint`, `FullSyncFinish`, `ExportCoversSync` under `OneSafeSyncer`: any number of exporters, rows, deaths, syncs and days |
| `RecentChangesProofs!TimesStayInOrder` | `Spec => []TimesInOrder`, any callers, keys, TTL, timeout and number of attempts |
| `...!AnswersAreRecent` | `Spec => []HitsAreRecent`, likewise |
| `...!TypeCorrect`, `CallsEndInTime` | `Spec => []TypeOK`, `[]CallEndsInTime`, likewise, and for any first delay |
| `TrendsProofs!TrendsInOrder` | `Spec => []IInv` |
| `...!DifferencesCoverDates` | `Spec => []DiffCoversDates`, any dates, engines, events, reloads and failures |
| `PagesProofs!TypeCorrect` | `Spec => []TypeOK`, any of the pages, likewise |
| `...!SelectionCorrect` | `Spec => []OneSelectionShown`, any lists, bookmarks (without ids or with unknown ones, too), workers, events, reloads and failures |
| `QueriesProofs!InvCorrect` | `Spec => []IInv`: the store and the snapshot have one row per id |
| `...!ToolsCorrect` | `Spec => []ToolsAnswer`, any chargers, code tables, places, radii, limits and numbers of rows read ahead |
| `...!DiffCorrect` | `Spec => []DiffBalances`, any chargers |
| `...!FiguresCorrect` | `Spec => []FiguresAgree`, any chargers |

**The sync's argument.** `TypeOK` alone is not inductive: the page arithmetic stays
in the naturals because a tick under way has a positive page size and pages left,
`Counting`. `ResumePoint` is not inductive either. What keeps it is the knowledge a
tick has at each of its awaits, which `SlotInv` spells out: the cursor in the store
is still the one it read (`CursorIsKnown`), the lock is 0 or its own size until it
is written and its own size from then on (`LockIsKnown`, `LockIsOurs`), the page in
hand has every owed row of its positions (`PageIsComplete`), they are in `seen` when
the cursor moves (`PageWasUpserted`), and a lock is only cleared when the cursor is
(`ReleaseOrder`). A second slot falsifies `CursorIsKnown` at once, which is why the
theorems assume `AtMostOneSlot`. The proof has one lemma per group of actions, after
a frame lemma for the steps that touch neither cursor nor lock.

**The end of a cycle.** A cycle is called finished by its page count, so what has to
be kept is that a recorded total reaches over every owed row (`TotalIsEnough`). It
does not while a release is half done: with the cursor back at 0 and the total of
the released cycle still there, a listing that has grown is cut off. These are the
steps `ReleaseBegun`, `clearTotal` of a tick and `resetTotal` of a reset. A
tick or a reset that goes on clears the total with its next write; one that is
killed there leaves it, and that is the finding of section 5. Hence the hypothesis
`[][KillSpares(ReleaseBegun)]_vars`: any number of kills, at any other step.
Without kills (SyncCron) it holds of every behaviour. `CycleStartStamped`
needs one more step spared: the stamp is written in the branch that derives the
total, so a tick killed between the two (`StampPending`) never stamps its cycle.
The rest of `FinishInv` and `StampInv` is what a tick knows on the way to its
last write: the total it read is the one on record (`TotalIsKnown`), a header that
carries a count counts no fewer rows than are owed (`CountIsCurrent`), and before
`last_synced_at` is written all that is owed is in `seen` (`FinishedIsFull`). The
refinement maps the resume point to the rows of the completed pages; each write of
the cursor, of `last_synced_at` and of the history is then a step of the abstract
refresh and everything else a stutter. The seed route writes `last_synced_at`
itself, a finish without a refresh, hence `SeedSets = {}`.

**The rows' argument.** `upsertMany` skips a row whose `stat_upd_dt` is the stored one.
That loses no revision because equal stamps mean equal revisions, in the listing,
in every page under way and in the table (`RowsInv`), which no interleaving, kill
or seed disturbs. That rows never go back does need one slot and no seeds:
`NewestInv` says that nothing in the table is newer than the page in hand.

**The cache's argument.** A call stands in its lock's queue, at the head if it
fetches (`CallsQueue`), and unless its key's lock was dropped it is the lock the
table names (`CallsShareLock`); two fetching callers of one key would both be the
head of one queue. Hits are fresh because `fetched_at <= as_of <= time`
(`StampsInOrder`), and a late answer replaces nothing newer because what is in the
table is not newer than what is on its way (`FetchIsNewest`). A fetch starts either
in a `Miss`, where the call looked in the same step, or in a `RecheckMiss`, which
is the second look (`NoRedundantFetch`).

**The Python sync's argument.** `OneSafeSyncer` says: one syncer, one page size, no
death between the final writes. Without any of the three the theorems are false:
nothing in the store is a lock, or says which size the record counts in, and the
last is the finding PySyncReplay. What makes `ResumePoint` inductive is that a
sync works at most one page ahead of the record (`FollowsCursor`; with `--full`
behind it), that its page in hand has all that is owed of its positions and has
been upserted before it is recorded (`PageInHand`, `PageUpserted`), and that a page
taken for the last one reaches beyond all that is owed (`PageContents`: fewer rows
than the page size means that the listing ends within the page). For the
snapshots the table behind them only grows: `TableKeeps` says it has all that any
completed sync vouched for, `ExporterInv` that an export holds a stamp of the past,
and rows read after it.

**The Worker cache's argument.** `HitsAreRecent` speaks of the last answer only. What
makes it inductive: an attempt that is out was sent no longer ago than a timeout
(time does not pass its timer), so that what it brings is no older than that, and
an entry expires within a TTL and a timeout of what it holds. The delays do not
matter, because an attempt is dated anew when it is sent. They do for
`CallEndsInTime`: `BudgetInv` says what a call may have used up at its n-th attempt,
n-1 timeouts and the longest n-1 delays, and the delays double, so that they add
up to less than the next one would take. The provers do not compute with powers;
that `2 ^ (n + 1)` is twice `2 ^ n` and that powers grow is proved by counting the
subsets of `1..n` (`PowerDoubles`, `PowerGrows`).

**The trends page's argument.** A job's loop registers its dates one by one, and a date
never leaves `_registered`, so that the view a job asks for has all its dates
(`JobInv`). Then the view and the difference are two queries in the queue of one
engine, and other jobs put theirs between them. What makes it inductive is a
relation between calls in the order they began to wait (`PairInv`): of two views
the later one has all dates of the earlier, and a view that is asked for has the
dates of every difference behind it in the same queue. So a view that is made
spoils no difference that still waits. This needs that an engine answers in
order; it does not need that files and views are of one engine, since a view
without its files fails.

**The pages' argument.** A page at rest shows one selection because whoever drew last
was whoever changed the URL last, and what makes that inductive differs by page.
`PagesInv` is the types, the invariant of the trends page above, and the part of
the page that is open:

- Highway, activity, operators (`PlainInv`): one stretch draws everything.
- Map (`MapInv`): no query after the load; the layer, the count and the map change
  together.
- Station (`StationInv`): whoever is last to end has drawn everything, for the
  chargers that are kept, and named them in the URL in the same step.
- Route, national, compare (`RouteInv`, `NationalInv`, `CompareInv`): loads overlap,
  but all wait for one worker, which answers in order. So it is enough that the
  *last call in the queue* is of the selection that title, chip or URL have by then;
  the end of any other leaves that true, and the end of the last draws it. While
  main is under way it is alone, and nothing listens.
- Trends (`DrawnInv`): main is alone, or has drawn everything except the difference,
  which `OneSelectionShown` leaves out.

A response that begins (`ResponseIsSafe`) changes what a call waits for and nothing
else, and only of a call that waits for a server, so that it moves nothing in the
queue of a worker.

What a query string restores is either the head of a list or a filter of ids
(`SelectionListed`); while a comparison is shown its URL names its ids, so that a
reload takes the filter and not the head (`SelectionOfUrl`, for ids that are not
empty).

Every error ends the obligation, since the panel stays. That a removed chip and an
id that is not listed leave a list of listed ids (`KeepingIn`), and that a list
all of which is kept is kept as it is (`KeepingAll`), are facts about the
recursive filter `Keeping`. They are proved by the least counterexample (`Least`,
from the well-foundedness of the naturals), since the library's induction theorems
take an operator, which the provers cannot instantiate. The same detour proves
that the recursion defines a function at all (`KeepingExists`).

**The queries' argument.** The properties are of one state, so the invariant is small:
there are finitely many rows, each one of `Chargers`, and one per id (`IInv`, which
an upsert keeps because it replaces the row of its id). All the rest is counting,
and it rests on four lemmas.

- `TotalIsCount`: a figure by key adds up to the rows it was counted from. `Total`
  is a fold of the community modules, a recursion over subsets. That the recursion
  has a value is shown by giving one, the number of rows with a key in the subset;
  that every value is that one, by a smallest subset on which it is not.
- `SortedExists`: a finite set has a list in the order of any key. Each member is
  put at the number of those before it, ties by an arbitrary enumeration. Without
  it `Sorted` might choose anything.
- `FirstOfSorted`: the first of such a list are no further than what is left out.
  With `SquareBound`, that a circle lies within its box, this gives `NearestFound`.
- `Parts`: two disjoint parts add up. `FiguresAgree` is these parts: the compared
  highways by who takes a row (`EntityOfTwo`), the dormant by their sixtieth day
  (`HoursAndDays`), a province by rows with and without a district, an operator by
  four kinds of status, a route by the bar of each distance (`OneBucketEach`).

The proof corrected the model in three places. `HealthAddsUp` once said that every
charger is available, out of service, not monitored or in use; on the rows the
run had it was so, but the attempt to prove it left the statuses `"0"` and `"6"`.
The run now has rows of each, and the property names them. `NowTs` had no value
without an update, which the code answers with NULL (`Aged`). And the orders broke
ties by the key of a row, which the code does not do; `Sorted` leaves them open,
and every promise holds all the same.

**Only model-checked.** Liveness (TLAPS has no fairness reasoning here):
`CyclesKeepFinishing`, `EveryCallReturns`, `SnapshotsKeepUp`, `SpinnerStops`. Every
safety property that a passing run checks has a theorem; what a theorem assumes
beyond the run is in the table.

## 7. What is not modelled

- Rows removed from the listing: pages are cut by position, and the code has no
  defence that a property could state.
- Formatting, wording of results and logs, what a chart looks like; authorisation of
  the internal routes; `totalCount` and the conversion of rows.
- `getSyncStatus` reads six values in separate calls, so a status may mix two moments.
  Nothing is decided by it.
- The Python client: a loop of attempts like the Worker's `request`, without shared
  state; its timeout is that of the HTTP library, outside `src/`. PySync has
  what its callers see of it: a page or a failure. `iter_all_charger_info` is
  called by tests only.
- The separate writes of the publication scripts: a site is deployed from a finished
  directory, and a script that died begins again with the unlink, so that no
  reader and no second writer meets a mixture. Queries has the outcome, two
  snapshots side by side.
- Of the Python tools: `list_chargers_by_operator` runs the query of the Worker's tool;
  `get_station_details` falls back to the upstream for a station the store does not
  have, a pure detour; `lookup_codes` and the labels of codes read tables. The
  analytics client's lazy connection and R2 as a source of snapshots are wiring.
- Queries of the pages whose figures are shown once and compared with nothing
  (heat map, scatter, hours of the day, manufacturing years), and the sentences
  of the insight cards. Of `generateInsights` in `compare.js`, note that it sorts
  KPIs by a ratio that is never above one when a lower value is better (line 411),
  so that those come last whatever the gap.
- The header line of the national page (snapshot date and number of chargers). It is
  rewritten only when some row of the filter has an update time (`app.js:438`), so
  that after a filter by a province without any it still has the line of the filter
  before. The rest of the KPIs is modelled.
- Geocoding, code tables, server wiring, packaging and demo data have no protocol.
