---------------------------- MODULE SyncTickInv ----------------------------
(***************************************************************************)
(* The inductive invariant behind the safety properties of SyncTick when   *)
(* invocations do not overlap (one slot): what a tick's locals say about   *)
(* the persisted state at each of its awaits.  A second slot falsifies it, *)
(* which is why overlapping ticks break the page-size lock.                *)
(***************************************************************************)
EXTENDS SyncTick

KeysOf(rows) == {row.key : row \in rows}

(* Steps at which the tick still relies on what it read or wrote.          *)
KnowsPage == {"readTotal", "readSize", "fetch", "lockSize", "putTotal",
              "stampStart", "upsert", "putPage"}
HasPage == {"lockSize", "putTotal", "stampStart", "upsert", "putPage"}
LockIsSet == {"putTotal", "stampStart", "upsert", "putPage"}
CursorCleared == {"clearTotal", "clearSize", "resetTotal", "resetSize"}

(* A tick under way has a page size and pages left to do: what keeps its   *)
(* arithmetic in the naturals, whatever the other slots do.                *)
Counting(s) ==
    pc[s] \in {"readPage"} \cup KnowsPage => tick[s].size > 0 /\ tick[s].left > 0

TypeInv == TypeOK /\ \A s \in Slots : Counting(s)

(* The persisted cursor is still the one the tick read or wrote.           *)
CursorIsKnown(s) == pc[s] \in KnowsPage => tick[s].last = Lcp

(* Until the lock is written, the tick's view of it is the stored one, and *)
(* a stored lock is the size it fetches with.                              *)
LockIsKnown(s) ==
    pc[s] \in {"fetch", "lockSize"} =>
        /\ PageSize \in {0, tick[s].size}
        /\ tick[s].last = 0 => tick[s].locked = PageSize

(* From the first write after the fetch on, the lock is the tick's size.   *)
LockIsOurs(s) == pc[s] \in LockIsSet => PageSize = tick[s].size

(* The page in hand has every owed row of its positions.                   *)
PageIsComplete(s) ==
    pc[s] \in HasPage =>
        PageRows(tick[s].last + 1, tick[s].size) \cap 1..owed
            \subseteq KeysOf(tick[s].items)

PageWasUpserted(s) == pc[s] = "putPage" => KeysOf(tick[s].items) \subseteq seen

(* A cycle is only unlocked after its cursor went back to 0.               *)
ReleaseOrder(s) == pc[s] \in CursorCleared => Lcp = 0 /\ sizes = {}

SlotInv(s) ==
    /\ CursorIsKnown(s)
    /\ LockIsKnown(s)
    /\ LockIsOurs(s)
    /\ PageIsComplete(s)
    /\ PageWasUpserted(s)
    /\ ReleaseOrder(s)

(* Rows are addressed by their position in the listing.                    *)
UpstreamIsKeyed == \A r \in Chargers : upstream[r].key = r

SizesAreLocked == sizes \subseteq {PageSize}
OwedIsListed == owed <= listed

(* The inductive invariant: the named parts above together.                *)
IInv ==
    /\ TypeInv
    /\ LockHeldMidCycle
    /\ ResumePoint
    /\ SizesAreLocked
    /\ OwedIsListed
    /\ UpstreamIsKeyed
    /\ \A s \in Slots : SlotInv(s)

----------------------------------------------------------------------------
(* FullCycleFinish and the refinement.  They hold as long as no invocation *)
(* dies at one of these steps: with the cursor back at 0 and the total of  *)
(* the released cycle still on record, a longer listing would be cut off.  *)
ReleaseBegun == {"clearTotal", "resetTotal"}

KillSpares(points) == \A s \in Slots : Kill(s) => pc[s] \notin points

HasTotal == {"readSize", "fetch"} \cup HasPage

(* The recorded total, when there is one, reaches over every owed row.     *)
TotalIsEnough ==
    (\A s \in Slots : pc[s] \notin ReleaseBegun) /\ TotalPages > 0 =>
        owed <= TotalPages * PageSize

TotalIsKnown(s) == pc[s] \in HasTotal => tick[s].total = TotalPages

(* A header that carries a total_count counts no fewer rows than are owed. *)
CountIsCurrent(s) ==
    pc[s] \in {"lockSize", "putTotal"} => tick[s].count = 0 \/ tick[s].count >= owed

PageIsFinite(s) == pc[s] \in HasPage => IsFiniteSet(tick[s].items)

TotalIsCleared(s) ==
    pc[s] \in {"clearSize", "resetSize", "resetStart"} => TotalPages = 0

FinishedIsFull(s) == pc[s] = "putSynced" => 1..owed \subseteq seen

FinishSlotInv(s) ==
    /\ TotalIsKnown(s)
    /\ CountIsCurrent(s)
    /\ PageIsFinite(s)
    /\ TotalIsCleared(s)
    /\ FinishedIsFull(s)

FinishInv == IInv /\ TotalIsEnough /\ \A s \in Slots : FinishSlotInv(s)

----------------------------------------------------------------------------
(* CycleStartStamped.  Between the writes of the total and of the stamp an *)
(* invocation may not die either.                                          *)
StampPending == ReleaseBegun \cup {"stampStart"}

StartStamp == sync_state["cycle_started_at"]

(* A total on record before the first page is done: its cycle is stamped.  *)
TotalIsStamped ==
    (\A s \in Slots : pc[s] \notin StampPending) /\ Lcp = 0 /\ TotalPages > 0 =>
        StartStamp = clock

FirstPageIsStamped(s) ==
    pc[s] \in {"upsert", "putPage"} /\ Lcp = 0 => StartStamp = clock

FinishedHasCursor(s) == pc[s] \in {"putSynced", "clearPage"} => Lcp > 0

StampInv ==
    /\ FinishInv
    /\ TotalIsStamped
    /\ \A s \in Slots : FirstPageIsStamped(s) /\ FinishedHasCursor(s)

----------------------------------------------------------------------------
(* The stored rows.                                                        *)
StampNamesRevision(row) == row.dt \in {NoDt, row.body}

(* Equal stamps mean equal revisions, in the listing, in every page under  *)
(* way and in the table; a page has one row per key.  This needs neither a *)
(* single slot nor the absence of seeds or kills.                          *)
RowsInv ==
    /\ TypeInv
    /\ UpstreamIsKeyed
    /\ \A r \in Chargers : StampNamesRevision(upstream[r])
    /\ \A c \in Chargers : StampNamesRevision(chargers[c])
    /\ \A s \in Slots :
         /\ \A row \in tick[s].items : StampNamesRevision(row)
         /\ \A row, other \in tick[s].items : row.key = other.key => row = other

(* Without overlap or seeds nothing in the table is newer than the page in *)
(* hand, and nothing in the page newer than the listing.                   *)
PageIsNewest(s) ==
    \A row \in tick[s].items :
        /\ chargers[row.key].body <= row.body
        /\ row.body <= upstream[row.key].body

NewestInv ==
    /\ RowsInv
    /\ \A c \in Chargers : chargers[c].body <= upstream[c].body
    /\ \A s \in Slots : PageIsNewest(s)

----------------------------------------------------------------------------
(* The detailed sync implements the abstract refresh: the resume point is  *)
(* the rows of the completed pages, a refresh is called finished when      *)
(* last_synced_at is written (runSyncTick against its module comment).     *)
Refresh == INSTANCE InventoryRefresh WITH
    collected <- seen,
    resume <- Lcp * PageSize,
    synced <- sync_state["last_synced_at"]
ImplementsRefresh == Refresh!RefreshSpec

RefreshInv == FinishInv /\ sync_state["last_synced_at"] < clock
============================================================================
