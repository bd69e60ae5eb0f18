----------------------- MODULE SyncTickFinishProofs -----------------------
(***************************************************************************)
(* What finishing a cycle means, when invocations do not overlap: a cycle  *)
(* called finished is full, its start is stamped, and the sync implements  *)
(* the abstract InventoryRefresh.  Unlike the resume point, these do not   *)
(* survive a kill at every step: the theorems name the steps it must spare.*)
(***************************************************************************)
EXTENDS SyncTickProofs, FunctionTheorems, FiniteSetTheorems

(* Every row up to n pages of this size lies on one of them.               *)
LEMMA RowHasPage ==
    ASSUME NEW n \in Nat, NEW size \in Nat \ {0}, NEW r \in 1..(n * size)
    PROVE  \E p \in 1..n : r \in PageRows(p, size)
<1> DEFINE q == (r - 1) \div size
<1>1. q \in Nat /\ q * size <= r - 1 /\ r - 1 < (q + 1) * size
  OBVIOUS
<1>2. q < n
  BY <1>1
<1>3. q + 1 \in 1..n /\ r \in PageRows(q + 1, size)
  BY <1>1, <1>2 DEF PageRows
<1>4. QED
  BY <1>3

(* The pages counted by CeilDiv hold all the rows.                         *)
LEMMA CeilDivCovers ==
    ASSUME NEW a \in Nat, NEW b \in Nat \ {0}
    PROVE  CeilDiv(a, b) \in Nat /\ CeilDiv(a, b) * b >= a
BY DEF CeilDiv

(* A page with fewer rows than fit reaches past the last owed row.         *)
LEMMA ShortPageIsLast ==
    ASSUME NEW t \in Locals, t.size > 0, IsFiniteSet(t.items), NEW n \in Nat,
           PageRows(t.last + 1, t.size) \cap 1..n \subseteq KeysOf(t.items),
           Cardinality(t.items) < t.size
    PROVE  n < (t.last + 1) * t.size
<1> DEFINE page == PageRows(t.last + 1, t.size)
           keyOf == [row \in t.items |-> row.key]
<1>1. t.last \in Nat /\ t.size \in Nat
  BY DEF Locals
<1>2. SUFFICES ASSUME n >= (t.last + 1) * t.size PROVE FALSE
  BY <1>1
<1>3. (t.last + 1) * t.size = t.last * t.size + t.size /\ t.last * t.size \in Nat
  BY <1>1
<1>4. page \subseteq KeysOf(t.items)
  BY <1>1, <1>2, <1>3 DEF PageRows
<1>5. keyOf \in Surjection(t.items, KeysOf(t.items))
  BY DEF KeysOf, Surjection
<1>6. IsFiniteSet(KeysOf(t.items)) /\ Cardinality(KeysOf(t.items)) <= Cardinality(t.items)
  BY <1>5, FS_Surjection
<1>7. Cardinality(page) = t.size
  <2> DEFINE before == t.last * t.size
  <2>1. before \in Nat /\ page = (before + 1)..(before + t.size)
    BY <1>1, <1>3 DEF PageRows
  <2> HIDE DEF before, page
  <2>2. before + 1 \in Int /\ before + t.size \in Int
    BY <2>1, <1>1
  <2>3. Cardinality(page) = IF before + 1 > before + t.size THEN 0
                            ELSE (before + t.size) - (before + 1) + 1
    BY <2>1, <2>2, FS_Interval
  <2>4. QED
    BY <2>1, <2>3, <1>1
<1>8. Cardinality(page) <= Cardinality(KeysOf(t.items))
  BY <1>4, <1>6, FS_Subset
<1>9. Cardinality(t.items) \in Nat /\ Cardinality(KeysOf(t.items)) \in Nat
  BY <1>6, FS_CardinalityType
<1>10. QED
  BY <1>1, <1>6, <1>7, <1>8, <1>9

(* What a write of one counter leaves of the others.                       *)
LEMMA SetValues ==
    ASSUME TypeOK, NEW key \in SyncKeys, NEW value, SetSyncState(key, value)
    PROVE  /\ TotalPages' = IF key = "total_pages" THEN value ELSE TotalPages
           /\ StartStamp' = IF key = "cycle_started_at" THEN value ELSE StartStamp
           /\ sync_state'["last_synced_at"] =
                IF key = "last_synced_at" THEN value ELSE sync_state["last_synced_at"]
BY DEF SetSyncState, TypeOK, StoreTypeOK, TotalPages, StartStamp, SyncKeys

(* The types FinishInv gives its proofs.                                   *)
LEMMA FinishTypes ==
    ASSUME FinishInv
    PROVE  /\ IInv /\ TypeInv /\ TypeOK /\ tick \in [Slots -> Locals]
           /\ Lcp \in Nat /\ TotalPages \in Nat /\ PageSize \in Nat
           /\ owed \in Nat /\ listed \in Nat /\ owed <= listed
BY StateReads, SyncAssumption DEF FinishInv, IInv, TypeInv, TypeOK, OwedIsListed

(* A step that leaves the total, the lock and the debt alone keeps the     *)
(* total sufficient, unless it leaves a release half done.                 *)
LEMMA TotalFrame ==
    ASSUME FinishInv, AtMostOneSlot, NEW s \in Slots,
           UNCHANGED <<TotalPages, PageSize, owed>>, pc[s] \notin ReleaseBegun
    PROVE  TotalIsEnough'
<1>1. \A q \in Slots : pc[q] \notin ReleaseBegun
  BY DEF AtMostOneSlot
<1>2. QED
  BY <1>1 DEF FinishInv, TotalIsEnough

LEMMA QuietFinish ==
    ASSUME FinishInv, AtMostOneSlot, NEW s \in Slots,
           \/ \E size \in PageSizes, pages \in PagesPerTick : StartTick(s, size, pages)
           \/ FetchFails(s) \/ StartReset(s) \/ PutSynced(s) \/ ResetStart(s)
           \/ Kill(s) /\ pc[s] \notin ReleaseBegun
    PROVE  TotalIsEnough' /\ FinishSlotInv(s)'
<1>1. TypeOK
  BY FinishTypes
<1>2. UNCHANGED <<TotalPages, PageSize, owed>>
  BY <1>1, SetValue, SetValues DEF StartTick, FetchFails, StartReset, PutSynced, ResetStart,
     Kill, storeVars, historyVars, TotalPages, PageSize, SyncKeys
<1>3. /\ pc[s] \notin ReleaseBegun
      /\ pc'[s] \in {"readPage", "idle", "resetPage", "clearPage"}
  BY <1>1, GotoValue DEF StartTick, FetchFails, StartReset, PutSynced, ResetStart, Kill,
     Return, ReleaseBegun
<1>4. QED
  BY <1>2, <1>3, TotalFrame DEF FinishSlotInv, TotalIsKnown, CountIsCurrent, PageIsFinite,
     TotalIsCleared, FinishedIsFull, HasTotal, HasPage

LEMMA ReadFinish ==
    ASSUME FinishInv, AtMostOneSlot, NEW s \in Slots,
           ReadPage(s) \/ ReadTotal(s) \/ ReadSize(s)
    PROVE  TotalIsEnough' /\ FinishSlotInv(s)'
<1>1. TypeOK /\ tick[s] \in Locals
  BY FinishTypes
<1>2. UNCHANGED <<TotalPages, PageSize, owed>>
  BY DEF ReadPage, ReadTotal, ReadSize, storeVars, historyVars, TotalPages, PageSize
<1>3. pc[s] \notin ReleaseBegun
  BY <1>1, GotoValue DEF ReadPage, ReadTotal, ReadSize, ReleaseBegun
<1>4. TotalIsEnough'
  BY <1>2, <1>3, TotalFrame
<1>5. CASE ReadPage(s)
  <2>1. pc'[s] = "readTotal"
    BY <1>1, <1>5, GotoValue DEF ReadPage
  <2>2. QED
    BY <1>4, <2>1 DEF FinishSlotInv, TotalIsKnown, CountIsCurrent, PageIsFinite,
       TotalIsCleared, FinishedIsFull, HasTotal, HasPage
<1>6. CASE ReadTotal(s)
  <2>1. pc'[s] = "readSize" /\ tick'[s].total = TotalPages
    BY <1>1, <1>6, GotoValue DEF ReadTotal, Locals
  <2>2. QED
    BY <1>2, <1>4, <2>1 DEF FinishSlotInv, TotalIsKnown, CountIsCurrent, PageIsFinite,
       TotalIsCleared, FinishedIsFull, HasPage
<1>7. CASE ReadSize(s)
  <2>1. /\ pc[s] = "readSize" /\ pc'[s] = "fetch"
        /\ tick'[s] = [tick[s] EXCEPT !.locked = PageSize,
                                      !.size = IF PageSize > 0 THEN PageSize ELSE @]
    BY <1>1, <1>7, GotoValue DEF ReadSize
  <2>2. tick'[s].total = tick[s].total
    BY <2>1, <1>1 DEF Locals
  <2>3. tick[s].total = TotalPages
    BY <2>1 DEF FinishInv, FinishSlotInv, TotalIsKnown, HasTotal
  <2>4. QED
    BY <1>2, <1>4, <2>1, <2>2, <2>3 DEF FinishSlotInv, TotalIsKnown, CountIsCurrent,
       PageIsFinite, TotalIsCleared, FinishedIsFull, HasPage
<1>8. QED
  BY <1>5, <1>6, <1>7

LEMMA FetchFinish ==
    ASSUME FinishInv, AtMostOneSlot, NEW s \in Slots, FetchPage(s)
    PROVE  TotalIsEnough' /\ FinishSlotInv(s)'
<1> DEFINE t == tick[s]
<1>1. TypeOK /\ t \in Locals /\ owed \in Nat /\ listed \in Nat /\ owed <= listed
  BY FinishTypes
<1>2. PICK count \in {0, listed} :
          Goto(s, "fetch", AfterFetch(WithPage(t, Served(t), count)),
               WithPage(t, Served(t), count))
  BY DEF FetchPage
<1> DEFINE u == WithPage(t, Served(t), count)
<1>3. u.total = t.total /\ u.items = Served(t) /\ u.count = count
  BY <1>1 DEF WithPage, Locals
<1>4. pc[s] = "fetch" /\ pc'[s] = AfterFetch(u) /\ tick'[s] = u
  BY <1>1, <1>2, GotoValue
<1>5. AfterFetch(u) \in {"lockSize", "putTotal", "stampStart", "upsert"}
  BY DEF AfterFetch, AfterLock, AfterTotal
<1>6. UNCHANGED <<TotalPages, PageSize, owed>>
  BY DEF FetchPage, storeVars, historyVars, TotalPages, PageSize
<1>7. TotalIsEnough'
  BY <1>4, <1>6, TotalFrame DEF ReleaseBegun
<1>8. t.total = TotalPages
  BY <1>4 DEF FinishInv, FinishSlotInv, TotalIsKnown, HasTotal
<1>9. IsFiniteSet(Served(t))
  <2> DEFINE positions == PageRows(t.last + 1, t.size) \cap 1..listed
             at == [r \in positions |-> upstream[r]]
  <2>1. IsFiniteSet(1..listed)
    BY <1>1, FS_Interval
  <2>2. IsFiniteSet(positions)
    BY <2>1, FS_Subset
  <2>3. at \in Surjection(positions, Served(t))
    BY DEF Served, Surjection
  <2>4. QED
    BY <2>2, <2>3, FS_Surjection
<1> HIDE DEF u, t
<1>10. TotalIsKnown(s)'
  BY <1>3, <1>4, <1>6, <1>8 DEF TotalIsKnown
<1>11. CountIsCurrent(s)'
  BY <1>1, <1>2, <1>3, <1>4, <1>6 DEF CountIsCurrent
<1>12. PageIsFinite(s)'
  BY <1>3, <1>4, <1>9 DEF PageIsFinite
<1>13. TotalIsCleared(s)' /\ FinishedIsFull(s)'
  BY <1>4, <1>5 DEF TotalIsCleared, FinishedIsFull
<1>14. QED
  BY <1>7, <1>10, <1>11, <1>12, <1>13 DEF FinishSlotInv

(* The lock is written over none or over itself, so a total on record      *)
(* reaches as far as before.                                               *)
LEMMA LockFinish ==
    ASSUME FinishInv, AtMostOneSlot, NEW s \in Slots, LockSize(s)
    PROVE  TotalIsEnough' /\ FinishSlotInv(s)'
<1> DEFINE t == tick[s]
<1>1. /\ TypeOK /\ t \in Locals /\ owed \in Nat /\ TotalPages \in Nat /\ PageSize \in Nat
      /\ t.size \in Nat
  BY FinishTypes DEF Locals
<1>2. /\ pc[s] = "lockSize" /\ pc'[s] = AfterLock(t) /\ tick'[s] = t
      /\ PageSize' = t.size /\ TotalPages' = TotalPages /\ owed' = owed
  BY <1>1, GotoValue, SetValue, SetValues DEF LockSize, SyncKeys, historyVars
<1>3. AfterLock(t) \in {"putTotal", "stampStart", "upsert"}
  BY DEF AfterLock, AfterTotal
<1>4. PageSize \in {0, t.size}
  BY <1>2 DEF FinishInv, IInv, SlotInv, LockIsKnown
<1>5. TotalIsEnough'
  <2>1. \A q \in Slots : pc[q] \notin ReleaseBegun
    BY <1>2 DEF AtMostOneSlot, ReleaseBegun
  <2>2. TotalPages > 0 => owed <= TotalPages * PageSize
    BY <2>1 DEF FinishInv, TotalIsEnough
  <2>3. TotalPages > 0 => owed <= TotalPages * t.size
    BY <1>1, <1>4, <2>2
  <2>4. QED
    BY <1>2, <2>3 DEF TotalIsEnough
<1>6. FinishSlotInv(s)'
  BY <1>2, <1>3 DEF FinishInv, FinishSlotInv, TotalIsKnown, CountIsCurrent, PageIsFinite,
     TotalIsCleared, FinishedIsFull, HasTotal, HasPage
<1>7. QED
  BY <1>5, <1>6

(* The total is written from a count of no fewer rows than are owed.       *)
LEMMA TotalFinish ==
    ASSUME FinishInv, AtMostOneSlot, NEW s \in Slots, PutTotal(s)
    PROVE  TotalIsEnough' /\ FinishSlotInv(s)'
<1> DEFINE t == tick[s]
           total == CeilDiv(t.count, t.size)
<1>1. /\ TypeOK /\ t \in Locals /\ owed \in Nat /\ TotalPages \in Nat /\ PageSize \in Nat
      /\ t.size \in Nat /\ t.count \in Nat
  BY FinishTypes DEF Locals
<1>2. /\ pc[s] = "putTotal" /\ pc'[s] = AfterTotal(t)
      /\ tick'[s] = [t EXCEPT !.total = total]
      /\ PageSize' = PageSize /\ TotalPages' = total /\ owed' = owed
  BY <1>1, GotoValue, SetValue, SetValues DEF PutTotal, SyncKeys, historyVars
<1>3. tick'[s].total = total /\ tick'[s].count = t.count /\ tick'[s].items = t.items
  BY <1>1, <1>2 DEF Locals
<1>4. AfterTotal(t) \in {"stampStart", "upsert"}
  BY DEF AfterTotal
<1>5. /\ PageSize = t.size /\ t.size > 0
      /\ t.count = 0 \/ t.count >= owed
      /\ IsFiniteSet(t.items)
  BY <1>2 DEF FinishInv, IInv, TypeInv, Counting, KnowsPage, SlotInv, LockIsOurs, LockIsSet,
     FinishSlotInv, CountIsCurrent, PageIsFinite, HasPage
<1>6. total \in Nat /\ total * t.size >= t.count
  BY <1>1, <1>5, CeilDivCovers
<1>7. t.count = 0 => total = 0
  BY <1>1, <1>5 DEF CeilDiv
<1> HIDE DEF total
<1>8. total > 0 => owed <= total * PageSize
  BY <1>1, <1>5, <1>6, <1>7
<1>9. QED
  BY <1>2, <1>3, <1>4, <1>5, <1>8 DEF TotalIsEnough, FinishSlotInv, TotalIsKnown,
     CountIsCurrent, PageIsFinite, TotalIsCleared, FinishedIsFull, HasTotal, HasPage

LEMMA StampFinish ==
    ASSUME FinishInv, AtMostOneSlot, NEW s \in Slots, StampStart(s) \/ UpsertPage(s)
    PROVE  TotalIsEnough' /\ FinishSlotInv(s)'
<1>1. TypeOK
  BY FinishTypes
<1>2. /\ pc[s] \in {"stampStart", "upsert"} /\ pc'[s] \in {"upsert", "putPage"}
      /\ tick'[s] = tick[s]
      /\ UNCHANGED <<TotalPages, PageSize, owed>>
  BY <1>1, GotoValue, SetValue, SetValues DEF StampStart, UpsertPage, SyncKeys, historyVars,
     TotalPages, PageSize
<1>3. TotalIsEnough'
  BY <1>2, TotalFrame DEF ReleaseBegun
<1>4. QED
  BY <1>2, <1>3 DEF FinishInv, FinishSlotInv, TotalIsKnown, CountIsCurrent, PageIsFinite,
     TotalIsCleared, FinishedIsFull, HasTotal, HasPage

(* The cycle ends on a page that reaches past the last owed row: one with  *)
(* fewer rows than fit, or the last of a total that is enough.             *)
LEMMA LastPageIsEnough ==
    ASSUME FinishInv, AtMostOneSlot, NEW s \in Slots, PutPage(s), CycleEnds(tick[s])
    PROVE  owed <= (Lcp + 1) * PageSize
<1> DEFINE t == tick[s]
<1>1. /\ IInv /\ t \in Locals /\ owed \in Nat /\ TotalPages \in Nat /\ PageSize \in Nat
      /\ Lcp \in Nat
  BY FinishTypes
<1>2. pc[s] = "putPage"
  BY DEF PutPage, Return, Goto
<1>3. /\ t.last = Lcp /\ t.size = PageSize /\ t.size > 0 /\ t.total = TotalPages
      /\ IsFiniteSet(t.items)
      /\ PageRows(t.last + 1, t.size) \cap 1..owed \subseteq KeysOf(t.items)
  BY <1>1, <1>2 DEF IInv, TypeInv, Counting, SlotInv, CursorIsKnown, LockIsOurs,
     PageIsComplete, KnowsPage, LockIsSet, HasPage, FinishInv, FinishSlotInv, TotalIsKnown,
     PageIsFinite, HasTotal
<1>4. CASE Cardinality(t.items) < t.size
  <2>1. owed < (t.last + 1) * t.size
    BY <1>1, <1>3, <1>4, ShortPageIsLast
  <2>2. QED
    BY <2>1, <1>1, <1>3
<1>5. CASE t.total > 0 /\ t.last + 1 >= t.total
  <2>1. \A q \in Slots : pc[q] \notin ReleaseBegun
    BY <1>2 DEF AtMostOneSlot, ReleaseBegun
  <2>2. owed <= TotalPages * PageSize
    BY <2>1, <1>3, <1>5 DEF FinishInv, TotalIsEnough
  <2>3. TotalPages * PageSize <= (Lcp + 1) * PageSize
    BY <1>1, <1>3, <1>5
  <2>4. QED
    BY <2>2, <2>3, <1>1
<1>6. QED
  BY <1>4, <1>5 DEF CycleEnds

LEMMA PutPageFinish ==
    ASSUME FinishInv, AtMostOneSlot, NEW s \in Slots, PutPage(s)
    PROVE  TotalIsEnough' /\ FinishSlotInv(s)'
<1> DEFINE t == tick[s]
<1>1. /\ TypeOK /\ IInv /\ t \in Locals /\ owed \in Nat /\ PageSize \in Nat /\ Lcp \in Nat
  BY FinishTypes
<1>2. /\ Lcp' = Lcp + 1 /\ UNCHANGED <<PageSize, seen, owed>>
      /\ PageSize > 0
  BY <1>1, PutPageCursor
<1>3. UNCHANGED TotalPages
  BY <1>1, SetValues DEF PutPage, SyncKeys
<1>4. /\ pc[s] = "putPage"
      /\ \/ CycleEnds(t) /\ pc'[s] = "putSynced"
         \/ pc'[s] = "idle"
         \/ pc'[s] = "fetch" /\ tick'[s] = NextPage(t)
  BY <1>1, GotoValue DEF PutPage, Return
<1>5. TotalIsEnough'
  BY <1>2, <1>3, <1>4, TotalFrame DEF ReleaseBegun
<1>6. CASE CycleEnds(t) /\ pc'[s] = "putSynced"
  <2>1. owed <= (Lcp + 1) * PageSize
    BY <1>6, LastPageIsEnough
  <2>2. CycleInv'
    BY <1>1, PutPageStep
  <2>3. ASSUME NEW r \in 1..owed PROVE r \in seen
    <3> DEFINE n == Lcp + 1
    <3>1. n \in Nat /\ PageSize \in Nat \ {0} /\ n * PageSize \in Nat
      BY <1>1, <1>2
    <3>2. r \in 1..(n * PageSize)
      BY <1>1, <2>1, <3>1
    <3>3. Lcp' = n
      BY <1>2
    <3> HIDE DEF n
    <3>4. PICK p \in 1..n : r \in PageRows(p, PageSize)
      BY <3>1, <3>2, RowHasPage
    <3>5. QED
      BY <3>3, <3>4, <2>2, <1>2 DEF CycleInv, ResumePoint, PageRows
  <2>4. QED
    BY <1>2, <1>5, <1>6, <2>3 DEF FinishSlotInv, TotalIsKnown, CountIsCurrent, PageIsFinite,
       TotalIsCleared, FinishedIsFull, HasTotal, HasPage
<1>7. CASE pc'[s] = "idle"
  BY <1>5, <1>7 DEF FinishSlotInv, TotalIsKnown, CountIsCurrent, PageIsFinite,
     TotalIsCleared, FinishedIsFull, HasTotal, HasPage
<1>8. CASE pc'[s] = "fetch" /\ tick'[s] = NextPage(t)
  <2>1. tick'[s].total = t.total /\ t.total = TotalPages
    BY <1>4, <1>8 DEF NextPage, FinishInv, FinishSlotInv, TotalIsKnown, HasTotal, HasPage
  <2>2. QED
    BY <1>3, <1>5, <1>8, <2>1 DEF FinishSlotInv, TotalIsKnown, CountIsCurrent, PageIsFinite,
       TotalIsCleared, FinishedIsFull, HasPage
<1>9. QED
  BY <1>4, <1>6, <1>7, <1>8

(* A release that has begun clears the total before anything is owed less. *)
LEMMA ReleaseFinish ==
    ASSUME FinishInv, AtMostOneSlot, NEW s \in Slots,
           \/ ClearPage(s) \/ ClearTotal(s) \/ ClearSize(s)
           \/ ResetPage(s) \/ ResetTotal(s) \/ ResetSize(s)
    PROVE  TotalIsEnough' /\ FinishSlotInv(s)'
<1>1. TypeOK
  BY FinishTypes
<1>2. CASE ClearPage(s) \/ ResetPage(s)
  <2>1. pc'[s] \in ReleaseBegun
    BY <1>1, <1>2, GotoValue DEF ClearPage, ResetPage, ReleaseBegun
  <2>2. QED
    BY <2>1 DEF TotalIsEnough, FinishSlotInv, TotalIsKnown, CountIsCurrent, PageIsFinite,
       TotalIsCleared, FinishedIsFull, HasTotal, HasPage, ReleaseBegun
<1>3. CASE ClearTotal(s) \/ ResetTotal(s)
  <2>1. pc'[s] \in {"clearSize", "resetSize"} /\ TotalPages' = 0
    BY <1>1, <1>3, GotoValue, SetValues DEF ClearTotal, ResetTotal, SyncKeys
  <2>2. QED
    BY <2>1 DEF TotalIsEnough, FinishSlotInv, TotalIsKnown, CountIsCurrent, PageIsFinite,
       TotalIsCleared, FinishedIsFull, HasTotal, HasPage
<1>4. CASE ClearSize(s) \/ ResetSize(s)
  <2>1. /\ pc[s] \in {"clearSize", "resetSize"}
        /\ pc'[s] \in {"idle", "resetStart"}
        /\ TotalPages' = TotalPages
    BY <1>1, <1>4, GotoValue, SetValues DEF ClearSize, ResetSize, Return, SyncKeys
  <2>2. TotalPages = 0
    BY <2>1 DEF FinishInv, FinishSlotInv, TotalIsCleared
  <2>3. QED
    BY <2>1, <2>2 DEF TotalIsEnough, FinishSlotInv, TotalIsKnown, CountIsCurrent,
       PageIsFinite, TotalIsCleared, FinishedIsFull, HasTotal, HasPage
<1>5. QED
  BY <1>2, <1>3, <1>4

LEMMA EnvironmentFinish ==
    ASSUME FinishInv,
           \/ \E rows \in SeedSets : Seed(rows)
           \/ Publish
           \/ \E r \in 1..listed : Revise(r)
           \/ UNCHANGED vars
    PROVE  TotalIsEnough' /\ \A s \in Slots : FinishSlotInv(s)'
<1>1. TypeOK
  BY FinishTypes
<1>2. UNCHANGED <<TotalPages, PageSize, seen, owed, pc, tick>>
  BY <1>1, SetValue, SetValues DEF Seed, SeedForTesting, Publish, Revise, storeVars, slotVars,
     historyVars, vars, SyncKeys, TotalPages, PageSize
<1>3. QED
  BY <1>2 DEF FinishInv, TotalIsEnough, FinishSlotInv, TotalIsKnown, CountIsCurrent,
     PageIsFinite, TotalIsCleared, FinishedIsFull

LEMMA FinishInit == Init => FinishInv
<1> SUFFICES ASSUME Init PROVE FinishInv
  OBVIOUS
<1>1. IInv
  BY InvInit
<1>2. TotalPages = 0 /\ \A s \in Slots : pc[s] = "idle"
  BY DEF Init, StoreInit, TotalPages, SyncKeys
<1>3. QED
  BY <1>1, <1>2 DEF FinishInv, TotalIsEnough, FinishSlotInv, TotalIsKnown, CountIsCurrent,
     PageIsFinite, TotalIsCleared, FinishedIsFull, HasTotal, HasPage

LEMMA FinishStep ==
    ASSUME AtMostOneSlot, FinishInv, [Next]_vars, [KillSpares(ReleaseBegun)]_vars
    PROVE  FinishInv'
<1>1. IInv'
  BY InvStep DEF FinishInv
<1>2. ASSUME NEW s \in Slots, TotalIsEnough', FinishSlotInv(s)'
      PROVE  FinishInv'
  <2>1. ASSUME NEW q \in Slots PROVE FinishSlotInv(q)'
    <3>1. q = s
      BY DEF AtMostOneSlot
    <3>2. QED
      BY <1>2, <3>1
  <2>2. QED
    BY <1>1, <1>2, <2>1 DEF FinishInv
<1>3. ASSUME NEW s \in Slots,
             \/ \E size \in PageSizes, pages \in PagesPerTick : StartTick(s, size, pages)
             \/ TickStep(s) \/ StartReset(s) \/ ResetStep(s)
      PROVE  FinishInv'
  <2>1. TotalIsEnough' /\ FinishSlotInv(s)'
    BY <1>3, QuietFinish, ReadFinish, FetchFinish, LockFinish, TotalFinish, StampFinish,
       PutPageFinish, ReleaseFinish DEF TickStep, ResetStep
  <2>2. QED
    BY <1>2, <2>1
<1>4. ASSUME NEW s \in Slots, Kill(s), ~UNCHANGED vars
      PROVE  FinishInv'
  <2>1. pc[s] \notin ReleaseBegun
    BY <1>4 DEF KillSpares
  <2>2. TotalIsEnough' /\ FinishSlotInv(s)'
    BY <1>4, <2>1, QuietFinish
  <2>3. QED
    BY <1>2, <2>2
<1>5. CASE \/ \E rows \in SeedSets : Seed(rows)
           \/ Publish
           \/ \E r \in 1..listed : Revise(r)
           \/ UNCHANGED vars
  BY <1>1, <1>5, EnvironmentFinish DEF FinishInv
<1>6. QED
  BY <1>3, <1>4, <1>5 DEF Next

(* When a tick writes last_synced_at, every row listed before its cycle    *)
(* began has been upserted in it (runSyncTick's CycleEnds), if ticks do    *)
(* not overlap and no invocation dies with a release half done.            *)
THEOREM FinishCorrect ==
    ASSUME AtMostOneSlot
    PROVE  Spec /\ [][KillSpares(ReleaseBegun)]_vars => FullCycleFinish
<1>1. FinishInv /\ [Next]_vars /\ [KillSpares(ReleaseBegun)]_vars => FinishInv'
  BY FinishStep
<1>2. FinishInv => [FinishIsFull]_vars
  BY DEF FinishInv, FinishSlotInv, FinishedIsFull, FinishIsFull
<1>3. QED
  BY <1>1, <1>2, FinishInit, PTL DEF Spec, FullCycleFinish

----------------------------------------------------------------------------
(* The stamp of a cycle's start.                                           *)

LEMMA StampTypes ==
    ASSUME StampInv
    PROVE  FinishInv /\ IInv /\ TypeOK /\ tick \in [Slots -> Locals]
BY FinishTypes DEF StampInv

(* A step that leaves cursor, total, stamp and clock alone keeps a total   *)
(* on record stamped, unless it leaves the stamp or a release pending.     *)
LEMMA StampFrame ==
    ASSUME StampInv, AtMostOneSlot, NEW s \in Slots,
           UNCHANGED <<Lcp, TotalPages, StartStamp, clock>>, pc[s] \notin StampPending
    PROVE  TotalIsStamped'
<1>1. \A q \in Slots : pc[q] \notin StampPending
  BY DEF AtMostOneSlot
<1>2. QED
  BY <1>1 DEF StampInv, TotalIsStamped

LEMMA QuietStamp ==
    ASSUME StampInv, AtMostOneSlot, NEW s \in Slots,
           \/ \E size \in PageSizes, pages \in PagesPerTick : StartTick(s, size, pages)
           \/ ReadPage(s) \/ ReadTotal(s) \/ ReadSize(s) \/ FetchFails(s) \/ StartReset(s)
           \/ Kill(s) /\ pc[s] \notin StampPending
    PROVE  TotalIsStamped' /\ FirstPageIsStamped(s)' /\ FinishedHasCursor(s)'
<1>1. TypeOK
  BY StampTypes
<1>2. UNCHANGED <<Lcp, TotalPages, StartStamp, clock>>
  BY DEF StartTick, ReadPage, ReadTotal, ReadSize, FetchFails, StartReset, Kill, storeVars,
     Lcp, TotalPages, StartStamp
<1>3. /\ pc[s] \notin StampPending
      /\ pc'[s] \in {"readPage", "readTotal", "readSize", "fetch", "idle", "resetPage"}
  BY <1>1, GotoValue DEF StartTick, ReadPage, ReadTotal, ReadSize, FetchFails, StartReset,
     Kill, Return, StampPending, ReleaseBegun
<1>4. QED
  BY <1>2, <1>3, StampFrame DEF FirstPageIsStamped, FinishedHasCursor

(* What the tests on the way from a fetch to its upsert establish: a tick  *)
(* at the first page either goes on to the stamp, or found a total.        *)
LEMMA FirstPageSteps ==
    ASSUME StampInv, AtMostOneSlot, NEW s \in Slots,
           FetchPage(s) \/ LockSize(s) \/ PutTotal(s)
    PROVE  TotalIsStamped' /\ FirstPageIsStamped(s)' /\ FinishedHasCursor(s)'
<1> DEFINE t == tick[s]
<1>1. /\ TypeOK /\ IInv /\ FinishInv /\ t \in Locals
      /\ Lcp \in Nat /\ TotalPages \in Nat /\ owed \in Nat /\ listed \in Nat
  BY StampTypes, FinishTypes
<1>2. UNCHANGED <<Lcp, StartStamp, clock>>
  BY <1>1, SetValue, SetValues DEF FetchPage, LockSize, PutTotal, storeVars, Lcp, StartStamp,
     SyncKeys
<1>3. pc[s] \in {"fetch", "lockSize", "putTotal"}
  BY <1>1, GotoValue DEF FetchPage, LockSize, PutTotal
<1>4. t.last = Lcp /\ t.total = TotalPages
  BY <1>1, <1>3 DEF IInv, SlotInv, CursorIsKnown, KnowsPage, FinishInv, FinishSlotInv,
     TotalIsKnown, HasTotal, HasPage
<1>5. Lcp = 0 /\ TotalPages > 0 => StartStamp = clock
  <2>1. \A q \in Slots : pc[q] \notin StampPending
    BY <1>3 DEF AtMostOneSlot, StampPending, ReleaseBegun
  <2>2. QED
    BY <2>1 DEF StampInv, TotalIsStamped
<1>6. CASE FetchPage(s) \/ LockSize(s)
  <2>1. /\ UNCHANGED TotalPages
        /\ pc'[s] \in {"lockSize", "putTotal", "stampStart", "upsert"}
        /\ pc'[s] = "upsert" /\ t.last = 0 => t.total # 0
    <3>1. CASE LockSize(s)
      <4>1. pc'[s] = AfterLock(t) /\ UNCHANGED TotalPages
        BY <1>1, <3>1, GotoValue, SetValues DEF LockSize, SyncKeys
      <4>2. QED
        BY <4>1 DEF AfterLock, AfterTotal
    <3>2. CASE FetchPage(s)
      <4>1. PICK count \in {0, listed} :
                Goto(s, "fetch", AfterFetch(WithPage(t, Served(t), count)),
                     WithPage(t, Served(t), count))
        BY <3>2 DEF FetchPage
      <4> DEFINE u == WithPage(t, Served(t), count)
      <4>2. u.last = t.last /\ u.total = t.total
        BY <1>1 DEF WithPage, Locals
      <4>3. pc'[s] = AfterFetch(u)
        BY <1>1, <4>1, GotoValue
      <4>4. UNCHANGED TotalPages
        BY <3>2 DEF FetchPage, storeVars, TotalPages
      <4> HIDE DEF u
      <4>5. QED
        BY <4>2, <4>3, <4>4 DEF AfterFetch, AfterLock, AfterTotal
    <3>3. QED
      BY <1>6, <3>1, <3>2
  <2>2. TotalIsStamped'
    BY <1>2, <1>5, <2>1 DEF TotalIsStamped
  <2>3. pc'[s] = "upsert" /\ Lcp = 0 => StartStamp = clock
    BY <1>1, <1>4, <1>5, <2>1
  <2>4. QED
    BY <1>2, <2>1, <2>2, <2>3 DEF FirstPageIsStamped, FinishedHasCursor
<1>7. CASE PutTotal(s)
  <2>1. pc'[s] = AfterTotal(t)
    BY <1>1, <1>7, GotoValue DEF PutTotal
  <2>2. CASE Lcp = 0
    <3>1. pc'[s] = "stampStart"
      BY <2>1, <2>2, <1>4 DEF AfterTotal
    <3>2. QED
      BY <3>1 DEF TotalIsStamped, FirstPageIsStamped, FinishedHasCursor, StampPending
  <2>3. CASE Lcp # 0
    <3>1. pc'[s] = "upsert"
      BY <2>1, <2>3, <1>4 DEF AfterTotal
    <3>2. QED
      BY <3>1, <2>3, <1>2 DEF TotalIsStamped, FirstPageIsStamped, FinishedHasCursor
  <2>4. QED
    BY <2>2, <2>3
<1>8. QED
  BY <1>6, <1>7

LEMMA StampedSteps ==
    ASSUME StampInv, AtMostOneSlot, NEW s \in Slots, StampStart(s) \/ UpsertPage(s)
    PROVE  TotalIsStamped' /\ FirstPageIsStamped(s)' /\ FinishedHasCursor(s)'
<1>1. TypeOK
  BY StampTypes
<1>2. CASE StampStart(s)
  <2>1. pc'[s] = "upsert" /\ StartStamp' = clock /\ clock' = clock
    BY <1>1, <1>2, GotoValue, SetValues DEF StampStart, SyncKeys
  <2>2. QED
    BY <2>1 DEF TotalIsStamped, FirstPageIsStamped, FinishedHasCursor
<1>3. CASE UpsertPage(s)
  <2>1. /\ pc[s] = "upsert" /\ pc'[s] = "putPage"
        /\ UNCHANGED <<Lcp, TotalPages, StartStamp, clock>>
    BY <1>1, <1>3, GotoValue DEF UpsertPage, Lcp, TotalPages, StartStamp
  <2>2. QED
    BY <2>1, StampFrame DEF StampInv, FirstPageIsStamped, FinishedHasCursor, StampPending,
       ReleaseBegun
<1>4. QED
  BY <1>2, <1>3

(* With the cursor above 0 the stamp of the cycle is not looked at again.  *)
LEMMA CursorSteps ==
    ASSUME StampInv, AtMostOneSlot, NEW s \in Slots, PutPage(s) \/ PutSynced(s)
    PROVE  TotalIsStamped' /\ FirstPageIsStamped(s)' /\ FinishedHasCursor(s)'
<1>1. TypeOK /\ IInv /\ Lcp \in Nat
  BY StampTypes, FinishTypes
<1>2. CASE PutPage(s)
  <2>1. Lcp' = Lcp + 1
    BY <1>1, <1>2, PutPageCursor
  <2>2. QED
    BY <1>1, <2>1 DEF TotalIsStamped, FirstPageIsStamped, FinishedHasCursor
<1>3. CASE PutSynced(s)
  <2>1. pc[s] = "putSynced" /\ pc'[s] = "clearPage" /\ Lcp' = Lcp
    BY <1>1, <1>3, GotoValue, SetValue DEF PutSynced, SyncKeys
  <2>2. Lcp > 0
    BY <2>1 DEF StampInv, FinishedHasCursor
  <2>3. QED
    BY <1>1, <2>1, <2>2 DEF TotalIsStamped, FirstPageIsStamped, FinishedHasCursor
<1>4. QED
  BY <1>2, <1>3

LEMMA ReleaseStamp ==
    ASSUME StampInv, AtMostOneSlot, NEW s \in Slots,
           ClearPage(s) \/ ClearTotal(s) \/ ClearSize(s) \/ ResetStep(s)
    PROVE  TotalIsStamped' /\ FirstPageIsStamped(s)' /\ FinishedHasCursor(s)'
<1>1. TypeOK
  BY StampTypes
<1>2. pc'[s] \in {"clearTotal", "clearSize", "idle", "resetTotal", "resetSize", "resetStart"}
  BY <1>1, GotoValue DEF ClearPage, ClearTotal, ClearSize, ResetStep, ResetPage, ResetTotal,
     ResetSize, ResetStart, Return
<1>3. FirstPageIsStamped(s)' /\ FinishedHasCursor(s)'
  BY <1>2 DEF FirstPageIsStamped, FinishedHasCursor
<1>4. CASE ClearPage(s) \/ ResetPage(s)
  <2>1. pc'[s] \in StampPending
    BY <1>1, <1>4, GotoValue DEF ClearPage, ResetPage, StampPending, ReleaseBegun
  <2>2. QED
    BY <1>3, <2>1 DEF TotalIsStamped
<1>5. CASE ClearTotal(s) \/ ResetTotal(s)
  <2>1. TotalPages' = 0
    BY <1>1, <1>5, SetValues DEF ClearTotal, ResetTotal, SyncKeys
  <2>2. QED
    BY <1>3, <2>1 DEF TotalIsStamped
<1>6. CASE ClearSize(s) \/ ResetSize(s) \/ ResetStart(s)
  <2>1. /\ pc[s] \in {"clearSize", "resetSize", "resetStart"}
        /\ TotalPages' = TotalPages
    BY <1>1, <1>6, GotoValue, SetValues DEF ClearSize, ResetSize, ResetStart, Return, SyncKeys
  <2>2. TotalPages = 0
    BY <2>1 DEF StampInv, FinishInv, FinishSlotInv, TotalIsCleared
  <2>3. QED
    BY <1>3, <2>1, <2>2 DEF TotalIsStamped
<1>7. QED
  BY <1>4, <1>5, <1>6 DEF ResetStep

LEMMA EnvironmentStamp ==
    ASSUME StampInv,
           \/ \E rows \in SeedSets : Seed(rows)
           \/ Publish
           \/ \E r \in 1..listed : Revise(r)
           \/ UNCHANGED vars
    PROVE  TotalIsStamped' /\ \A s \in Slots : FirstPageIsStamped(s)' /\ FinishedHasCursor(s)'
<1>1. TypeOK
  BY StampTypes
<1>2. UNCHANGED <<Lcp, TotalPages, StartStamp, clock, pc>>
  BY <1>1, SetValue, SetValues DEF Seed, SeedForTesting, Publish, Revise, storeVars, slotVars,
     vars, SyncKeys, Lcp, TotalPages, StartStamp
<1>3. QED
  BY <1>2 DEF StampInv, TotalIsStamped, FirstPageIsStamped, FinishedHasCursor

LEMMA StampInit == Init => StampInv
<1> SUFFICES ASSUME Init PROVE StampInv
  OBVIOUS
<1>1. FinishInv
  BY FinishInit
<1>2. TotalPages = 0 /\ \A s \in Slots : pc[s] = "idle"
  BY DEF Init, StoreInit, TotalPages, SyncKeys
<1>3. QED
  BY <1>1, <1>2 DEF StampInv, TotalIsStamped, FirstPageIsStamped, FinishedHasCursor

LEMMA StampStep ==
    ASSUME AtMostOneSlot, StampInv, [Next]_vars, [KillSpares(StampPending)]_vars
    PROVE  StampInv'
<1>1. FinishInv'
  <2>1. [KillSpares(ReleaseBegun)]_vars
    BY DEF KillSpares, StampPending
  <2>2. QED
    BY <2>1, FinishStep DEF StampInv
<1>2. ASSUME NEW s \in Slots,
             TotalIsStamped', FirstPageIsStamped(s)', FinishedHasCursor(s)'
      PROVE  StampInv'
  <2>1. ASSUME NEW q \in Slots PROVE FirstPageIsStamped(q)' /\ FinishedHasCursor(q)'
    <3>1. q = s
      BY DEF AtMostOneSlot
    <3>2. QED
      BY <1>2, <3>1
  <2>2. QED
    BY <1>1, <1>2, <2>1 DEF StampInv
<1>3. ASSUME NEW s \in Slots,
             \/ \E size \in PageSizes, pages \in PagesPerTick : StartTick(s, size, pages)
             \/ TickStep(s) \/ StartReset(s) \/ ResetStep(s)
      PROVE  StampInv'
  <2>1. TotalIsStamped' /\ FirstPageIsStamped(s)' /\ FinishedHasCursor(s)'
    BY <1>3, QuietStamp, FirstPageSteps, StampedSteps, CursorSteps, ReleaseStamp DEF TickStep
  <2>2. QED
    BY <1>2, <2>1
<1>4. ASSUME NEW s \in Slots, Kill(s), ~UNCHANGED vars
      PROVE  StampInv'
  <2>1. pc[s] \notin StampPending
    BY <1>4 DEF KillSpares
  <2>2. TotalIsStamped' /\ FirstPageIsStamped(s)' /\ FinishedHasCursor(s)'
    BY <1>4, <2>1, QuietStamp
  <2>3. QED
    BY <1>2, <2>2
<1>5. CASE \/ \E rows \in SeedSets : Seed(rows)
           \/ Publish
           \/ \E r \in 1..listed : Revise(r)
           \/ UNCHANGED vars
  BY <1>1, <1>5, EnvironmentStamp DEF StampInv
<1>6. QED
  BY <1>3, <1>4, <1>5 DEF Next

(* The cursor only goes from 0 to 1 with cycle_started_at freshly stamped  *)
(* (cycleStartedAt), if ticks do not overlap and no invocation dies with a *)
(* release half done or between the writes of the total and of the stamp.  *)
THEOREM StampCorrect ==
    ASSUME AtMostOneSlot
    PROVE  Spec /\ [][KillSpares(StampPending)]_vars => CycleStartStamped
<1>1. StampInv /\ [Next]_vars /\ [KillSpares(StampPending)]_vars => StampInv'
  BY StampStep
<1>2. StampInv /\ [Next]_vars => [StartIsStamped]_vars
  <2> SUFFICES ASSUME StampInv, [Next]_vars, ~UNCHANGED vars, Lcp = 0, Lcp' = 1
               PROVE  StartStamp' = clock
    BY DEF StartIsStamped, StartStamp
  <2>1. IInv /\ TypeOK
    BY StampTypes
  <2>2. PICK s \in Slots : PutPage(s)
    BY <2>1, CursorFrame
  <2>3. StartStamp' = StartStamp /\ pc[s] = "putPage"
    BY <2>1, <2>2, SetValues, GotoValue DEF PutPage, Return, SyncKeys
  <2>4. QED
    BY <2>3 DEF StampInv, FirstPageIsStamped
<1>3. QED
  BY <1>1, <1>2, StampInit, PTL DEF Spec, CycleStartStamped

----------------------------------------------------------------------------
(* The refinement: every step of the sync is a step of the abstract        *)
(* refresh, or leaves its variables alone.                                 *)

LEMMA RefreshTypes ==
    ASSUME RefreshInv
    PROVE  /\ FinishInv /\ IInv /\ TypeOK
           /\ Lcp \in Nat /\ PageSize \in Nat /\ owed \in Nat /\ listed \in Nat
           /\ Lcp * PageSize \in Nat
           /\ clock \in Nat /\ sync_state["last_synced_at"] \in Nat
BY FinishTypes DEF RefreshInv, TypeOK, StoreTypeOK, SyncKeys

LEMMA RefreshInit == Init => RefreshInv /\ Refresh!InitRefresh
<1> SUFFICES ASSUME Init PROVE RefreshInv /\ Refresh!InitRefresh
  OBVIOUS
<1>1. FinishInv
  BY FinishInit
<1>2. sync_state["last_synced_at"] = 0 /\ Lcp = 0 /\ clock = 1
  BY DEF Init, StoreInit, SyncKeys, Lcp
<1>3. owed \in Nat /\ seen = {}
  BY SyncAssumption DEF Init
<1>4. PageSize \in Nat
  BY <1>1, FinishTypes
<1>5. Lcp * PageSize = 0
  BY <1>2, <1>4
<1>6. QED
  BY <1>1, <1>2, <1>3, <1>5 DEF RefreshInv, Refresh!InitRefresh

(* Steps that write neither the cursor, the lock, the history nor the      *)
(* finish stamp.                                                           *)
LEMMA StutterSteps ==
    ASSUME RefreshInv, NEW s \in Slots,
           \/ \E size \in PageSizes, pages \in PagesPerTick : StartTick(s, size, pages)
           \/ ReadPage(s) \/ ReadTotal(s) \/ ReadSize(s) \/ FetchPage(s) \/ FetchFails(s)
           \/ PutTotal(s) \/ StampStart(s) \/ ClearTotal(s)
           \/ StartReset(s) \/ ResetTotal(s) \/ ResetStart(s) \/ Kill(s)
    PROVE  UNCHANGED <<owed, seen, Lcp, PageSize, sync_state["last_synced_at"], clock>>
<1>1. TypeOK
  BY RefreshTypes
<1>2. CASE \/ \E size \in PageSizes, pages \in PagesPerTick : StartTick(s, size, pages)
           \/ ReadPage(s) \/ ReadTotal(s) \/ ReadSize(s) \/ FetchPage(s) \/ FetchFails(s)
           \/ StartReset(s) \/ Kill(s)
  BY <1>2 DEF StartTick, ReadPage, ReadTotal, ReadSize, FetchPage, FetchFails, StartReset,
     Kill, storeVars, historyVars, Lcp, PageSize
<1>3. CASE \/ PutTotal(s) \/ StampStart(s) \/ ClearTotal(s) \/ ResetTotal(s) \/ ResetStart(s)
  BY <1>1, <1>3, SetValue, SetValues DEF PutTotal, StampStart, ClearTotal, ResetTotal,
     ResetStart, historyVars, SyncKeys
<1>4. QED
  BY <1>2, <1>3

(* Steps that write the lock do so with the cursor at 0, or to the value   *)
(* it has: the resume point stays.                                         *)
LEMMA LockSteps ==
    ASSUME RefreshInv, NEW s \in Slots, LockSize(s) \/ ClearSize(s) \/ ResetSize(s)
    PROVE  UNCHANGED <<owed, seen, Lcp * PageSize, sync_state["last_synced_at"], clock>>
<1>1. TypeOK /\ IInv /\ Lcp \in Nat /\ PageSize \in Nat
  BY RefreshTypes
<1>2. UNCHANGED <<owed, seen, Lcp, sync_state["last_synced_at"], clock>>
  BY <1>1, SetValue, SetValues DEF LockSize, ClearSize, ResetSize, historyVars, SyncKeys
<1>3. PageSize' \in Nat
  <2>1. TypeInv'
    BY <1>1, PageWriteType, FinishType, ResetType DEF IInv, ResetStep
  <2>2. QED
    BY <2>1, StateReads DEF TypeInv, TypeOK, StoreTypeOK, SyncKeys, PageSize
<1>4. Lcp = 0 \/ PageSize' = PageSize
  <2>1. CASE LockSize(s)
    <3>1. pc[s] = "lockSize" /\ PageSize' = tick[s].size
      BY <1>1, <2>1, GotoValue, SetValue DEF LockSize, SyncKeys
    <3>2. PageSize \in {0, tick[s].size}
      BY <1>1, <3>1 DEF IInv, SlotInv, LockIsKnown
    <3>3. QED
      BY <1>1, <3>1, <3>2 DEF IInv, LockHeldMidCycle
  <2>2. CASE ClearSize(s) \/ ResetSize(s)
    <3>1. pc[s] \in CursorCleared
      BY <1>1, <2>2, GotoValue DEF ClearSize, ResetSize, Return, CursorCleared
    <3>2. QED
      BY <1>1, <3>1 DEF IInv, SlotInv, ReleaseOrder
  <2>3. QED
    BY <2>1, <2>2
<1>5. Lcp' * PageSize' = Lcp * PageSize
  <2>1. CASE PageSize' = PageSize
    BY <2>1, <1>2
  <2>2. CASE Lcp = 0
    <3>1. Lcp * PageSize = 0
      BY <2>2, <1>1
    <3>2. Lcp' = 0
      BY <2>2, <1>2
    <3>3. \A n \in Nat : 0 * n = 0
      OBVIOUS
    <3>4. 0 * PageSize' = 0
      BY <3>3, <1>3
    <3>5. QED
      BY <3>1, <3>2, <3>4
  <2>3. QED
    BY <2>1, <2>2, <1>4
<1>6. QED
  BY <1>2, <1>5

LEMMA MoveStep ==
    ASSUME RefreshInv, AtMostOneSlot, NEW s \in Slots, PutPage(s)
    PROVE  Refresh!MoveResumePoint /\ clock' = clock
<1>1. TypeOK /\ IInv /\ Lcp \in Nat /\ PageSize \in Nat /\ owed \in Nat
  BY RefreshTypes
<1>2. /\ Lcp' = Lcp + 1 /\ UNCHANGED <<PageSize, seen, owed>> /\ PageSize > 0
  BY <1>1, PutPageCursor
<1>3. UNCHANGED <<sync_state["last_synced_at"], clock>>
  BY <1>1, SetValues DEF PutPage, SyncKeys
<1> DEFINE n == Lcp + 1
<1>4. n \in Nat /\ n * PageSize \in Nat /\ n * PageSize > Lcp * PageSize
  BY <1>1, <1>2
<1>5. Lcp' = n
  BY <1>2
<1> HIDE DEF n
<1>6. CycleInv'
  BY <1>1, PutPageStep
<1>7. ASSUME NEW r \in 1..(n * PageSize) \cap 1..owed PROVE r \in seen
  <2>1. PageSize \in Nat \ {0} /\ r \in 1..(n * PageSize)
    BY <1>1, <1>2, <1>7
  <2>2. PICK p \in 1..n : r \in PageRows(p, PageSize)
    BY <2>1, <1>4, RowHasPage
  <2>3. QED
    BY <2>2, <1>2, <1>5, <1>6, <1>7 DEF CycleInv, ResumePoint, PageRows
<1>8. Lcp' * PageSize' = n * PageSize
  BY <1>2, <1>5
<1>9. QED
  BY <1>2, <1>3, <1>4, <1>7, <1>8 DEF Refresh!MoveResumePoint

LEMMA BeginStep ==
    ASSUME RefreshInv, NEW s \in Slots, ClearPage(s) \/ ResetPage(s)
    PROVE  Refresh!BeginRefresh /\ clock' >= clock
<1>1. TypeOK /\ PageSize \in Nat /\ listed \in Nat /\ clock \in Nat
  BY RefreshTypes
<1>2. /\ Lcp' = 0 /\ PageSize' = PageSize /\ seen' = {} /\ owed' = listed
      /\ UNCHANGED sync_state["last_synced_at"]
  BY <1>1, SetValue, SetValues DEF ClearPage, ResetPage, BeginCycle, SyncKeys
<1>3. clock' \in {clock, clock + 1}
  BY DEF ClearPage, ResetPage
<1>4. Lcp' * PageSize' = 0
  BY <1>1, <1>2
<1>5. QED
  BY <1>1, <1>2, <1>3, <1>4 DEF Refresh!BeginRefresh

LEMMA CallFinishedStep ==
    ASSUME RefreshInv, NEW s \in Slots, PutSynced(s)
    PROVE  Refresh!CallFinished /\ sync_state'["last_synced_at"] < clock'
<1>1. TypeOK /\ clock \in Nat /\ sync_state["last_synced_at"] \in Nat
  BY RefreshTypes
<1>2. /\ pc[s] = "putSynced" /\ UNCHANGED <<Lcp, PageSize, seen, owed>>
      /\ sync_state'["last_synced_at"] = clock /\ clock' = clock + 1
  BY <1>1, GotoValue, SetValue, SetValues DEF PutSynced, historyVars, SyncKeys
<1>3. 1..owed \subseteq seen
  BY <1>2 DEF RefreshInv, FinishInv, FinishSlotInv, FinishedIsFull
<1>4. sync_state["last_synced_at"] < clock
  BY DEF RefreshInv
<1>5. QED
  BY <1>1, <1>2, <1>3, <1>4 DEF Refresh!CallFinished

LEMMA RefreshStep ==
    ASSUME AtMostOneSlot, SeedSets = {}, RefreshInv, [Next]_vars,
           [KillSpares(ReleaseBegun)]_vars
    PROVE  RefreshInv' /\ [Refresh!NextRefresh]_(Refresh!refreshVars)
<1>1. FinishInv'
  BY FinishStep DEF RefreshInv
<1>2. /\ sync_state["last_synced_at"] < clock /\ clock \in Nat
      /\ sync_state["last_synced_at"] \in Nat
  BY RefreshTypes DEF RefreshInv
<1>3. CASE \E s \in Slots : PutPage(s)
  BY <1>1, <1>2, <1>3, MoveStep DEF RefreshInv, Refresh!NextRefresh, Refresh!MoveResumePoint
<1>4. CASE \E s \in Slots : ClearPage(s) \/ ResetPage(s)
  <2>1. Refresh!BeginRefresh /\ clock' >= clock
    BY <1>4, BeginStep
  <2>2. clock' \in Nat
    BY <1>1, FinishTypes DEF FinishInv, IInv, TypeInv, TypeOK
  <2>3. sync_state'["last_synced_at"] < clock'
    BY <1>2, <2>1, <2>2 DEF Refresh!BeginRefresh
  <2>4. QED
    BY <1>1, <2>1, <2>3 DEF RefreshInv, Refresh!NextRefresh
<1>5. CASE \E s \in Slots : PutSynced(s)
  BY <1>1, <1>5, CallFinishedStep DEF RefreshInv, Refresh!NextRefresh
<1>6. CASE \E s \in Slots : UpsertPage(s)
  <2>1. /\ UNCHANGED <<owed, Lcp, PageSize, sync_state, clock>>
        /\ seen \subseteq seen'
    BY <1>6 DEF UpsertPage, Lcp, PageSize
  <2>2. Refresh!Collect
    BY <2>1 DEF Refresh!Collect
  <2>3. QED
    BY <1>1, <1>2, <2>1, <2>2 DEF RefreshInv, Refresh!NextRefresh
<1>7. ASSUME UNCHANGED <<owed, seen, Lcp * PageSize, sync_state["last_synced_at"], clock>>
      PROVE  RefreshInv' /\ [Refresh!NextRefresh]_(Refresh!refreshVars)
  BY <1>1, <1>2, <1>7 DEF RefreshInv, Refresh!refreshVars
<1>8. ASSUME NEW s \in Slots,
             \/ \E size \in PageSizes, pages \in PagesPerTick : StartTick(s, size, pages)
             \/ ReadPage(s) \/ ReadTotal(s) \/ ReadSize(s) \/ FetchPage(s) \/ FetchFails(s)
             \/ PutTotal(s) \/ StampStart(s) \/ ClearTotal(s)
             \/ StartReset(s) \/ ResetTotal(s) \/ ResetStart(s) \/ Kill(s)
      PROVE  RefreshInv' /\ [Refresh!NextRefresh]_(Refresh!refreshVars)
  BY <1>7, <1>8, StutterSteps
<1>9. ASSUME NEW s \in Slots, LockSize(s) \/ ClearSize(s) \/ ResetSize(s)
      PROVE  RefreshInv' /\ [Refresh!NextRefresh]_(Refresh!refreshVars)
  BY <1>7, <1>9, LockSteps
<1>10. CASE Publish \/ (\E r \in 1..listed : Revise(r)) \/ UNCHANGED vars
  <2>1. UNCHANGED <<owed, seen, sync_state, clock>>
    BY <1>10 DEF Publish, Revise, storeVars, historyVars, vars
  <2>2. UNCHANGED <<owed, seen, Lcp * PageSize, sync_state["last_synced_at"], clock>>
    BY <2>1 DEF Lcp, PageSize
  <2>3. QED
    BY <1>7, <2>2
<1>11. QED
  BY <1>3, <1>4, <1>5, <1>6, <1>8, <1>9, <1>10 DEF Next, TickStep, ResetStep

(* The sync implements the abstract refresh (InventoryRefresh): the resume *)
(* point only moves over collected rows and a refresh is only called       *)
(* finished when all it owes is collected.  Besides what FinishCorrect     *)
(* assumes, nobody seeds: the seed route writes the finish stamp itself.   *)
THEOREM RefreshCorrect ==
    ASSUME AtMostOneSlot, SeedSets = {}
    PROVE  Spec /\ [][KillSpares(ReleaseBegun)]_vars => ImplementsRefresh
<1>1. RefreshInv /\ [Next]_vars /\ [KillSpares(ReleaseBegun)]_vars
          => RefreshInv' /\ [Refresh!NextRefresh]_(Refresh!refreshVars)
  BY RefreshStep
<1>2. QED
  BY <1>1, RefreshInit, PTL DEF Spec, ImplementsRefresh, Refresh!RefreshSpec
============================================================================
