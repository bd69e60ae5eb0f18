-------------------------- MODULE SnapshotProofs ---------------------------
(***************************************************************************)
(* One syncer with one page size that does not die between the two writes  *)
(* that end a sync: IInv is inductive, a resumed sync skips nothing, a     *)
(* completed sync is a full one, and every snapshot has what the sync it   *)
(* names vouched for, with any number of exporters, deaths and new rows.   *)
(***************************************************************************)
EXTENDS SnapshotInv, FiniteSetTheorems, TLAPS

LEMMA InitHolds == Init => IInv
<1> SUFFICES ASSUME Init PROVE IInv
  OBVIOUS
<1> USE PySyncAssumption DEF Init, SyncInit
<1>1. TypeOK
  BY SnapshotAssumption DEF TypeOK, NoSync, SyncLocals, NoExport, ExportLocals, File, StateKeys
<1>2. Lcp = 0 /\ LastSynced = 0
  BY DEF Lcp, LastSynced, StateKeys
<1>3. CycleInv
  BY <1>2 DEF CycleInv, ResumePoint, SyncerInv, SyncsInPages, FollowsCursor, PageInHand,
     PageUpserted, PageRecorded, EndReached, PageSteps, SyncSteps
<1>4. ExportInv
  BY <1>2 DEF ExportInv, TableKeeps, ExporterInv, FilesVouch
<1>5. QED
  BY <1>1, <1>3, <1>4 DEF IInv

LEMMA GotoValue ==
    ASSUME TypeOK, NEW p \in Processes, NEW from, NEW to, Goto(p, from, to)
    PROVE  /\ pc[p] = from /\ pc'[p] = to
           /\ \A q \in Processes \ {p} : pc'[q] = pc[q]
BY DEF Goto, TypeOK

LEMMA GotoType ==
    ASSUME TypeOK, NEW p \in Processes, NEW from,
           NEW to \in {"idle"} \cup SyncSteps \cup ExportSteps, Goto(p, from, to)
    PROVE  pc' \in [Processes -> {"idle"} \cup SyncSteps \cup ExportSteps]
BY DEF Goto, TypeOK

LEMMA SetValue ==
    ASSUME TypeOK, NEW key \in StateKeys, NEW value \in Nat, SetState(key, value)
    PROVE  /\ sync_state' \in [StateKeys -> Nat]
           /\ Lcp' = IF key = "last_completed_page" THEN value ELSE Lcp
           /\ LastSynced' = IF key = "last_synced_at" THEN value ELSE LastSynced
BY DEF SetState, TypeOK, Lcp, LastSynced, StateKeys

LEMMA StateReads == ASSUME TypeOK PROVE Lcp \in Nat /\ LastSynced \in Nat
BY DEF TypeOK, Lcp, LastSynced, StateKeys

(* A later page of n rows does not end before an earlier one.              *)
LEMMA PageEnds ==
    ASSUME NEW a \in Nat, NEW b \in Nat, NEW n \in Nat, a <= b
    PROVE  a * n <= b * n /\ a * n \in Nat /\ (a + 1) * n = a * n + n
<1>1. PICK k \in Nat : b = a + k
  <2>1. b - a \in Nat /\ b = a + (b - a)
    OBVIOUS
  <2>2. QED
    BY <2>1
<1>2. b * n = a * n + k * n
  BY <1>1
<1>3. k * n \in Nat /\ a * n \in Nat
  OBVIOUS
<1>4. (a + 1) * n = a * n + n
  OBVIOUS
<1>5. QED
  BY <1>2, <1>3, <1>4

(* A page of the listing has its rows, and if there are fewer than its     *)
(* size the listing ends within it.                                        *)
LEMMA PageContents ==
    ASSUME NEW page \in Nat \ {0}, NEW size \in Nat \ {0}, NEW n \in Nat,
           NEW items, items = PageRows(page, size) \cap 1..n
    PROVE  /\ Cardinality(items) < size => page * size >= n
           /\ items = {} => (page - 1) * size >= n
<1>1. (page - 1) \in Nat /\ (page - 1) * size \in Nat /\ page * size = (page - 1) * size + size
  <2>1. (page - 1) * size \in Nat /\ ((page - 1) + 1) * size = (page - 1) * size + size
    BY PageEnds
  <2>2. QED
    BY <2>1
<1>2. ASSUME page * size < n
      PROVE  Cardinality(items) = size
  <2> DEFINE first == (page - 1) * size + 1
             last  == (page - 1) * size + size
  <2>1. items = first..last
    BY <1>1, <1>2 DEF PageRows
  <2>2. first \in Int /\ last \in Int /\ first <= last /\ last - first + 1 = size
    BY <1>1
  <2>3. Cardinality(first..last) = last - first + 1
    <3> HIDE DEF first, last
    <3>1. Cardinality(first..last) = IF first > last THEN 0 ELSE last - first + 1
      BY <2>2, FS_Interval
    <3>2. QED
      BY <2>2, <3>1
  <2>4. QED
    BY <2>1, <2>2, <2>3
<1>3. ASSUME (page - 1) * size < n
      PROVE  items # {}
  <2>1. (page - 1) * size + 1 \in PageRows(page, size) \cap 1..n
    BY <1>1, <1>3 DEF PageRows
  <2>2. QED
    BY <2>1
<1>4. QED
  BY <1>1, <1>2, <1>3

----------------------------------------------------------------------------
(* Steps that leave the cursor and what is owed alone, and every process   *)
(* where it was or outside sync(), keep CycleInv.                          *)
LEMMA SyncsUntouched ==
    ASSUME CycleInv, UNCHANGED <<sync_state, seen, owed>>, listed' \in Nat, listed \in Nat,
           owed \in Nat, listed <= listed',
           \A q \in Processes :
               \/ pc'[q] = pc[q] /\ sync'[q] = sync[q]
               \/ pc'[q] \notin SyncSteps /\ pc[q] # "clearPage"
    PROVE  CycleInv'
<1>1. Lcp' = Lcp
  BY DEF Lcp
<1>2. ResumePoint'
  BY <1>1 DEF CycleInv, ResumePoint
<1>3. owed' <= listed'
  BY DEF CycleInv
<1>4. ASSUME NEW q \in Processes
      PROVE  SyncerInv(q)'
  <2>1. CASE pc'[q] = pc[q] /\ sync'[q] = sync[q]
    BY <1>1, <2>1 DEF CycleInv, SyncerInv, SyncsInPages, FollowsCursor, PageInHand,
       PageUpserted, PageRecorded, EndReached, IsLastPage
  <2>2. CASE pc'[q] \notin SyncSteps
    BY <2>2 DEF SyncerInv, SyncsInPages, FollowsCursor, PageInHand,
       PageUpserted, PageRecorded, EndReached, PageSteps, SyncSteps
  <2>3. QED
    BY <2>1, <2>2
<1>5. QED
  BY <1>2, <1>3, <1>4 DEF CycleInv

(* With one syncer, nobody else is in sync().                              *)
LEMMA SyncsAlone ==
    ASSUME OneSafeSyncer, CycleInv, NEW p \in Syncers, NEW q \in Processes, q # p
    PROVE  pc[q] \notin SyncSteps
BY DEF OneSafeSyncer, CycleInv, SyncerInv, SyncsInPages

LEMMA SyncerMoves ==
    ASSUME OneSafeSyncer, CycleInv, NEW p \in Syncers,
           \A q \in Processes \ {p} : pc'[q] = pc[q],
           ResumePoint', owed' <= listed', SyncerInv(p)'
    PROVE  CycleInv'
<1>1. ASSUME NEW q \in Processes, q # p
      PROVE  SyncerInv(q)'
  <2>1. pc'[q] \notin SyncSteps
    BY <1>1, SyncsAlone
  <2>2. QED
    BY <2>1 DEF SyncerInv, SyncsInPages, FollowsCursor, PageInHand,
       PageUpserted, PageRecorded, EndReached, PageSteps, SyncSteps
<1>2. QED
  BY <1>1 DEF CycleInv

(* A step of sync() is a syncer's, and outside clearPage the recorded      *)
(* pages have been upserted.                                               *)
LEMMA InSync ==
    ASSUME OneSafeSyncer, TypeOK, CycleInv, NEW p \in Processes, pc[p] \in SyncSteps
    PROVE  /\ p \in Syncers
           /\ pc[p] # "clearPage" => \A size \in PageSizes : 1..(Lcp * size) \cap 1..owed \subseteq seen
<1>1. p \in Syncers
  BY DEF CycleInv, SyncerInv, SyncsInPages
<1>2. ASSUME pc[p] # "clearPage"
      PROVE  \A q \in Processes : pc[q] # "clearPage"
  BY <1>1, <1>2, SyncsAlone DEF SyncSteps
<1>3. QED
  BY <1>1, <1>2 DEF CycleInv, ResumePoint

(* The locals of a process that fetches and upserts pages.                 *)
LEMMA InPages ==
    ASSUME OneSafeSyncer, TypeOK, CycleInv, NEW p \in Processes, pc[p] \in PageSteps
    PROVE  /\ sync[p] \in SyncLocals
           /\ sync[p].page \in Nat \ {0}
           /\ sync[p].size \in Nat \ {0} /\ sync[p].size \in PageSizes
           /\ \A size \in PageSizes : size = sync[p].size
BY PySyncAssumption DEF TypeOK, CycleInv, SyncerInv, SyncsInPages, SyncLocals, OneSafeSyncer

(* All rows up to the end of the pages up to `page` have been upserted: if *)
(* that is the end of what is owed, all that is owed has.                  *)
LEMMA AllUpserted ==
    ASSUME NEW n \in Nat, NEW end \in Nat, n <= end, 1..end \cap 1..n \subseteq seen
    PROVE  1..n \subseteq seen
OBVIOUS

----------------------------------------------------------------------------
(* Each step of sync() keeps CycleInv.                                     *)
LEMMA StartSyncCycle ==
    ASSUME OneSafeSyncer, TypeOK, CycleInv, NEW p \in Syncers, NEW size \in PageSizes,
           NEW full \in BOOLEAN, NEW snapshot \in BOOLEAN, StartSync(p, size, full, snapshot)
    PROVE  CycleInv'
<1> p \in Processes
  BY DEF Processes
<1> USE DEF StartSync, historyVars, storeVars
<1>1. pc[p] = "idle" /\ pc'[p] = "fetch" /\ \A q \in Processes \ {p} : pc'[q] = pc[q]
  BY GotoValue
<1>2. sync'[p].page = ResumePage(full) /\ sync'[p].size = size
  BY DEF TypeOK
<1>3. Lcp \in Nat /\ Lcp' = Lcp
  BY StateReads DEF Lcp
<1>4. ResumePoint'
  <2>1. ASSUME \A q \in Processes : pc'[q] # "clearPage"
        PROVE  \A q \in Processes : pc[q] # "clearPage"
    BY <1>1, <2>1
  <2>2. QED
    BY <1>3, <2>1 DEF CycleInv, ResumePoint
<1>5. owed' <= listed'
  BY DEF CycleInv
<1>6. SyncerInv(p)'
  <2>1. sync'[p].page > 0 /\ sync'[p].page <= Lcp' + 1
    BY <1>2, <1>3 DEF ResumePage
  <2>2. QED
    BY <1>1, <1>2, <2>1 DEF SyncerInv, SyncsInPages, FollowsCursor, PageInHand,
       PageUpserted, PageRecorded, EndReached, PageSteps, SyncSteps
<1>7. QED
  BY <1>1, <1>4, <1>5, <1>6, SyncerMoves

LEMMA FetchPageCycle ==
    ASSUME OneSafeSyncer, TypeOK, CycleInv, NEW p \in Processes, FetchPage(p)
    PROVE  CycleInv'
<1> DEFINE items == PageRows(sync[p].page, sync[p].size) \cap 1..listed
<1>1. /\ pc[p] = "fetch" /\ pc'[p] \in {"putSynced", "upsert"}
      /\ \A q \in Processes \ {p} : pc'[q] = pc[q]
  BY GotoValue DEF FetchPage
<1>2. p \in Syncers /\ \A size \in PageSizes : 1..(Lcp * size) \cap 1..owed \subseteq seen
  BY <1>1, InSync DEF SyncSteps
<1>3. /\ sync[p].page \in Nat \ {0} /\ sync[p].size \in Nat \ {0} /\ sync[p].size \in PageSizes
      /\ sync[p].page <= Lcp + 1
  <2>1. sync[p].page <= Lcp + 1
    BY <1>1 DEF CycleInv, SyncerInv, FollowsCursor
  <2>2. QED
    BY <1>1, <2>1, InPages DEF PageSteps, SyncSteps
<1>4. listed \in Nat /\ owed \in Nat /\ owed <= listed
  BY PySyncAssumption DEF TypeOK, CycleInv
<1>5. /\ Lcp \in Nat /\ Lcp' = Lcp
      /\ UNCHANGED <<listed, owed, seen>>
  BY StateReads DEF FetchPage, Lcp, storeVars, historyVars
<1>6. /\ Cardinality(items) < sync[p].size => sync[p].page * sync[p].size >= listed
      /\ items = {} => (sync[p].page - 1) * sync[p].size >= listed
  BY <1>3, <1>4, PageContents
<1>7. ResumePoint' /\ owed' <= listed'
  BY <1>2, <1>4, <1>5 DEF ResumePoint
<1>8. SyncerInv(p)'
  <2>1. CASE items = {}
    <3>1. pc'[p] = "putSynced"
      BY <2>1, GotoValue DEF FetchPage
    <3>2. (sync[p].page - 1) * sync[p].size <= Lcp * sync[p].size /\ Lcp * sync[p].size \in Nat
          /\ (sync[p].page - 1) * sync[p].size \in Nat
      <4>1. sync[p].page - 1 \in Nat /\ sync[p].page - 1 <= Lcp
        BY <1>3, <1>5
      <4>2. QED
        BY <4>1, <1>3, <1>5, PageEnds
    <3>3. owed <= Lcp * sync[p].size
      BY <1>4, <1>6, <2>1, <3>2
    <3>4. 1..owed \subseteq seen
      BY <1>2, <1>3, <1>4, <3>2, <3>3, AllUpserted
    <3>5. QED
      BY <1>2, <1>5, <3>1, <3>4 DEF SyncerInv, SyncsInPages, FollowsCursor, PageInHand,
         PageUpserted, PageRecorded, EndReached, PageSteps
  <2>2. CASE items # {}
    <3>1. pc'[p] = "upsert"
      BY <2>2, GotoValue DEF FetchPage
    <3>2. PICK total \in {0, listed} :
            sync' = [sync EXCEPT ![p].items = items, ![p].total = total]
      BY <2>2 DEF FetchPage
    <3>3. sync[p] \in SyncLocals
      BY DEF TypeOK
    <3>4. /\ sync'[p].items = items /\ sync'[p].total = total
          /\ sync'[p].page = sync[p].page /\ sync'[p].size = sync[p].size
      BY <3>2, <3>3 DEF TypeOK, SyncLocals
    <3>5. PageRows(sync[p].page, sync[p].size) \cap 1..owed \subseteq items
      BY <1>4
    <3>6. IsLastPage(sync'[p]) => sync[p].page * sync[p].size >= owed
      <4>1. sync[p].page * sync[p].size \in Nat
        BY <1>3, PageEnds
      <4>2. QED
        BY <4>1, <1>4, <1>6, <3>4 DEF IsLastPage
    <3>7. PageInHand(p)'
      BY <1>5, <3>4, <3>5, <3>6 DEF PageInHand, IsLastPage
    <3>8. QED
      BY <1>2, <1>3, <1>5, <3>1, <3>4, <3>7 DEF SyncerInv, SyncsInPages, FollowsCursor,
         PageUpserted, PageRecorded, EndReached, PageSteps
  <2>3. QED
    BY <2>1, <2>2
<1>9. QED
  BY <1>1, <1>2, <1>7, <1>8, SyncerMoves

LEMMA AwaitCycle ==
    ASSUME OneSafeSyncer, TypeOK, CycleInv, NEW p \in Processes, FetchFails(p) \/ WakeUp(p)
    PROVE  CycleInv'
<1>1. /\ pc[p] \in {"fetch", "sleep"} /\ pc'[p] \in {"fetch", "sleep"}
      /\ \A q \in Processes \ {p} : pc'[q] = pc[q]
  BY GotoValue DEF FetchFails, WakeUp
<1>2. UNCHANGED syncVars
  BY DEF FetchFails, WakeUp
<1>3. p \in Syncers /\ \A size \in PageSizes : 1..(Lcp * size) \cap 1..owed \subseteq seen
  BY <1>1, InSync DEF SyncSteps
<1>4. ResumePoint' /\ owed' <= listed'
  BY <1>2, <1>3 DEF syncVars, ResumePoint, Lcp, CycleInv
<1>5. SyncerInv(p)'
  BY <1>1, <1>2 DEF syncVars, CycleInv, SyncerInv, SyncsInPages, FollowsCursor, PageInHand,
     PageUpserted, PageRecorded, EndReached, PageSteps, SyncSteps, Lcp
<1>6. QED
  BY <1>1, <1>3, <1>4, <1>5, SyncerMoves

LEMMA UpsertPageCycle ==
    ASSUME OneSafeSyncer, TypeOK, CycleInv, NEW p \in Processes, UpsertPage(p)
    PROVE  CycleInv'
<1>1. /\ pc[p] = "upsert" /\ pc'[p] = "putPage"
      /\ \A q \in Processes \ {p} : pc'[q] = pc[q]
  BY GotoValue DEF UpsertPage
<1>2. /\ UNCHANGED <<listed, sync_state, sync, owed>>
      /\ seen' = seen \cup sync[p].items
  BY DEF UpsertPage
<1>3. p \in Syncers /\ \A size \in PageSizes : 1..(Lcp * size) \cap 1..owed \subseteq seen
  BY <1>1, InSync DEF SyncSteps
<1>4. ResumePoint' /\ owed' <= listed'
  BY <1>2, <1>3 DEF ResumePoint, Lcp, CycleInv
<1>5. SyncerInv(p)'
  BY <1>1, <1>2 DEF CycleInv, SyncerInv, SyncsInPages, FollowsCursor, PageInHand, IsLastPage,
     PageUpserted, PageRecorded, EndReached, PageSteps, SyncSteps, Lcp
<1>6. QED
  BY <1>1, <1>3, <1>4, <1>5, SyncerMoves

(* With the page in hand recorded, the recorded pages have been upserted.  *)
LEMMA PageCompletes ==
    ASSUME OneSafeSyncer, TypeOK, CycleInv, NEW p \in Processes, pc[p] \in {"putPage", "putTotal"}
    PROVE  LET end == sync[p].page * sync[p].size
           IN  /\ end \in Nat
               /\ 1..end \cap 1..owed \subseteq seen
               /\ IsLastPage(sync[p]) => 1..owed \subseteq seen
<1> DEFINE page == sync[p].page
           size == sync[p].size
<1>1. page \in Nat \ {0} /\ size \in Nat \ {0} /\ size \in PageSizes
  BY InPages DEF PageSteps, SyncSteps
<1>2. p \in Syncers /\ 1..(Lcp * size) \cap 1..owed \subseteq seen
  BY <1>1, InSync DEF SyncSteps
<1>3. Lcp \in Nat /\ owed \in Nat
  BY StateReads, PySyncAssumption DEF TypeOK
<1>4. page - 1 \in Nat /\ page - 1 <= Lcp
  BY <1>1, <1>3 DEF CycleInv, SyncerInv, FollowsCursor, PageRecorded
<1>5. /\ (page - 1) * size <= Lcp * size
      /\ (page - 1) * size \in Nat /\ Lcp * size \in Nat
      /\ page * size = (page - 1) * size + size
  <2>1. /\ (page - 1) * size <= Lcp * size
        /\ (page - 1) * size \in Nat /\ ((page - 1) + 1) * size = (page - 1) * size + size
    BY <1>1, <1>3, <1>4, PageEnds
  <2>2. (page - 1) + 1 = page
    BY <1>1
  <2>3. Lcp * size \in Nat
    BY <1>1, <1>3, PageEnds
  <2>4. QED
    BY <2>1, <2>2, <2>3
<1>6. PageRows(page, size) \cap 1..owed \subseteq seen
  BY DEF CycleInv, SyncerInv, PageInHand, PageUpserted
<1>7. 1..(page * size) \cap 1..owed \subseteq seen
  <2>1. ASSUME NEW row \in 1..(page * size), row \in 1..owed
        PROVE  row \in seen
    <3>1. CASE row <= (page - 1) * size
      BY <1>2, <1>5, <2>1, <3>1
    <3>2. CASE row > (page - 1) * size
      <4>1. row \in PageRows(page, size)
        BY <1>5, <2>1, <3>2 DEF PageRows
      <4>2. QED
        BY <1>6, <2>1, <4>1
    <3>3. QED
      BY <1>5, <2>1, <3>1, <3>2
  <2>2. QED
    BY <2>1
<1>8. IsLastPage(sync[p]) => page * size >= owed
  BY DEF CycleInv, SyncerInv, PageInHand
<1>9. page * size \in Nat
  BY <1>1, <1>5
<1>10. IsLastPage(sync[p]) => 1..owed \subseteq seen
  BY <1>3, <1>7, <1>8, <1>9, AllUpserted
<1>11. QED
  BY <1>7, <1>9, <1>10

LEMMA ProceedCycle ==
    ASSUME OneSafeSyncer, TypeOK, CycleInv, NEW p \in Processes, NEW from \in {"putPage", "putTotal"},
           Proceed(p, from), UNCHANGED <<listed, owed, seen>>, Lcp' = sync[p].page
    PROVE  CycleInv'
<1>1. pc[p] = from /\ \A q \in Processes \ {p} : pc'[q] = pc[q]
  BY GotoValue DEF Proceed
<1>2. /\ 1..(sync[p].page * sync[p].size) \cap 1..owed \subseteq seen
      /\ IsLastPage(sync[p]) => 1..owed \subseteq seen
  BY <1>1, PageCompletes
<1>3. p \in Syncers
  BY <1>1, InSync DEF SyncSteps
<1>4. /\ sync[p] \in SyncLocals
      /\ sync[p].page \in Nat \ {0} /\ sync[p].size \in PageSizes
      /\ \A size \in PageSizes : size = sync[p].size
  BY <1>1, InPages DEF PageSteps, SyncSteps
<1>5. ResumePoint' /\ owed' <= listed'
  BY <1>2, <1>4 DEF ResumePoint, CycleInv
<1>6. SyncerInv(p)'
  <2>1. CASE IsLastPage(sync[p])
    <3>1. pc'[p] = "putSynced"
      BY <2>1, GotoValue DEF Proceed
    <3>2. QED
      BY <1>2, <1>3, <2>1, <3>1 DEF SyncerInv, SyncsInPages, FollowsCursor, PageInHand,
         PageUpserted, PageRecorded, EndReached, PageSteps
  <2>2. CASE ~IsLastPage(sync[p])
    <3>1. pc'[p] = "fetch"
      BY <2>2, GotoValue DEF Proceed
    <3>2. sync'[p].page = sync[p].page + 1 /\ sync'[p].size = sync[p].size
      <4>1. sync'[p] = AtPage(sync[p], sync[p].page + 1)
        BY <2>2 DEF Proceed, TypeOK
      <4>2. QED
        BY <1>4, <4>1 DEF AtPage, SyncLocals
    <3>3. QED
      BY <1>3, <1>4, <3>1, <3>2 DEF SyncerInv, SyncsInPages, FollowsCursor, PageInHand,
         PageUpserted, PageRecorded, EndReached, PageSteps
  <2>3. QED
    BY <2>1, <2>2
<1>7. QED
  BY <1>1, <1>3, <1>5, <1>6, SyncerMoves

LEMMA PutPageCycle ==
    ASSUME OneSafeSyncer, TypeOK, CycleInv, NEW p \in Processes, PutPage(p)
    PROVE  CycleInv'
<1>1. pc[p] = "putPage"
  BY DEF PutPage, Proceed, Goto
<1>2. Lcp' = sync[p].page /\ UNCHANGED <<listed, owed, seen>>
  <2>1. sync[p].page \in Nat
    BY DEF TypeOK, SyncLocals
  <2>2. QED
    BY <2>1, SetValue DEF PutPage, StateKeys, historyVars
<1>3. CASE sync[p].total > 0
  <2>1. /\ pc'[p] = "putTotal" /\ \A q \in Processes \ {p} : pc'[q] = pc[q]
        /\ sync' = sync
    BY <1>3, GotoValue DEF PutPage
  <2>2. 1..(sync[p].page * sync[p].size) \cap 1..owed \subseteq seen
    BY <1>1, PageCompletes
  <2>3. p \in Syncers
    BY <1>1, InSync DEF SyncSteps
  <2>4. \A size \in PageSizes : size = sync[p].size
    BY <1>1, InPages DEF PageSteps, SyncSteps
  <2>5. ResumePoint' /\ owed' <= listed'
    BY <1>2, <2>2, <2>4 DEF ResumePoint, CycleInv
  <2>6. SyncerInv(p)'
    BY <1>1, <1>2, <2>1 DEF CycleInv, SyncerInv, SyncsInPages, FollowsCursor, PageInHand,
       IsLastPage, PageUpserted, PageRecorded, EndReached, PageSteps, SyncSteps
  <2>7. QED
    BY <2>1, <2>3, <2>5, <2>6, SyncerMoves
<1>4. CASE ~(sync[p].total > 0)
  BY <1>2, <1>4, ProceedCycle DEF PutPage
<1>5. QED
  BY <1>3, <1>4

LEMMA PutTotalCycle ==
    ASSUME OneSafeSyncer, TypeOK, CycleInv, NEW p \in Processes, PutTotal(p)
    PROVE  CycleInv'
<1>1. pc[p] = "putTotal"
  BY DEF PutTotal, Proceed, Goto
<1>2. Lcp' = Lcp /\ Lcp = sync[p].page
  <2>1. sync[p].total \in Nat
    BY DEF TypeOK, SyncLocals
  <2>2. Lcp' = Lcp
    BY <2>1, SetValue DEF PutTotal, StateKeys
  <2>3. QED
    BY <1>1, <2>2 DEF CycleInv, SyncerInv, PageRecorded
<1>3. QED
  BY <1>2, ProceedCycle DEF PutTotal, historyVars

LEMMA PutSyncedCycle ==
    ASSUME OneSafeSyncer, TypeOK, CycleInv, NEW p \in Processes, PutSynced(p)
    PROVE  CycleInv'
<1>1. /\ pc[p] = "putSynced" /\ pc'[p] = "clearPage"
      /\ \A q \in Processes \ {p} : pc'[q] = pc[q]
  BY GotoValue DEF PutSynced
<1>2. p \in Syncers
  BY <1>1, InSync DEF SyncSteps
<1>3. ResumePoint'
  BY <1>1 DEF ResumePoint
<1>4. owed' <= listed'
  BY PySyncAssumption DEF PutSynced, TypeOK
<1>5. SyncerInv(p)'
  BY <1>1, <1>2 DEF SyncerInv, SyncsInPages, FollowsCursor, PageInHand,
     PageUpserted, PageRecorded, EndReached, PageSteps
<1>6. QED
  BY <1>1, <1>2, <1>3, <1>4, <1>5, SyncerMoves

LEMMA ClearPageCycle ==
    ASSUME OneSafeSyncer, TypeOK, CycleInv, NEW p \in Processes, ClearPage(p)
    PROVE  CycleInv'
<1>1. /\ pc[p] = "clearPage" /\ pc'[p] \notin SyncSteps
      /\ \A q \in Processes \ {p} : pc'[q] = pc[q]
  BY GotoValue DEF ClearPage, SyncSteps
<1>2. p \in Syncers
  BY <1>1, InSync DEF SyncSteps
<1>3. ResumePoint'
  <2>1. Lcp' = 0
    BY SetValue DEF ClearPage, StateKeys
  <2>2. \A size \in PageSizes : 1..(Lcp' * size) = {}
    BY <2>1, PySyncAssumption
  <2>3. QED
    BY <2>2 DEF ResumePoint
<1>4. owed' <= listed'
  BY DEF ClearPage, CycleInv, historyVars
<1>5. SyncerInv(p)'
  BY <1>1 DEF SyncerInv, SyncsInPages, FollowsCursor, PageInHand,
     PageUpserted, PageRecorded, EndReached, PageSteps, SyncSteps
<1>6. QED
  BY <1>1, <1>2, <1>3, <1>4, <1>5, SyncerMoves

----------------------------------------------------------------------------
(* Each step of write_snapshot, and each of the surroundings, keeps        *)
(* CycleInv.                                                               *)
LEMMA ExportStepCycle ==
    ASSUME OneSafeSyncer, TypeOK, CycleInv, NEW p \in Processes, ExportStep(p)
    PROVE  CycleInv'
<1>1. UNCHANGED syncVars
  BY DEF ExportStep, ReadSynced, ReadCount, CannotCheck, Skip, Accept, BeginCopy, EndCopy
<1>2. /\ pc[p] \in ExportSteps /\ pc'[p] \in {"idle"} \cup ExportSteps
      /\ \A q \in Processes \ {p} : pc'[q] = pc[q]
  BY GotoValue DEF ExportStep, ReadSynced, ReadCount, CannotCheck, Skip, Accept, BeginCopy, EndCopy,
     Leave, ExportSteps
<1>3. pc'[p] \notin SyncSteps /\ pc[p] # "clearPage"
  BY <1>2 DEF ExportSteps, SyncSteps
<1>4. listed \in Nat /\ owed \in Nat
  BY PySyncAssumption DEF TypeOK
<1>5. QED
  BY <1>1, <1>2, <1>3, <1>4, SyncsUntouched DEF syncVars

LEMMA StartSnapshotCycle ==
    ASSUME TypeOK, CycleInv, NEW p \in Processes, NEW force, StartSnapshot(p, force)
    PROVE  CycleInv'
<1>1. /\ pc[p] = "idle" /\ pc'[p] = "readSynced"
      /\ \A q \in Processes \ {p} : pc'[q] = pc[q]
  BY GotoValue DEF StartSnapshot
<1>2. listed \in Nat /\ owed \in Nat
  BY PySyncAssumption DEF TypeOK
<1>3. QED
  BY <1>1, <1>2, SyncsUntouched DEF StartSnapshot, syncVars, SyncSteps

LEMMA DieCycle ==
    ASSUME OneSafeSyncer, TypeOK, CycleInv, NEW p \in Processes, Die(p)
    PROVE  CycleInv'
<1>1. /\ pc[p] # "clearPage" /\ pc'[p] = "idle"
      /\ \A q \in Processes \ {p} : pc'[q] = pc[q] /\ sync'[q] = sync[q]
  <2>1. \A q \in Processes \ {p} : sync'[q] = sync[q]
    BY DEF Die, TypeOK
  <2>2. QED
    BY <2>1, GotoValue DEF Die, Leave, OneSafeSyncer
<1>2. listed \in Nat /\ owed \in Nat
  BY PySyncAssumption DEF TypeOK
<1>3. QED
  BY <1>1, <1>2, SyncsUntouched DEF Die, storeVars, historyVars, SyncSteps

LEMMA PublishCycle ==
    ASSUME TypeOK, CycleInv, Publish
    PROVE  CycleInv'
BY PySyncAssumption, SyncsUntouched DEF Publish, storeVars, historyVars, TypeOK

LEMMA MidnightCycle ==
    ASSUME TypeOK, CycleInv, Midnight
    PROVE  CycleInv'
BY PySyncAssumption, SyncsUntouched DEF Midnight, syncVars, TypeOK

(* Every step keeps CycleInv.                                              *)
LEMMA StepCycle ==
    ASSUME OneSafeSyncer, TypeOK, CycleInv, [Next]_vars
    PROVE  CycleInv'
<1>1. ASSUME NEW p \in Processes, Start(p)
      PROVE  CycleInv'
  BY <1>1, StartSyncCycle, StartSnapshotCycle DEF Start
<1>2. ASSUME NEW p \in Processes, SyncStep(p)
      PROVE  CycleInv'
  BY <1>2, FetchPageCycle, AwaitCycle, UpsertPageCycle, PutPageCycle, PutTotalCycle,
     PutSyncedCycle, ClearPageCycle DEF SyncStep
<1>3. ASSUME UNCHANGED vars
      PROVE  CycleInv'
  BY <1>3, PySyncAssumption, SyncsUntouched DEF vars, TypeOK
<1>4. QED
  BY <1>1, <1>2, <1>3, ExportStepCycle, DieCycle, PublishCycle, MidnightCycle DEF Next

----------------------------------------------------------------------------
(* Each step keeps the types.                                              *)
LEMMA StartType ==
    ASSUME TypeOK, NEW p \in Processes, Start(p)
    PROVE  TypeOK'
<1>1. ASSUME NEW size \in PageSizes, NEW full \in BOOLEAN, NEW snapshot \in BOOLEAN,
             StartSync(p, size, full, snapshot), UNCHANGED snapshotVars
      PROVE  TypeOK'
  <2>1. pc' \in [Processes -> {"idle"} \cup SyncSteps \cup ExportSteps]
    BY <1>1, GotoType DEF StartSync, SyncSteps
  <2>2. sync' \in [Processes -> SyncLocals]
    <3>1. ResumePage(full) \in Nat
      BY StateReads DEF ResumePage
    <3>2. [page |-> ResumePage(full), size |-> size, snapshot |-> snapshot,
           items |-> {}, total |-> 0] \in SyncLocals
      BY <3>1, PySyncAssumption DEF SyncLocals
    <3>3. QED
      BY <1>1, <3>2 DEF StartSync, TypeOK
  <2>3. QED
    BY <1>1, <2>1, <2>2 DEF TypeOK, StartSync, storeVars, historyVars, snapshotVars
<1>2. ASSUME NEW force \in BOOLEAN, StartSnapshot(p, force)
      PROVE  TypeOK'
  <2>1. pc' \in [Processes -> {"idle"} \cup SyncSteps \cup ExportSteps]
    BY <1>2, GotoType DEF StartSnapshot, ExportSteps
  <2>2. export' \in [Processes -> ExportLocals]
    BY <1>2 DEF StartSnapshot, TypeOK, ExportLocals
  <2>3. QED
    BY <1>2, <2>1, <2>2 DEF TypeOK, StartSnapshot, syncVars
<1>3. QED
  BY <1>1, <1>2 DEF Start

LEMMA NoLocals ==
    /\ NoSync \in SyncLocals
    /\ NoExport \in ExportLocals
    /\ \A t \in SyncLocals : NoMorePages(t) \in SyncLocals
    /\ \A t \in SyncLocals, n \in Nat : AtPage(t, n) \in SyncLocals
BY DEF NoSync, NoExport, SyncLocals, ExportLocals, NoMorePages, AtPage

LEMMA ProceedType ==
    ASSUME TypeOK, NEW p \in Processes, NEW from, Proceed(p, from)
    PROVE  /\ pc' \in [Processes -> {"idle"} \cup SyncSteps \cup ExportSteps]
           /\ sync' \in [Processes -> SyncLocals]
<1>1. pc' \in [Processes -> {"idle"} \cup SyncSteps \cup ExportSteps]
  BY GotoType DEF Proceed, SyncSteps
<1>2. sync[p] \in SyncLocals /\ sync[p].page + 1 \in Nat
  BY DEF TypeOK, SyncLocals
<1>3. NoMorePages(sync[p]) \in SyncLocals /\ AtPage(sync[p], sync[p].page + 1) \in SyncLocals
  BY <1>2, NoLocals
<1>4. QED
  BY <1>1, <1>3 DEF Proceed, TypeOK

LEMMA SyncStepType ==
    ASSUME TypeOK, NEW p \in Processes, SyncStep(p), UNCHANGED snapshotVars
    PROVE  TypeOK'
<1> USE DEF storeVars, historyVars, snapshotVars
<1>0. sync[p] \in SyncLocals /\ sync[p].page \in Nat /\ sync[p].total \in Nat
      /\ sync[p].items \subseteq Rows
  BY DEF TypeOK, SyncLocals
<1>1. CASE FetchPage(p)
  <2> DEFINE items == PageRows(sync[p].page, sync[p].size) \cap 1..listed
  <2>1. pc' \in [Processes -> {"idle"} \cup SyncSteps \cup ExportSteps]
    BY <1>1, GotoType DEF FetchPage, SyncSteps
  <2>2. sync' \in [Processes -> SyncLocals]
    <3>1. CASE items = {}
      BY <1>0, <1>1, <3>1, NoLocals DEF FetchPage, TypeOK
    <3>2. CASE items # {}
      <4>1. PICK total \in {0, listed} :
              sync' = [sync EXCEPT ![p].items = items, ![p].total = total]
        BY <1>1, <3>2 DEF FetchPage
      <4>2. total \in Nat /\ items \in SUBSET Rows
        BY PySyncAssumption DEF TypeOK, Rows
      <4>3. [sync[p] EXCEPT !.items = items, !.total = total] \in SyncLocals
        <5> HIDE DEF items
        <5> QED
          BY <1>0, <4>2 DEF SyncLocals
      <4>4. sync' = [sync EXCEPT ![p] = [sync[p] EXCEPT !.items = items, !.total = total]]
        BY <4>1 DEF TypeOK
      <4>5. QED
        BY <4>3, <4>4 DEF TypeOK
    <3>3. QED
      BY <3>1, <3>2
  <2>3. QED
    BY <1>1, <2>1, <2>2 DEF FetchPage, TypeOK
<1>2. CASE FetchFails(p) \/ WakeUp(p)
  <2>1. pc' \in [Processes -> {"idle"} \cup SyncSteps \cup ExportSteps]
    BY <1>2, GotoType DEF FetchFails, WakeUp, SyncSteps
  <2>2. QED
    BY <1>2, <2>1 DEF FetchFails, WakeUp, syncVars, TypeOK
<1>3. CASE UpsertPage(p)
  <2>1. pc' \in [Processes -> {"idle"} \cup SyncSteps \cup ExportSteps]
    BY <1>3, GotoType DEF UpsertPage, SyncSteps
  <2>2. QED
    BY <1>0, <1>3, <2>1 DEF UpsertPage, UpsertMany, TypeOK
<1>4. CASE PutPage(p)
  <2>1. sync_state' \in [StateKeys -> Nat]
    BY <1>0, <1>4, SetValue DEF PutPage, StateKeys
  <2>2. /\ pc' \in [Processes -> {"idle"} \cup SyncSteps \cup ExportSteps]
        /\ sync' \in [Processes -> SyncLocals]
    <3>1. CASE sync[p].total > 0
      BY <1>4, <3>1, GotoType DEF PutPage, SyncSteps, TypeOK
    <3>2. CASE ~(sync[p].total > 0)
      BY <1>4, <3>2, ProceedType DEF PutPage
    <3>3. QED
      BY <3>1, <3>2
  <2>3. QED
    BY <1>4, <2>1, <2>2 DEF PutPage, TypeOK
<1>5. CASE PutTotal(p)
  <2>1. sync_state' \in [StateKeys -> Nat]
    BY <1>0, <1>5, SetValue DEF PutTotal, StateKeys
  <2>2. QED
    BY <1>5, <2>1, ProceedType DEF PutTotal, TypeOK
<1>6. CASE PutSynced(p)
  <2>1. sync_state' \in [StateKeys -> Nat]
    BY <1>6, StateReads, SetValue DEF PutSynced, StateKeys
  <2>2. pc' \in [Processes -> {"idle"} \cup SyncSteps \cup ExportSteps]
    BY <1>6, GotoType DEF PutSynced, SyncSteps
  <2>3. owedBy' \in Seq(0..MaxRows)
    BY <1>6 DEF PutSynced, TypeOK
  <2>4. QED
    BY <1>6, <2>1, <2>2, <2>3 DEF PutSynced, TypeOK
<1>7. CASE ClearPage(p)
  <2>1. sync_state' \in [StateKeys -> Nat]
    BY <1>7, SetValue DEF ClearPage, StateKeys
  <2>2. pc' \in [Processes -> {"idle"} \cup SyncSteps \cup ExportSteps]
    BY <1>7, GotoType DEF ClearPage, SyncSteps, ExportSteps
  <2>3. sync' \in [Processes -> SyncLocals]
    BY <1>7, NoLocals DEF ClearPage, TypeOK
  <2>4. QED
    BY <1>7, <2>1, <2>2, <2>3 DEF ClearPage, TypeOK
<1>8. QED
  BY <1>1, <1>2, <1>3, <1>4, <1>5, <1>6, <1>7 DEF SyncStep

LEMMA TableIsFinite ==
    ASSUME TypeOK
    PROVE  Cardinality(table) \in Nat
<1>1. IsFiniteSet(Rows)
  BY FS_Interval, PySyncAssumption DEF Rows
<1>2. IsFiniteSet(table)
  BY <1>1, FS_Subset DEF TypeOK
<1>3. QED
  BY <1>2, FS_CardinalityType

(* [files EXCEPT ![date] = file] and a file under a new name are files.    *)
LEMMA FilesType ==
    ASSUME NEW dir, dir \in [DOMAIN dir -> File], NEW date, NEW file \in File
    PROVE  /\ DOMAIN [dir EXCEPT ![date] = file] = DOMAIN dir
           /\ [dir EXCEPT ![date] = file] \in [DOMAIN dir -> File]
           /\ LET more == [d \in DOMAIN dir \cup {date} |-> IF d = date THEN file ELSE dir[d]]
              IN  /\ DOMAIN more = DOMAIN dir \cup {date}
                  /\ more \in [DOMAIN more -> File]
OBVIOUS

LEMMA LeaveType ==
    ASSUME TypeOK, NEW p \in Processes, NEW from, Leave(p, from)
    PROVE  /\ pc' \in [Processes -> {"idle"} \cup SyncSteps \cup ExportSteps]
           /\ export' \in [Processes -> ExportLocals]
BY GotoType, NoLocals DEF Leave, TypeOK

LEMMA ExportStepType ==
    ASSUME IInv, NEW p \in Processes, ExportStep(p)
    PROVE  TypeOK'
<1>0. TypeOK /\ export[p] \in ExportLocals
  BY DEF IInv, TypeOK
<1>1. CASE ReadSynced(p)
  <2>1. pc' \in [Processes -> {"idle"} \cup SyncSteps \cup ExportSteps]
    BY <1>0, <1>1, GotoType DEF ReadSynced, ExportSteps
  <2>2. export' \in [Processes -> ExportLocals]
    BY <1>0, <1>1, StateReads DEF ReadSynced, ExportLocals, TypeOK
  <2>3. QED
    BY <1>0, <1>1, <2>1, <2>2 DEF ReadSynced, TypeOK, syncVars
<1>2. CASE ReadCount(p)
  <2>1. CASE Leave(p, "readCount")
    BY <1>0, <1>2, <2>1, LeaveType DEF ReadCount, TypeOK, syncVars
  <2>2. CASE /\ Goto(p, "readCount", "check")
             /\ export' = [export EXCEPT ![p].row_count = Cardinality(table)]
    <3>1. pc' \in [Processes -> {"idle"} \cup SyncSteps \cup ExportSteps]
      BY <1>0, <2>2, GotoType DEF ExportSteps
    <3>2. export' \in [Processes -> ExportLocals]
      BY <1>0, <2>2, TableIsFinite DEF ExportLocals, TypeOK
    <3>3. QED
      BY <1>0, <1>2, <3>1, <3>2 DEF ReadCount, TypeOK, syncVars
  <2>3. QED
    BY <1>2, <2>1, <2>2 DEF ReadCount
<1>3. CASE CannotCheck(p) \/ Skip(p)
  <2>1. Leave(p, "check") /\ UNCHANGED <<syncVars, today, files>>
    BY <1>3 DEF CannotCheck, Skip
  <2>2. QED
    BY <1>0, <2>1, LeaveType DEF TypeOK, syncVars
<1>4. CASE Accept(p)
  <2>1. pc' \in [Processes -> {"idle"} \cup SyncSteps \cup ExportSteps]
    BY <1>0, <1>4, GotoType DEF Accept, ExportSteps
  <2>2. export' \in [Processes -> ExportLocals]
    BY <1>0, <1>4 DEF Accept, ExportLocals, TypeOK
  <2>3. QED
    BY <1>0, <1>4, <2>1, <2>2 DEF Accept, TypeOK, syncVars
<1>5. CASE BeginCopy(p)
  <2>1. pc' \in [Processes -> {"idle"} \cup SyncSteps \cup ExportSteps]
    BY <1>0, <1>5, GotoType DEF BeginCopy, ExportSteps
  <2>2. export' \in [Processes -> ExportLocals]
    BY <1>0, <1>5 DEF BeginCopy, ExportLocals, TypeOK
  <2>3. export[p].date \in 1..today
    BY <1>5 DEF BeginCopy, Goto, IInv, ExportInv, ExporterInv
  <2>4. Torn \in File
    BY DEF Torn, File
  <2>5. files' \in [DOMAIN files' -> File] /\ DOMAIN files' \subseteq 1..today
    <3>1. CASE files' = files
      BY <1>0, <3>1 DEF TypeOK
    <3>2. CASE files' = [d \in DOMAIN files \cup {export[p].date} |->
                             IF d = export[p].date THEN Torn ELSE files[d]]
      BY <1>0, <2>3, <2>4, <3>2, FilesType DEF TypeOK
    <3>3. QED
      BY <1>5, <3>1, <3>2 DEF BeginCopy
  <2>6. QED
    BY <1>0, <1>5, <2>1, <2>2, <2>5 DEF BeginCopy, TypeOK, syncVars
<1>6. CASE EndCopy(p)
  <2> DEFINE file == [whole |-> TRUE, synced_at |-> export[p].synced_at,
                      row_count |-> export[p].row_count, rows |-> export[p].rows]
  <2>1. file \in File
    BY <1>0 DEF ExportLocals, File
  <2>2. files' = [files EXCEPT ![export[p].date] = file]
    BY <1>6 DEF EndCopy
  <2>3. DOMAIN files' = DOMAIN files /\ files' \in [DOMAIN files -> File]
    <3> HIDE DEF file
    <3> QED
      BY <1>0, <2>1, <2>2, FilesType DEF TypeOK
  <2>4. QED
    BY <1>0, <1>6, <2>3, LeaveType DEF EndCopy, TypeOK, syncVars
<1>7. QED
  BY <1>1, <1>2, <1>3, <1>4, <1>5, <1>6 DEF ExportStep

(* Every step keeps the types.                                             *)
LEMMA StepType ==
    ASSUME IInv, [Next]_vars
    PROVE  TypeOK'
<1>0. TypeOK
  BY DEF IInv
<1>1. ASSUME NEW p \in Processes, Die(p)
      PROVE  TypeOK'
  <2>1. sync' \in [Processes -> SyncLocals]
    BY <1>0, <1>1, NoLocals DEF Die, TypeOK
  <2>2. /\ pc' \in [Processes -> {"idle"} \cup SyncSteps \cup ExportSteps]
        /\ export' \in [Processes -> ExportLocals]
    BY <1>0, <1>1, LeaveType DEF Die
  <2>3. QED
    BY <1>0, <1>1, <2>1, <2>2 DEF Die, TypeOK, storeVars, historyVars
<1>2. CASE Publish /\ UNCHANGED snapshotVars
  BY <1>0, <1>2, PySyncAssumption DEF Publish, TypeOK, storeVars, historyVars, snapshotVars
<1>3. CASE Midnight
  BY <1>0, <1>3 DEF Midnight, TypeOK, syncVars
<1>4. CASE UNCHANGED vars
  BY <1>0, <1>4 DEF TypeOK, vars
<1>5. QED
  BY <1>0, <1>1, <1>2, <1>3, <1>4, StartType, SyncStepType, ExportStepType DEF Next

----------------------------------------------------------------------------
(* The table and the record of completed syncs only grow: what was vouched *)
(* for stays so.                                                           *)
StoreGrows ==
    /\ table \subseteq table'
    /\ LastSynced <= LastSynced'
    /\ \A s \in 1..LastSynced : owedBy'[s] = owedBy[s]

LEMMA VouchedStays ==
    ASSUME TypeOK, TypeOK', StoreGrows, NEW s, NEW rows, NEW more, VouchedFor(s, rows), rows \subseteq more
    PROVE  s \in 1..LastSynced' /\ 1..owedBy'[s] \subseteq more
<1>1. LastSynced \in Nat /\ LastSynced' \in Nat
  <2>1. sync_state'["last_synced_at"] \in Nat
    BY DEF TypeOK, StateKeys
  <2>2. QED
    BY <2>1, StateReads DEF LastSynced
<1>2. s \in 1..LastSynced /\ owedBy'[s] = owedBy[s] /\ 1..owedBy[s] \subseteq rows
  BY DEF VouchedFor, StoreGrows
<1>3. QED
  BY <1>1, <1>2 DEF StoreGrows

LEMMA ExporterStays ==
    ASSUME TypeOK, TypeOK', StoreGrows, NEW q \in Processes, ExporterInv(q),
           export'[q] = export[q], DOMAIN files \subseteq DOMAIN files', today <= today',
           \/ pc'[q] = pc[q]
           \/ pc'[q] \notin {"readCount", "check", "copy", "writing"}
    PROVE  ExporterInv(q)'
<1>1. LastSynced \in Nat /\ LastSynced' \in Nat /\ today \in Nat /\ today' \in Nat
  <2>1. sync_state'["last_synced_at"] \in Nat /\ today \in Nat /\ today' \in Nat
    BY DEF TypeOK, StateKeys
  <2>2. QED
    BY <2>1, StateReads DEF LastSynced
<1>2. CASE pc'[q] = pc[q]
  <2> DEFINE s == export[q].synced_at
  <2>1. pc[q] \in {"check", "copy", "writing"} =>
            s \in 1..LastSynced' /\ 1..owedBy'[s] \subseteq table'
    BY VouchedStays DEF ExporterInv, StoreGrows
  <2>2. pc[q] = "writing" =>
            s \in 1..LastSynced' /\ 1..owedBy'[s] \subseteq export[q].rows
    BY VouchedStays DEF ExporterInv
  <2>3. pc[q] \in {"readCount", "check", "copy", "writing"} => export[q].synced_at \in 0..LastSynced'
    BY <1>1 DEF ExporterInv, StoreGrows
  <2>4. pc[q] \in {"copy", "writing"} => export[q].date \in 1..today'
    BY <1>1 DEF ExporterInv
  <2>5. QED
    BY <1>2, <2>1, <2>2, <2>3, <2>4 DEF ExporterInv, VouchedFor
<1>3. CASE pc'[q] \notin {"readCount", "check", "copy", "writing"}
  BY <1>3 DEF ExporterInv
<1>4. QED
  BY <1>2, <1>3

LEMMA FilesStay ==
    ASSUME TypeOK, TypeOK', StoreGrows, FilesVouch, UNCHANGED files
    PROVE  FilesVouch'
<1>1. ASSUME NEW d \in DOMAIN files, files[d].whole
      PROVE  files[d].synced_at \in 1..LastSynced' /\ 1..owedBy'[files[d].synced_at] \subseteq files[d].rows
  BY <1>1, VouchedStays DEF FilesVouch
<1>2. QED
  BY <1>1 DEF FilesVouch, VouchedFor

LEMMA TableStays ==
    ASSUME TypeOK, TypeOK', TableKeeps, UNCHANGED <<table, seen, owedBy>>, LastSynced' = LastSynced
    PROVE  TableKeeps' /\ StoreGrows
<1>1. LastSynced \in Nat
  BY StateReads
<1>2. QED
  BY <1>1 DEF TableKeeps, StoreGrows

(* A step of sync() leaves the snapshots alone, and the table behind them  *)
(* only grows.                                                             *)
LEMMA SyncStepKeeps ==
    ASSUME IInv, TypeOK', NEW p \in Processes, SyncStep(p)
    PROVE  TableKeeps' /\ StoreGrows
<1>0. TypeOK /\ TableKeeps
  BY DEF IInv, ExportInv
<1>1. CASE FetchPage(p) \/ FetchFails(p) \/ WakeUp(p)
  <2>1. UNCHANGED <<table, seen, owedBy, sync_state>>
    BY <1>1 DEF FetchPage, FetchFails, WakeUp, syncVars, storeVars, historyVars
  <2>2. QED
    BY <1>0, <2>1, TableStays DEF LastSynced
<1>2. CASE PutPage(p) \/ PutTotal(p) \/ ClearPage(p)
  <2>1. UNCHANGED <<table, seen, owedBy>>
    BY <1>2 DEF PutPage, PutTotal, ClearPage, historyVars
  <2>2. sync[p].page \in Nat /\ sync[p].total \in Nat
    BY <1>0 DEF TypeOK, SyncLocals
  <2>3. LastSynced' = LastSynced
    BY <1>0, <1>2, <2>2, SetValue DEF PutPage, PutTotal, ClearPage, StateKeys
  <2>4. QED
    BY <1>0, <2>1, <2>3, TableStays
<1>3. CASE UpsertPage(p)
  <2>1. LastSynced \in Nat
    BY <1>0, StateReads
  <2>2. QED
    BY <1>0, <1>3, <2>1 DEF UpsertPage, UpsertMany, TableKeeps, StoreGrows, LastSynced
<1>4. CASE PutSynced(p)
  <2>1. LastSynced \in Nat /\ LastSynced' = LastSynced + 1
    BY <1>0, <1>4, StateReads, SetValue DEF PutSynced, StateKeys
  <2>2. 1..owed \subseteq seen
    BY <1>4 DEF PutSynced, Goto, IInv, CycleInv, SyncerInv, EndReached
  <2>3. owedBy \in Seq(0..MaxRows) /\ owed \in 0..MaxRows /\ Len(owedBy) = LastSynced
    BY <1>0 DEF TypeOK, TableKeeps
  <2>4. owedBy' = Append(owedBy, owed) /\ seen' = {} /\ table' = table
    BY <1>4 DEF PutSynced
  <2>5. /\ Len(owedBy') = LastSynced + 1
        /\ \A s \in 1..LastSynced : owedBy'[s] = owedBy[s]
        /\ owedBy'[LastSynced + 1] = owed
    BY <2>1, <2>3, <2>4
  <2>6. \A s \in 1..LastSynced' : 1..owedBy'[s] \subseteq table'
    <3>1. \A s \in 1..LastSynced' : s \in 1..LastSynced \/ s = LastSynced + 1
      BY <2>1
    <3>2. 1..owed \subseteq table /\ \A s \in 1..LastSynced : 1..owedBy[s] \subseteq table
      BY <1>0, <2>2 DEF TableKeeps
    <3>3. QED
      BY <2>4, <2>5, <3>1, <3>2
  <2>7. QED
    BY <2>1, <2>4, <2>5, <2>6 DEF TableKeeps, StoreGrows
<1>5. QED
  BY <1>1, <1>2, <1>3, <1>4 DEF SyncStep

(* When one exporter moves, the others stay as they are.                   *)
LEMMA ExporterMoves ==
    ASSUME TypeOK, TypeOK', ExportInv, TableKeeps', StoreGrows, NEW p \in Processes,
           \A q \in Processes \ {p} : pc'[q] = pc[q] /\ export'[q] = export[q],
           DOMAIN files \subseteq DOMAIN files', today' = today,
           ExporterInv(p)', FilesVouch'
    PROVE  ExportInv'
<1>1. ASSUME NEW q \in Processes, q # p
      PROVE  ExporterInv(q)'
  <2>1. today <= today'
    BY DEF TypeOK
  <2>2. QED
    BY <1>1, <2>1, ExporterStays DEF ExportInv
<1>2. QED
  BY <1>1 DEF ExportInv

(* The steps of write_snapshot keep ExportInv: the state they leave behind *)
(* names a sync that the rows at hand cover.                               *)
LEMMA ExportStepKeeps ==
    ASSUME IInv, TypeOK', NEW p \in Processes, ExportStep(p)
    PROVE  ExportInv'
<1>0. TypeOK /\ ExportInv /\ TableKeeps /\ ExporterInv(p) /\ FilesVouch
  BY DEF IInv, ExportInv
<1>1. UNCHANGED syncVars /\ today' = today
  BY DEF ExportStep, ReadSynced, ReadCount, CannotCheck, Skip, Accept, BeginCopy, EndCopy
<1>2. TableKeeps' /\ StoreGrows /\ LastSynced' = LastSynced /\ LastSynced \in Nat
  BY <1>0, <1>1, StateReads, TableStays DEF syncVars, LastSynced
<1>3. ASSUME NEW from, Leave(p, from)
      PROVE  /\ pc'[p] = "idle"
             /\ \A q \in Processes \ {p} : pc'[q] = pc[q] /\ export'[q] = export[q]
  <2>1. Goto(p, from, "idle") /\ export' = [export EXCEPT ![p] = NoExport]
    BY <1>3 DEF Leave
  <2>2. pc'[p] = "idle" /\ \A q \in Processes \ {p} : pc'[q] = pc[q]
    BY <1>0, <2>1, GotoValue
  <2>3. QED
    BY <1>0, <2>1, <2>2 DEF TypeOK
<1>4. ASSUME NEW from, Leave(p, from), UNCHANGED files
      PROVE  ExportInv'
  <2>1. ExporterInv(p)'
    BY <1>3, <1>4 DEF ExporterInv
  <2>2. QED
    BY <1>0, <1>1, <1>2, <1>3, <1>4, <2>1, FilesStay, ExporterMoves
<1>5. ASSUME NEW from, NEW to, Goto(p, from, to), UNCHANGED files, ExporterInv(p)',
             \A q \in Processes \ {p} : export'[q] = export[q]
      PROVE  ExportInv'
  <2>1. \A q \in Processes \ {p} : pc'[q] = pc[q]
    BY <1>0, <1>5, GotoValue
  <2>2. QED
    BY <1>0, <1>1, <1>2, <1>5, <2>1, FilesStay, ExporterMoves
<1>6. CASE ReadSynced(p)
  <2>1. /\ Goto(p, "readSynced", "readCount") /\ UNCHANGED files
        /\ export'[p].synced_at = LastSynced
        /\ \A q \in Processes \ {p} : export'[q] = export[q]
    BY <1>0, <1>6 DEF ReadSynced, TypeOK, ExportLocals
  <2>2. pc'[p] = "readCount"
    BY <1>0, <2>1, GotoValue
  <2>3. ExporterInv(p)'
    BY <1>2, <2>1, <2>2 DEF ExporterInv
  <2>4. QED
    BY <1>5, <2>1, <2>3
<1>7. CASE ReadCount(p)
  <2>1. CASE Leave(p, "readCount")
    BY <1>4, <1>7, <2>1 DEF ReadCount
  <2>2. CASE /\ export[p].synced_at # 0
             /\ Goto(p, "readCount", "check")
             /\ export' = [export EXCEPT ![p].row_count = Cardinality(table)]
    <3>1. pc[p] = "readCount" /\ pc'[p] = "check"
      BY <1>0, <2>2, GotoValue
    <3>2. /\ export'[p].synced_at = export[p].synced_at
          /\ \A q \in Processes \ {p} : export'[q] = export[q]
      BY <1>0, <2>2 DEF TypeOK, ExportLocals
    <3>3. export[p].synced_at \in 1..LastSynced
      BY <1>0, <1>2, <2>2, <3>1 DEF ExporterInv
    <3>4. 1..owedBy[export[p].synced_at] \subseteq table
      BY <1>0, <3>3 DEF TableKeeps
    <3>5. ExporterInv(p)'
      <4>1. /\ export'[p].synced_at \in 1..LastSynced' /\ export'[p].synced_at \in 0..LastSynced'
            /\ 1..owedBy'[export'[p].synced_at] \subseteq table'
        BY <1>1, <1>2, <3>2, <3>3, <3>4 DEF syncVars
      <4>2. QED
        BY <3>1, <4>1 DEF ExporterInv, VouchedFor
    <3>6. QED
      BY <1>5, <1>7, <2>2, <3>2, <3>5 DEF ReadCount
  <2>3. QED
    BY <1>7, <2>1, <2>2 DEF ReadCount
<1>8. CASE CannotCheck(p) \/ Skip(p)
  BY <1>4, <1>8 DEF CannotCheck, Skip
<1>9. CASE Accept(p)
  <2>1. pc[p] = "check" /\ pc'[p] = "copy" /\ UNCHANGED files
    BY <1>0, <1>9, GotoValue DEF Accept
  <2>2. /\ export'[p].synced_at = export[p].synced_at /\ export'[p].date = today
        /\ \A q \in Processes \ {p} : export'[q] = export[q]
    BY <1>0, <1>9 DEF Accept, TypeOK, ExportLocals
  <2>3. today \in 1..today
    BY <1>0 DEF TypeOK
  <2>4. /\ export[p].synced_at \in 0..LastSynced /\ export[p].synced_at \in 1..LastSynced
        /\ 1..owedBy[export[p].synced_at] \subseteq table
    BY <1>0, <2>1 DEF ExporterInv, VouchedFor
  <2>5. ExporterInv(p)'
    BY <1>1, <1>2, <2>1, <2>2, <2>3, <2>4 DEF ExporterInv, VouchedFor, syncVars
  <2>6. QED
    BY <1>5, <1>9, <2>1, <2>2, <2>5 DEF Accept
<1>10. CASE BeginCopy(p)
  <2>1. /\ pc[p] = "copy" /\ pc'[p] = "writing"
        /\ \A q \in Processes \ {p} : pc'[q] = pc[q]
    BY <1>0, <1>10, GotoValue DEF BeginCopy
  <2>2. /\ export'[p].synced_at = export[p].synced_at /\ export'[p].date = export[p].date
        /\ export'[p].rows = table
        /\ \A q \in Processes \ {p} : export'[q] = export[q]
    BY <1>0, <1>10 DEF BeginCopy, TypeOK, ExportLocals
  <2>3. /\ DOMAIN files \subseteq DOMAIN files' /\ export[p].date \in DOMAIN files'
        /\ \A d \in DOMAIN files' : files'[d].whole => d \in DOMAIN files /\ files'[d] = files[d]
    BY <1>10 DEF BeginCopy, Torn
  <2>4. ExporterInv(p)'
    BY <1>0, <1>1, <1>2, <2>1, <2>2, <2>3 DEF ExporterInv, VouchedFor, syncVars
  <2>5. FilesVouch'
    BY <1>0, <1>1, <1>2, <2>3 DEF FilesVouch, VouchedFor, syncVars
  <2>6. QED
    BY <1>0, <1>1, <1>2, <2>1, <2>2, <2>3, <2>4, <2>5, ExporterMoves
<1>11. CASE EndCopy(p)
  <2>1. pc[p] = "writing" /\ Leave(p, "writing")
    BY <1>0, <1>11, GotoValue DEF EndCopy, Leave
  <2>2. VouchedFor(export[p].synced_at, export[p].rows)
    BY <1>0, <2>1 DEF ExporterInv
  <2>3. /\ DOMAIN files' = DOMAIN files
        /\ \A d \in DOMAIN files :
               IF d = export[p].date
               THEN files'[d].synced_at = export[p].synced_at /\ files'[d].rows = export[p].rows
               ELSE files'[d] = files[d]
    BY <1>0, <1>11 DEF EndCopy, TypeOK
  <2>4. FilesVouch'
    BY <1>0, <1>1, <1>2, <2>2, <2>3 DEF FilesVouch, VouchedFor, syncVars
  <2>5. ExporterInv(p)'
    BY <1>3, <2>1 DEF ExporterInv
  <2>6. QED
    BY <1>0, <1>1, <1>2, <1>3, <2>1, <2>3, <2>4, <2>5, ExporterMoves
<1>12. QED
  BY <1>6, <1>7, <1>8, <1>9, <1>10, <1>11 DEF ExportStep

(* Every step keeps ExportInv.                                             *)
LEMMA StepKeeps ==
    ASSUME OneSafeSyncer, IInv, TypeOK', [Next]_vars
    PROVE  ExportInv'
<1>0. TypeOK /\ ExportInv /\ TableKeeps /\ today \in Nat
  BY DEF IInv, ExportInv, TypeOK
<1>1. ASSUME UNCHANGED <<files, export>>, TableKeeps', StoreGrows, today <= today',
             \A q \in Processes : \/ pc'[q] = pc[q]
                                  \/ pc'[q] \notin {"readCount", "check", "copy", "writing"}
      PROVE  ExportInv'
  BY <1>0, <1>1, ExporterStays, FilesStay DEF ExportInv
<1>2. ASSUME UNCHANGED <<table, seen, owedBy, sync_state>>
      PROVE  TableKeeps' /\ StoreGrows
  BY <1>0, <1>2, TableStays DEF LastSynced
<1>3. ASSUME NEW p \in Processes, Start(p)
      PROVE  ExportInv'
  <2>1. ASSUME NEW size \in PageSizes, NEW full \in BOOLEAN, NEW snapshot \in BOOLEAN,
               StartSync(p, size, full, snapshot), UNCHANGED snapshotVars
        PROVE  ExportInv'
    <3>1. pc'[p] = "fetch" /\ \A q \in Processes \ {p} : pc'[q] = pc[q]
      BY <1>0, <2>1, GotoValue DEF StartSync
    <3>2. UNCHANGED <<table, seen, owedBy, sync_state, files, export, today>>
      BY <2>1 DEF StartSync, storeVars, historyVars, snapshotVars
    <3>3. QED
      BY <1>0, <1>1, <1>2, <3>1, <3>2
  <2>2. ASSUME NEW force \in BOOLEAN, StartSnapshot(p, force)
        PROVE  ExportInv'
    <3>1. /\ pc'[p] = "readSynced" /\ \A q \in Processes \ {p} : pc'[q] = pc[q]
          /\ \A q \in Processes \ {p} : export'[q] = export[q]
      BY <1>0, <2>2, GotoValue DEF StartSnapshot, TypeOK
    <3>2. UNCHANGED <<table, seen, owedBy, sync_state, files, today>>
      BY <2>2 DEF StartSnapshot, syncVars
    <3>3. TableKeeps' /\ StoreGrows
      BY <1>2, <3>2
    <3>4. ExporterInv(p)'
      BY <3>1 DEF ExporterInv
    <3>5. FilesVouch'
      BY <1>0, <3>2, <3>3, FilesStay DEF ExportInv
    <3>6. QED
      BY <1>0, <3>1, <3>2, <3>3, <3>4, <3>5, ExporterMoves
  <2>3. QED
    BY <1>3, <2>1, <2>2 DEF Start
<1>4. ASSUME NEW p \in Processes, SyncStep(p), UNCHANGED snapshotVars
      PROVE  ExportInv'
  <2>1. TableKeeps' /\ StoreGrows
    BY <1>4, SyncStepKeeps
  <2>2. \E to \in {"readSynced", "idle"} \cup SyncSteps : Goto(p, pc[p], to)
    BY <1>4 DEF SyncStep, FetchPage, FetchFails, WakeUp, UpsertPage, PutPage, PutTotal, Proceed,
       PutSynced, ClearPage, Goto, SyncSteps
  <2>3. /\ pc'[p] \in {"readSynced", "idle"} \cup SyncSteps
        /\ \A q \in Processes \ {p} : pc'[q] = pc[q]
    BY <1>0, <2>2, GotoValue
  <2>4. pc'[p] \notin {"readCount", "check", "copy", "writing"}
    BY <2>3 DEF SyncSteps
  <2>5. QED
    BY <1>0, <1>1, <1>4, <2>1, <2>3, <2>4 DEF snapshotVars
<1>5. ASSUME NEW p \in Processes, Die(p)
      PROVE  ExportInv'
  <2>1. Leave(p, pc[p]) /\ UNCHANGED <<table, seen, owedBy, sync_state, files, today>>
    BY <1>5 DEF Die, storeVars, historyVars
  <2>2. pc'[p] = "idle" /\ \A q \in Processes \ {p} : pc'[q] = pc[q]
    BY <1>0, <2>1, GotoValue DEF Leave
  <2>3. \A q \in Processes \ {p} : export'[q] = export[q]
    BY <1>0, <2>1 DEF Leave, TypeOK
  <2>4. TableKeeps' /\ StoreGrows
    BY <1>2, <2>1
  <2>5. ExporterInv(p)'
    BY <2>2 DEF ExporterInv
  <2>6. FilesVouch'
    BY <1>0, <2>1, <2>4, FilesStay DEF ExportInv
  <2>7. QED
    BY <1>0, <2>1, <2>2, <2>3, <2>4, <2>5, <2>6, ExporterMoves
<1>6. CASE Publish /\ UNCHANGED snapshotVars
  BY <1>0, <1>1, <1>2, <1>6 DEF Publish, storeVars, historyVars, snapshotVars
<1>7. CASE Midnight
  BY <1>0, <1>1, <1>2, <1>7 DEF Midnight, syncVars
<1>8. CASE UNCHANGED vars
  BY <1>0, <1>1, <1>2, <1>8 DEF vars
<1>9. QED
  BY <1>3, <1>4, <1>5, <1>6, <1>7, <1>8, ExportStepKeeps DEF Next

----------------------------------------------------------------------------
(* The inductive invariant holds, whatever the number of exporters, of     *)
(* rows, of deaths and of days.                                            *)
THEOREM InvariantHolds ==
    ASSUME OneSafeSyncer
    PROVE  Spec => []IInv
<1>1. IInv /\ [Next]_vars => IInv'
  BY StepType, StepCycle, StepKeeps DEF IInv
<1>2. QED
  BY InitHolds, <1>1, PTL DEF Spec

(* A resumed sync skips nothing.                                           *)
THEOREM ResumeIsSafe ==
    ASSUME OneSafeSyncer
    PROVE  Spec => []ResumePoint
<1>1. IInv => ResumePoint
  BY DEF IInv, CycleInv
<1>2. QED
  BY InvariantHolds, <1>1, PTL

(* A completed sync is a full one: the step that stamps last_synced_at     *)
(* finds the whole of what was owed upserted.                              *)
THEOREM FinishIsAlwaysFull ==
    ASSUME OneSafeSyncer
    PROVE  Spec => FullSyncFinish
<1>1. IInv /\ [Next]_vars => [FinishIsFull]_<<syncVars, pc>>
  <2> SUFFICES ASSUME IInv, [Next]_vars, LastSynced' # LastSynced
               PROVE  1..owed \subseteq seen
    BY DEF FinishIsFull
  <2>0. TypeOK
    BY DEF IInv
  <2>1. PICK p \in Processes : SyncStep(p)
    BY DEF Next, Start, StartSync, StartSnapshot, ExportStep, ReadSynced, ReadCount, CannotCheck,
       Skip, Accept, BeginCopy, EndCopy, Die, Publish, Midnight, syncVars, storeVars, vars, LastSynced
  <2>2. sync[p].page \in Nat /\ sync[p].total \in Nat
    BY <2>0 DEF TypeOK, SyncLocals
  <2>3. PutSynced(p)
    <3>1. ~(PutPage(p) \/ PutTotal(p) \/ ClearPage(p))
      BY <2>0, <2>2, SetValue DEF PutPage, PutTotal, ClearPage, StateKeys
    <3>2. ~(FetchPage(p) \/ FetchFails(p) \/ WakeUp(p) \/ UpsertPage(p))
      BY DEF FetchPage, FetchFails, WakeUp, UpsertPage, syncVars, storeVars, LastSynced
    <3>3. QED
      BY <2>1, <3>1, <3>2 DEF SyncStep
  <2>4. QED
    BY <2>3 DEF PutSynced, Goto, IInv, CycleInv, SyncerInv, EndReached
<1>2. QED
  BY InvariantHolds, <1>1, PTL DEF Spec, FullSyncFinish

(* However exports are interleaved with syncs, a complete snapshot has the *)
(* rows that the sync it names vouched for.                                *)
THEOREM SnapshotsCover ==
    ASSUME OneSafeSyncer
    PROVE  Spec => []ExportCoversSync
<1>1. IInv => ExportCoversSync
  BY DEF IInv, ExportInv, FilesVouch, VouchedFor, ExportCoversSync
<1>2. QED
  BY InvariantHolds, <1>1, PTL
============================================================================
