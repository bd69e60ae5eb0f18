--------------------------- MODULE SyncTickProofs ---------------------------
(***************************************************************************)
(* Proofs about SyncTick, for every value of its constants: types and rows *)
(* first, then the cycle when invocations do not overlap.                  *)
(***************************************************************************)
EXTENDS SyncTickInv, TLAPS

(* upsertMany keeps every row of the table well formed.                    *)
LEMMA UpsertType ==
    ASSUME StoreTypeOK, NEW rows \in SUBSET Row, NEW now \in Nat,
           UpsertMany(rows, now)
    PROVE  chargers' \in [Chargers -> StoredRow]
<1>1. SUFFICES ASSUME NEW c \in Chargers
               PROVE  chargers'[c] \in StoredRow
  BY DEF UpsertMany
<1> DEFINE new == {row \in rows : row.key = c /\ ~SameStamp(chargers[c], row)}
<1>2. CASE new = {}
  BY <1>2 DEF UpsertMany, StoreTypeOK
<1>3. CASE new # {}
  <2> DEFINE row == CHOOSE r \in new : TRUE
  <2>1. row \in new
    BY <1>3
  <2>2. row \in Row
    BY <2>1
  <2>3. chargers'[c] = [dt |-> row.dt, body |-> row.body, upserted_at |-> now]
    BY <1>3 DEF UpsertMany
  <2>4. QED
    BY <2>2, <2>3 DEF Row, StoredRow
<1>4. QED
  BY <1>2, <1>3

(* Initial values are well typed.                                          *)
LEMMA InitType == Init => TypeOK
BY SyncAssumption DEF Init, StoreInit, TypeOK, StoreTypeOK, NoRow, NoDt, StoredRow,
   Row, Idle, NewTick, Locals, Steps, TickSteps, SyncKeys

(* A slot that moves to a known step with well-typed locals stays typed,   *)
(* and counting, if its new locals are fit for the step.                   *)
LEMMA GotoType ==
    ASSUME TypeInv, NEW s \in Slots, NEW from, NEW to \in Steps,
           NEW locals \in Locals, Goto(s, from, to, locals),
           to \in {"readPage"} \cup KnowsPage => locals.size > 0 /\ locals.left > 0
    PROVE  /\ pc' \in [Slots -> Steps] /\ tick' \in [Slots -> Locals]
           /\ \A q \in Slots : Counting(q)'
BY DEF Goto, TypeInv, TypeOK, Counting

LEMMA SetType ==
    ASSUME TypeOK, NEW key \in SyncKeys, NEW value \in Nat, SetSyncState(key, value)
    PROVE  sync_state' \in [SyncKeys -> Nat]
BY DEF SetSyncState, TypeOK, StoreTypeOK

LEMMA StateReads ==
    ASSUME TypeOK
    PROVE  Lcp \in Nat /\ TotalPages \in Nat /\ PageSize \in Nat
BY DEF TypeOK, StoreTypeOK, SyncKeys, Lcp, TotalPages, PageSize

LEMMA IdleType == Idle \in Locals
BY DEF Idle, NewTick, Locals

(* The steps of a slot keep the types, with any number of slots.           *)
LEMMA StartTickType ==
    ASSUME TypeInv, NEW s \in Slots, NEW size \in PageSizes, NEW pages \in PagesPerTick,
           StartTick(s, size, pages)
    PROVE  TypeInv'
<1> DEFINE t == NewTick(size, pages)
<1>1. t \in Locals /\ t.size > 0 /\ t.left > 0
  BY SyncAssumption DEF NewTick, Locals
<1>2. /\ pc' \in [Slots -> Steps] /\ tick' \in [Slots -> Locals]
      /\ \A q \in Slots : Counting(q)'
  BY <1>1, GotoType DEF StartTick, Steps, TickSteps
<1>3. QED
  BY <1>2 DEF StartTick, TypeInv, TypeOK, StoreTypeOK, storeVars, upstreamVars, historyVars

LEMMA ReadPageType ==
    ASSUME TypeInv, NEW s \in Slots, ReadPage(s) \/ ReadTotal(s) \/ ReadSize(s)
    PROVE  TypeInv'
<1>1. tick[s] \in Locals /\ tick[s].size > 0 /\ tick[s].left > 0
  BY DEF TypeInv, TypeOK, Counting, KnowsPage, ReadPage, ReadTotal, ReadSize, Goto
<1>2. Lcp \in Nat /\ TotalPages \in Nat /\ PageSize \in Nat
  BY StateReads DEF TypeInv
<1>3. /\ pc' \in [Slots -> Steps] /\ tick' \in [Slots -> Locals]
      /\ \A q \in Slots : Counting(q)'
  <2>1. CASE ReadPage(s)
    <3>1. [tick[s] EXCEPT !.last = Lcp] \in Locals
      BY <1>1, <1>2 DEF Locals
    <3>2. QED
      BY <2>1, <3>1, <1>1, GotoType DEF ReadPage, Steps, TickSteps, Locals
  <2>2. CASE ReadTotal(s)
    <3>1. [tick[s] EXCEPT !.total = TotalPages] \in Locals
      BY <1>1, <1>2 DEF Locals
    <3>2. QED
      BY <2>2, <3>1, <1>1, GotoType DEF ReadTotal, Steps, TickSteps, Locals
  <2>3. CASE ReadSize(s)
    <3> DEFINE t == [tick[s] EXCEPT !.locked = PageSize,
                                    !.size = IF PageSize > 0 THEN PageSize ELSE @]
    <3>1. t \in Locals /\ t.size > 0 /\ t.left > 0
      BY <1>1, <1>2 DEF Locals
    <3>2. QED
      BY <2>3, <3>1, GotoType DEF ReadSize, Steps, TickSteps
  <2>4. QED
    BY <2>1, <2>2, <2>3
<1>4. QED
  BY <1>3 DEF ReadPage, ReadTotal, ReadSize, TypeInv, TypeOK, StoreTypeOK,
     storeVars, upstreamVars, historyVars

LEMMA WithPageType ==
    ASSUME NEW t \in Locals, NEW rows \in SUBSET Row, NEW count \in Nat
    PROVE  LET u == WithPage(t, rows, count)
           IN  /\ u \in Locals
               /\ u.last = t.last /\ u.locked = t.locked /\ u.total = t.total
               /\ u.size = t.size /\ u.left = t.left
               /\ u.items = rows
BY DEF WithPage, Locals

LEMMA FetchType ==
    ASSUME TypeInv, NEW s \in Slots, FetchPage(s) \/ FetchFails(s)
    PROVE  TypeInv'
<1>1. tick[s] \in Locals /\ tick[s].size > 0 /\ tick[s].left > 0
  BY DEF TypeInv, TypeOK, Counting, KnowsPage, FetchPage, FetchFails, Goto, Return
<1>2. /\ pc' \in [Slots -> Steps] /\ tick' \in [Slots -> Locals]
      /\ \A q \in Slots : Counting(q)'
  <2>1. CASE FetchPage(s)
    <3> DEFINE t(c) == WithPage(tick[s], Served(tick[s]), c)
    <3>1. Served(tick[s]) \in SUBSET Row
      BY SyncAssumption DEF TypeInv, TypeOK, Served
    <3>2. PICK c \in {0, listed} : Goto(s, "fetch", AfterFetch(t(c)), t(c))
      BY <2>1 DEF FetchPage
    <3>3. t(c) \in Locals /\ t(c).size > 0 /\ t(c).left > 0
      <4>1. c \in Nat
        BY <3>2, SyncAssumption DEF TypeInv, TypeOK
      <4>2. QED
        BY <1>1, <3>1, <4>1, WithPageType
    <3>4. AfterFetch(t(c)) \in Steps
      BY DEF AfterFetch, AfterLock, AfterTotal, Steps, TickSteps
    <3>5. QED
      BY <3>2, <3>3, <3>4, GotoType
  <2>2. CASE FetchFails(s)
    BY <2>2, IdleType, GotoType DEF FetchFails, Return, Steps, KnowsPage
  <2>3. QED
    BY <2>1, <2>2
<1>3. QED
  BY <1>2 DEF FetchPage, FetchFails, TypeInv, TypeOK, StoreTypeOK,
     storeVars, upstreamVars, historyVars

LEMMA CeilDivType ==
    ASSUME NEW a \in Nat, NEW b \in Nat \ {0}
    PROVE  CeilDiv(a, b) \in Nat
BY DEF CeilDiv

(* The conditional writes between a fetch and its upsert.                  *)
LEMMA PageWriteType ==
    ASSUME TypeInv, NEW s \in Slots, LockSize(s) \/ PutTotal(s) \/ StampStart(s)
    PROVE  TypeInv'
<1> DEFINE t == tick[s]
<1>1. t \in Locals /\ t.size > 0 /\ t.left > 0
  BY DEF TypeInv, TypeOK, Counting, KnowsPage, LockSize, PutTotal, StampStart, Goto
<1>2. /\ pc' \in [Slots -> Steps] /\ tick' \in [Slots -> Locals]
      /\ \A q \in Slots : Counting(q)'
      /\ sync_state' \in [SyncKeys -> Nat]
  <2>1. CASE LockSize(s)
    <3>1. AfterLock(t) \in Steps
      BY DEF AfterLock, AfterTotal, Steps, TickSteps
    <3>2. t.size \in Nat
      BY <1>1 DEF Locals
    <3>3. QED
      BY <2>1, <1>1, <3>1, <3>2, GotoType, SetType DEF LockSize, SyncKeys, TypeInv
  <2>2. CASE PutTotal(s)
    <3> DEFINE total == CeilDiv(t.count, t.size)
    <3>1. total \in Nat
      BY <1>1, CeilDivType DEF Locals
    <3>2. [t EXCEPT !.total = total] \in Locals
      BY <1>1, <3>1 DEF Locals
    <3>3. AfterTotal(t) \in Steps
      BY DEF AfterTotal, Steps, TickSteps
    <3>4. /\ Goto(s, "putTotal", AfterTotal(t), [t EXCEPT !.total = total])
          /\ SetSyncState("total_pages", total)
      BY <2>2 DEF PutTotal
    <3> HIDE DEF total
    <3>5. QED
      BY <1>1, <3>1, <3>2, <3>3, <3>4, GotoType, SetType DEF SyncKeys, Locals, TypeInv
  <2>3. CASE StampStart(s)
    BY <2>3, <1>1, GotoType, SetType
       DEF StampStart, Steps, TickSteps, SyncKeys, TypeInv, TypeOK
  <2>4. QED
    BY <2>1, <2>2, <2>3
<1>3. QED
  BY <1>2 DEF LockSize, PutTotal, StampStart, TypeInv, TypeOK, StoreTypeOK,
     storeVars, upstreamVars, historyVars

LEMMA UpsertPageType ==
    ASSUME TypeInv, NEW s \in Slots, UpsertPage(s)
    PROVE  TypeInv'
<1> DEFINE t == tick[s]
<1>1. t \in Locals /\ t.size > 0 /\ t.left > 0
  BY DEF TypeInv, TypeOK, Counting, KnowsPage, UpsertPage, Goto
<1>2. /\ pc' \in [Slots -> Steps] /\ tick' \in [Slots -> Locals]
      /\ \A q \in Slots : Counting(q)'
  BY <1>1, GotoType DEF UpsertPage, Steps, TickSteps
<1>3. t.items \in SUBSET Row /\ t.size \in Nat
  BY <1>1 DEF Locals
<1>4. chargers' \in [Chargers -> StoredRow]
  BY <1>3, UpsertType DEF UpsertPage, TypeInv, TypeOK
<1>5. seen' \subseteq Chargers /\ sizes' \subseteq Nat \ {0}
  <2>1. {row.key : row \in t.items} \subseteq Chargers
    BY <1>3 DEF Row
  <2>2. t.size \in Nat \ {0}
    BY <1>1, <1>3
  <2>3. QED
    BY <2>1, <2>2 DEF UpsertPage, TypeInv, TypeOK
<1>6. QED
  BY <1>2, <1>4, <1>5 DEF UpsertPage, TypeInv, TypeOK, StoreTypeOK, upstreamVars

LEMMA NextPageType ==
    ASSUME NEW t \in Locals, t.left > 1
    PROVE  LET u == NextPage(t)
           IN  /\ u \in Locals
               /\ u.last = t.last + 1 /\ u.locked = t.locked
               /\ u.size = t.size /\ u.left > 0
BY DEF NextPage, Locals

LEMMA PutPageType ==
    ASSUME TypeInv, NEW s \in Slots, PutPage(s)
    PROVE  TypeInv'
<1> DEFINE t == tick[s]
           onward == NextPage(t)
<1>1. t \in Locals /\ t.size > 0 /\ t.left > 0
  BY DEF TypeInv, TypeOK, Counting, KnowsPage, PutPage, Goto, Return
<1>2. /\ \/ Goto(s, "putPage", "putSynced", Idle)
         \/ Goto(s, "putPage", "idle", Idle)
         \/ t.left # 1 /\ Goto(s, "putPage", "fetch", onward)
      /\ SetSyncState("last_completed_page", t.last + 1)
      /\ UNCHANGED <<chargers, upstreamVars, clock, kills, resets, historyVars>>
  BY DEF PutPage, Return
<1>3. /\ pc' \in [Slots -> Steps] /\ tick' \in [Slots -> Locals]
      /\ \A q \in Slots : Counting(q)'
  <2>1. CASE Goto(s, "putPage", "putSynced", Idle)
    BY <2>1, IdleType, GotoType DEF Steps, TickSteps, KnowsPage
  <2>2. CASE Goto(s, "putPage", "idle", Idle)
    BY <2>2, IdleType, GotoType DEF Steps, TickSteps, KnowsPage
  <2>3. CASE t.left # 1 /\ Goto(s, "putPage", "fetch", onward)
    <3>1. t.left > 1
      BY <1>1, <2>3 DEF Locals
    <3>2. onward \in Locals /\ onward.size > 0 /\ onward.left > 0
      BY <1>1, <3>1, NextPageType
    <3>3. QED
      BY <2>3, <3>2, GotoType DEF Steps, TickSteps
  <2>4. QED
    BY <1>2, <2>1, <2>2, <2>3
<1>4. sync_state' \in [SyncKeys -> Nat]
  <2>1. t.last + 1 \in Nat
    BY <1>1 DEF Locals
  <2>2. QED
    BY <1>2, <2>1, SetType DEF SyncKeys, TypeInv
<1>5. QED
  BY <1>2, <1>3, <1>4 DEF TypeInv, TypeOK, StoreTypeOK, upstreamVars, historyVars

LEMMA BeginCycleType ==
    ASSUME TypeInv, BeginCycle
    PROVE  /\ sync_state' \in [SyncKeys -> Nat]
           /\ seen' \subseteq Chargers
           /\ sizes' \subseteq Nat \ {0}
           /\ owed' \in 0..MaxRows
BY SetType DEF BeginCycle, SyncKeys, TypeInv, TypeOK

LEMMA FinishType ==
    ASSUME TypeInv, NEW s \in Slots,
           PutSynced(s) \/ ClearPage(s) \/ ClearTotal(s) \/ ClearSize(s)
    PROVE  TypeInv'
<1>1. /\ pc' \in [Slots -> Steps] /\ tick' \in [Slots -> Locals]
      /\ \A q \in Slots : Counting(q)'
  BY IdleType, GotoType
     DEF PutSynced, ClearPage, ClearTotal, ClearSize, Return, Steps, TickSteps, KnowsPage
<1>2. CASE PutSynced(s) \/ ClearTotal(s) \/ ClearSize(s)
  <2>1. sync_state' \in [SyncKeys -> Nat]
    BY <1>2, SetType DEF PutSynced, ClearTotal, ClearSize, SyncKeys, TypeInv, TypeOK
  <2>2. clock' \in Nat \ {0}
    BY <1>2 DEF PutSynced, ClearTotal, ClearSize, TypeInv, TypeOK
  <2>3. UNCHANGED <<chargers, upstreamVars, kills, resets, historyVars>>
    BY <1>2 DEF PutSynced, ClearTotal, ClearSize
  <2>4. QED
    BY <1>1, <2>1, <2>2, <2>3 DEF TypeInv, TypeOK, StoreTypeOK, upstreamVars, historyVars
<1>3. CASE ClearPage(s)
  BY <1>1, <1>3, BeginCycleType DEF ClearPage, TypeInv, TypeOK, StoreTypeOK, upstreamVars
<1>4. QED
  BY <1>2, <1>3

LEMMA ResetType ==
    ASSUME TypeInv, NEW s \in Slots,
           StartReset(s) \/ ResetStep(s)
    PROVE  TypeInv'
<1>1. /\ pc' \in [Slots -> Steps] /\ tick' \in [Slots -> Locals]
      /\ \A q \in Slots : Counting(q)'
  BY IdleType, GotoType
     DEF StartReset, ResetStep, ResetPage, ResetTotal, ResetSize, ResetStart, Return,
     Steps, TickSteps, ResetSteps, KnowsPage
<1>2. CASE StartReset(s)
  BY <1>1, <1>2 DEF StartReset, TypeInv, TypeOK, StoreTypeOK, storeVars, upstreamVars,
     historyVars
<1>3. CASE ResetPage(s)
  BY <1>1, <1>3, BeginCycleType DEF ResetPage, TypeInv, TypeOK, StoreTypeOK, upstreamVars
<1>4. CASE ResetTotal(s) \/ ResetSize(s) \/ ResetStart(s)
  <2>1. sync_state' \in [SyncKeys -> Nat]
    BY <1>4, SetType DEF ResetTotal, ResetSize, ResetStart, SyncKeys, TypeInv
  <2>2. QED
    BY <1>1, <1>4, <2>1 DEF ResetTotal, ResetSize, ResetStart, TypeInv, TypeOK,
       StoreTypeOK, upstreamVars, historyVars
<1>5. QED
  BY <1>2, <1>3, <1>4 DEF ResetStep

LEMMA KillType ==
    ASSUME TypeInv, NEW s \in Slots, Kill(s)
    PROVE  TypeInv'
<1>1. /\ pc' \in [Slots -> Steps] /\ tick' \in [Slots -> Locals]
      /\ \A q \in Slots : Counting(q)'
  BY IdleType, GotoType DEF Kill, Return, Steps, KnowsPage
<1>2. QED
  BY <1>1 DEF Kill, TypeInv, TypeOK, StoreTypeOK, storeVars, upstreamVars, historyVars

(* The dev seed route and the upstream keep the types.                     *)
LEMMA EnvironmentType ==
    ASSUME TypeInv,
           \/ \E rows \in SeedSets : Seed(rows)
           \/ Publish
           \/ \E r \in 1..listed : Revise(r)
    PROVE  TypeInv'
<1>1. CASE \E rows \in SeedSets : Seed(rows)
  <2>1. PICK rows \in SeedSets : Seed(rows)
    BY <1>1
  <2>2. {upstream[r] : r \in rows} \in SUBSET Row
    BY SyncAssumption DEF TypeInv, TypeOK
  <2>3. chargers' \in [Chargers -> StoredRow]
    BY <2>1, <2>2, UpsertType DEF Seed, SeedForTesting, TypeInv, TypeOK
  <2>4. sync_state' \in [SyncKeys -> Nat]
    BY <2>1, SetType DEF Seed, SeedForTesting, SyncKeys, TypeInv, TypeOK
  <2>5. QED
    BY <2>1, <2>3, <2>4 DEF Seed, TypeInv, TypeOK, StoreTypeOK, Counting,
       upstreamVars, slotVars, historyVars
<1>2. CASE Publish
  BY <1>2, SyncAssumption DEF Publish, TypeInv, TypeOK, StoreTypeOK, Counting,
     storeVars, slotVars, historyVars
<1>3. CASE \E r \in 1..listed : Revise(r)
  <2>1. PICK r \in 1..listed : Revise(r)
    BY <1>3
  <2>2. r \in Chargers
    BY SyncAssumption DEF TypeInv, TypeOK
  <2>3. upstream' \in [Chargers -> Row]
    BY <2>1, <2>2 DEF Revise, TypeInv, TypeOK, Row, NoDt
  <2>4. QED
    BY <2>1, <2>3 DEF Revise, TypeInv, TypeOK, StoreTypeOK, Counting,
       storeVars, slotVars, historyVars
<1>4. QED
  BY <1>1, <1>2, <1>3

LEMMA StepType == TypeInv /\ [Next]_vars => TypeInv'
<1> SUFFICES ASSUME TypeInv, [Next]_vars
             PROVE  TypeInv'
  OBVIOUS
<1>1. CASE UNCHANGED vars
  BY <1>1 DEF vars, TypeInv, TypeOK, StoreTypeOK, Counting
<1>2. ASSUME NEW s \in Slots, TickStep(s)
      PROVE  TypeInv'
  BY <1>2, ReadPageType, FetchType, PageWriteType, UpsertPageType, PutPageType, FinishType
     DEF TickStep
<1>3. QED
  BY <1>1, <1>2, StartTickType, ResetType, KillType, EnvironmentType DEF Next

(* TypeOK holds of every behaviour, with any number of overlapping         *)
(* invocations: no interleaving of ticks and resets makes the persisted    *)
(* counters or a tick's arithmetic leave the naturals (runSyncTick).       *)
THEOREM TypeCorrect == Spec => []TypeOK
<1>1. Init => TypeInv
  BY InitType DEF Init, TypeInv, Counting, KnowsPage
<1>2. TypeInv => TypeOK
  BY DEF TypeInv
<1>3. QED
  BY <1>1, <1>2, StepType, PTL DEF Spec

----------------------------------------------------------------------------
(* The rows of the listing, of the pages under way and of the table.       *)

(* The upstream only changes by a revision of one row.                     *)
LEMMA UpstreamFrame ==
    ASSUME [Next]_vars
    PROVE  UNCHANGED upstream \/ \E r \in 1..listed : Revise(r)
<1>1. ASSUME NEW s \in Slots, TickStep(s) \/ ResetStep(s)
      PROVE  UNCHANGED upstream
  BY <1>1 DEF TickStep, ResetStep, ReadPage, ReadTotal, ReadSize, FetchPage, FetchFails,
     LockSize, PutTotal, StampStart, UpsertPage, PutPage, PutSynced, ClearPage, ClearTotal,
     ClearSize, ResetPage, ResetTotal, ResetSize, ResetStart, upstreamVars
<1>2. QED
  BY <1>1 DEF Next, StartTick, StartReset, Kill, Seed, Publish, upstreamVars, vars

(* A row keeps its position, and a revision of it is a later one whose     *)
(* stamp, if any, names it.                                                *)
LEMMA UpstreamStep ==
    ASSUME TypeOK, UpstreamIsKeyed, [Next]_vars
    PROVE  /\ UpstreamIsKeyed'
           /\ \A r \in Chargers :
                \/ upstream'[r] = upstream[r]
                \/ /\ StampNamesRevision(upstream'[r])
                   /\ upstream'[r].body > upstream[r].body
<1>1. CASE UNCHANGED upstream
  BY <1>1 DEF UpstreamIsKeyed
<1>2. CASE \E r \in 1..listed : Revise(r)
  <2>1. PICK r \in 1..listed : Revise(r)
    BY <1>2
  <2>2. PICK dt \in {NoDt, upstream[r].body + 1} :
            upstream' = [upstream EXCEPT ![r] = [key |-> r, dt |-> dt, body |-> @.body + 1]]
    BY <2>1 DEF Revise
  <2>3. upstream \in [Chargers -> Row] /\ r \in Chargers
    BY SyncAssumption DEF TypeOK
  <2>4. upstream[r].body \in Nat
    BY <2>3 DEF Row
  <2>5. UpstreamIsKeyed'
    BY <2>2, <2>3 DEF UpstreamIsKeyed
  <2>6. ASSUME NEW q \in Chargers
        PROVE  \/ upstream'[q] = upstream[q]
               \/ /\ StampNamesRevision(upstream'[q])
                  /\ upstream'[q].body > upstream[q].body
    <3>1. CASE q = r
      <4>1. upstream'[q] = [key |-> r, dt |-> dt, body |-> upstream[r].body + 1]
        BY <2>2, <2>3, <3>1
      <4>2. QED
        BY <4>1, <2>4, <3>1 DEF StampNamesRevision
    <3>2. CASE q # r
      BY <2>2, <2>3, <3>2
    <3>3. QED
      BY <3>1, <3>2
  <2>7. QED
    BY <2>5, <2>6
<1>3. QED
  BY <1>1, <1>2, UpstreamFrame

(* The rows a tick holds stay, are dropped, or are the page just fetched.  *)
LEMMA ItemsStep ==
    ASSUME TypeInv, NEW s \in Slots, [Next]_vars
    PROVE  \/ tick'[s].items = tick[s].items
           \/ tick'[s].items = {}
           \/ FetchPage(s) /\ tick'[s].items = Served(tick[s])
<1>1. tick \in [Slots -> Locals] /\ TypeOK
  BY DEF TypeInv, TypeOK
<1>2. ASSUME NEW q \in Slots, NEW from, NEW to, NEW locals, Goto(q, from, to, locals),
             q # s \/ locals.items \in {{}, tick[s].items}
      PROVE  tick'[s].items \in {{}, tick[s].items}
  BY <1>1, <1>2 DEF Goto
<1>3. Idle.items = {}
  BY DEF Idle, NewTick
<1>4. ASSUME NEW q \in Slots, FetchPage(q)
      PROVE  \/ tick'[s].items = tick[s].items
             \/ FetchPage(s) /\ tick'[s].items = Served(tick[s])
  <2>1. PICK count \in {0, listed} :
            Goto(q, "fetch", AfterFetch(WithPage(tick[q], Served(tick[q]), count)),
                 WithPage(tick[q], Served(tick[q]), count))
    BY <1>4 DEF FetchPage
  <2>2. CASE q = s
    <3>1. Served(tick[s]) \in SUBSET Row /\ count \in Nat
      BY SyncAssumption DEF TypeInv, TypeOK, Served
    <3>2. WithPage(tick[s], Served(tick[s]), count).items = Served(tick[s])
      BY <1>1, <3>1, WithPageType
    <3>3. QED
      BY <1>1, <1>4, <2>1, <2>2, <3>2 DEF Goto
  <2>3. CASE q # s
    BY <1>1, <2>1, <2>3 DEF Goto
  <2>4. QED
    BY <2>2, <2>3
<1>5. ASSUME NEW q \in Slots, NEW size \in PageSizes, NEW pages \in PagesPerTick,
             StartTick(q, size, pages)
      PROVE  tick'[s].items \in {{}, tick[s].items}
  <2>1. NewTick(size, pages).items = {}
    BY DEF NewTick
  <2>2. QED
    BY <2>1, <1>2, <1>5 DEF StartTick
<1>6. ASSUME NEW q \in Slots, ReadPage(q) \/ ReadTotal(q) \/ ReadSize(q)
      PROVE  tick'[s].items \in {{}, tick[s].items}
  <2>1. tick[q] \in Locals
    BY <1>1
  <2>2. CASE ReadPage(q)
    BY <2>1, <2>2, <1>2 DEF ReadPage, Locals
  <2>3. CASE ReadTotal(q)
    BY <2>1, <2>3, <1>2 DEF ReadTotal, Locals
  <2>4. CASE ReadSize(q)
    <3> DEFINE t == [tick[q] EXCEPT !.locked = PageSize,
                                    !.size = IF PageSize > 0 THEN PageSize ELSE @]
    <3>1. t.items = tick[q].items
      BY <2>1 DEF Locals
    <3>2. Goto(q, "readSize", "fetch", t)
      BY <2>4 DEF ReadSize
    <3> HIDE DEF t
    <3>3. QED
      BY <3>1, <3>2, <1>2
  <2>5. QED
    BY <1>6, <2>2, <2>3, <2>4
<1>7. ASSUME NEW q \in Slots,
             LockSize(q) \/ PutTotal(q) \/ StampStart(q) \/ UpsertPage(q)
      PROVE  tick'[s].items \in {{}, tick[s].items}
  <2>1. tick[q] \in Locals
    BY <1>1
  <2>2. CASE PutTotal(q)
    <3> DEFINE t == [tick[q] EXCEPT !.total = CeilDiv(tick[q].count, tick[q].size)]
    <3>1. t.items = tick[q].items
      BY <2>1 DEF Locals
    <3>2. Goto(q, "putTotal", AfterTotal(tick[q]), t)
      BY <2>2 DEF PutTotal
    <3> HIDE DEF t
    <3>3. QED
      BY <3>1, <3>2, <1>2
  <2>3. CASE LockSize(q) \/ StampStart(q) \/ UpsertPage(q)
    BY <2>3, <1>2 DEF LockSize, StampStart, UpsertPage
  <2>4. QED
    BY <1>7, <2>2, <2>3
<1>8. ASSUME NEW q \in Slots, PutPage(q)
      PROVE  tick'[s].items \in {{}, tick[s].items}
  <2>1. NextPage(tick[q]).items = {}
    BY DEF NextPage
  <2>2. QED
    BY <2>1, <1>2, <1>3, <1>8 DEF PutPage, Return
<1>9. ASSUME NEW q \in Slots,
             \/ FetchFails(q) \/ PutSynced(q) \/ ClearPage(q) \/ ClearTotal(q) \/ ClearSize(q)
             \/ StartReset(q) \/ ResetStep(q) \/ Kill(q)
      PROVE  tick'[s].items \in {{}, tick[s].items}
  BY <1>2, <1>3, <1>9 DEF FetchFails, PutSynced, ClearPage, ClearTotal, ClearSize, StartReset,
     ResetStep, ResetPage, ResetTotal, ResetSize, ResetStart, Kill, Return
<1>10. CASE \/ \E rows \in SeedSets : Seed(rows)
            \/ Publish
            \/ \E r \in 1..listed : Revise(r)
            \/ UNCHANGED vars
  BY <1>10 DEF Seed, Publish, Revise, slotVars, vars
<1>11. QED
  BY <1>4, <1>5, <1>6, <1>7, <1>8, <1>9, <1>10 DEF Next, TickStep

(* upsertMany, given one row per key and stamps that name revisions: each  *)
(* row is in the table afterwards, written or skipped.                     *)
LEMMA UpsertResult ==
    ASSUME StoreTypeOK, NEW rows \in SUBSET Row, NEW now, UpsertMany(rows, now),
           \A row, other \in rows : row.key = other.key => row = other,
           \A row \in rows : StampNamesRevision(row),
           \A c \in Chargers : StampNamesRevision(chargers[c])
    PROVE  /\ \A row \in rows : chargers'[row.key].body = row.body
           /\ \A c \in Chargers : StampNamesRevision(chargers'[c])
           /\ \A c \in Chargers : c \notin KeysOf(rows) => chargers'[c] = chargers[c]
<1> DEFINE new(c) == {row \in rows : row.key = c /\ ~SameStamp(chargers[c], row)}
           chosen(c) == CHOOSE row \in new(c) : TRUE
<1>1. ASSUME NEW c \in Chargers
      PROVE  /\ new(c) = {} => chargers'[c] = chargers[c]
             /\ new(c) # {} => /\ chosen(c) \in new(c)
                               /\ chargers'[c].dt = chosen(c).dt
                               /\ chargers'[c].body = chosen(c).body
  BY DEF UpsertMany
<1>2. ASSUME NEW row \in rows PROVE chargers'[row.key].body = row.body
  <2>1. row.key \in Chargers /\ row.body \in Nat
    BY DEF Row
  <2>2. CASE new(row.key) = {}
    <3>1. SameStamp(chargers[row.key], row)
      BY <2>2
    <3>2. chargers[row.key].body = row.body
      BY <3>1, <2>1 DEF SameStamp, StampNamesRevision
    <3>3. QED
      BY <1>1, <2>1, <2>2, <3>2
  <2>3. CASE new(row.key) # {}
    <3>1. chosen(row.key) \in rows /\ chosen(row.key).key = row.key
      BY <1>1, <2>1, <2>3
    <3>2. chosen(row.key) = row
      BY <3>1
    <3>3. QED
      BY <1>1, <2>1, <2>3, <3>2
  <2>4. QED
    BY <2>2, <2>3
<1>3. ASSUME NEW c \in Chargers PROVE StampNamesRevision(chargers'[c])
  <2>1. CASE new(c) = {}
    BY <1>1, <2>1
  <2>2. CASE new(c) # {}
    <3>1. StampNamesRevision(chosen(c))
      BY <1>1, <2>2
    <3>2. QED
      BY <3>1, <1>1, <2>2 DEF StampNamesRevision
  <2>3. QED
    BY <2>1, <2>2
<1>4. ASSUME NEW c \in Chargers, c \notin KeysOf(rows) PROVE chargers'[c] = chargers[c]
  <2>1. new(c) = {}
    BY <1>4 DEF KeysOf
  <2>2. QED
    BY <2>1, <1>1
<1>5. QED
  BY <1>2, <1>3, <1>4

(* Rows taken from the listing come one per key, stamped as it stamps them.*)
LEMMA ListingRows ==
    ASSUME TypeOK, UpstreamIsKeyed, NEW positions \in SUBSET Chargers
    PROVE  LET rows == {upstream[r] : r \in positions}
           IN  /\ rows \in SUBSET Row
               /\ \A row \in rows : row.key \in positions /\ row = upstream[row.key]
BY DEF TypeOK, UpstreamIsKeyed

(* The table changes by upserts of a tick's page or of seeded rows only.   *)
LEMMA TableFrame ==
    ASSUME [Next]_vars
    PROVE  \/ UNCHANGED chargers
           \/ \E s \in Slots : UpsertPage(s)
           \/ \E rows \in SeedSets : Seed(rows)
<1>1. ASSUME NEW s \in Slots, TickStep(s) \/ ResetStep(s), ~UpsertPage(s)
      PROVE  UNCHANGED chargers
  BY <1>1 DEF TickStep, ResetStep, ReadPage, ReadTotal, ReadSize, FetchPage, FetchFails,
     LockSize, PutTotal, StampStart, PutPage, PutSynced, ClearPage, ClearTotal,
     ClearSize, ResetPage, ResetTotal, ResetSize, ResetStart, storeVars
<1>2. QED
  BY <1>1 DEF Next, StartTick, StartReset, Kill, Publish, Revise, storeVars, vars

LEMMA RowsInit == Init => RowsInv
<1> SUFFICES ASSUME Init PROVE RowsInv
  OBVIOUS
<1>1. TypeInv
  BY InitType DEF Init, TypeInv, Counting, KnowsPage
<1>2. UpstreamIsKeyed /\ \A r \in Chargers : StampNamesRevision(upstream[r])
  BY DEF Init, UpstreamIsKeyed, StampNamesRevision
<1>3. \A c \in Chargers : StampNamesRevision(chargers[c])
  BY DEF Init, StoreInit, NoRow, StampNamesRevision
<1>4. \A s \in Slots : tick[s].items = {}
  BY DEF Init, Idle, NewTick
<1>5. QED
  BY <1>1, <1>2, <1>3, <1>4 DEF RowsInv

(* What an upsert of a page, or of seeded rows, leaves in the table.       *)
LEMMA PageUpsert ==
    ASSUME RowsInv, NEW s \in Slots, UpsertPage(s)
    PROVE  /\ \A row \in tick[s].items : chargers'[row.key].body = row.body
           /\ \A c \in Chargers : StampNamesRevision(chargers'[c])
           /\ \A c \in Chargers : c \notin KeysOf(tick[s].items) => chargers'[c] = chargers[c]
<1>1. StoreTypeOK /\ tick[s].items \in SUBSET Row
  BY DEF RowsInv, TypeInv, TypeOK, Locals
<1>2. UpsertMany(tick[s].items, clock)
  BY DEF UpsertPage
<1>3. QED
  BY <1>1, <1>2, UpsertResult DEF RowsInv

LEMMA SeedUpsert ==
    ASSUME RowsInv, NEW rows \in SeedSets, Seed(rows)
    PROVE  \A c \in Chargers : StampNamesRevision(chargers'[c])
<1> DEFINE posted == {upstream[r] : r \in rows}
<1>1. StoreTypeOK /\ TypeOK /\ UpstreamIsKeyed /\ rows \in SUBSET Chargers
  BY SyncAssumption DEF RowsInv, TypeInv, TypeOK
<1>2. /\ posted \in SUBSET Row
      /\ \A row \in posted : row.key \in rows /\ row = upstream[row.key]
  BY <1>1, ListingRows
<1>3. UpsertMany(posted, clock)
  BY DEF Seed, SeedForTesting
<1>4. \A row \in posted : StampNamesRevision(row)
  BY <1>1 DEF RowsInv
<1>5. \A row, other \in posted : row.key = other.key => row = other
  BY <1>2
<1>6. \A c \in Chargers : StampNamesRevision(chargers[c])
  BY DEF RowsInv
<1> HIDE DEF posted
<1>7. QED
  BY <1>1, <1>2, <1>3, <1>4, <1>5, <1>6, UpsertResult

LEMMA RowsStep == RowsInv /\ [Next]_vars => RowsInv'
<1> SUFFICES ASSUME RowsInv, [Next]_vars PROVE RowsInv'
  OBVIOUS
<1>1. TypeOK /\ TypeInv /\ UpstreamIsKeyed
  BY DEF RowsInv, TypeInv
<1>2. TypeInv'
  BY <1>1, StepType
<1>3. UpstreamIsKeyed' /\ \A r \in Chargers : StampNamesRevision(upstream'[r])
  BY <1>1, UpstreamStep DEF RowsInv
<1>4. \A c \in Chargers : StampNamesRevision(chargers'[c])
  BY TableFrame, PageUpsert, SeedUpsert DEF RowsInv
<1>5. ASSUME NEW s \in Slots
      PROVE  /\ \A row \in tick'[s].items : StampNamesRevision(row)
             /\ \A row, other \in tick'[s].items : row.key = other.key => row = other
  <2>1. CASE tick'[s].items \in {{}, tick[s].items}
    BY <2>1 DEF RowsInv
  <2>2. CASE tick'[s].items = Served(tick[s])
    <3> DEFINE positions == PageRows(tick[s].last + 1, tick[s].size) \cap 1..listed
    <3>1. positions \in SUBSET Chargers /\ Served(tick[s]) = {upstream[r] : r \in positions}
      BY <1>1, SyncAssumption DEF Served, TypeOK
    <3>2. \A row \in Served(tick[s]) : row.key \in Chargers /\ row = upstream[row.key]
      BY <1>1, <3>1, ListingRows
    <3>3. QED
      BY <2>2, <3>2 DEF RowsInv
  <2>3. QED
    BY <1>1, <2>1, <2>2, ItemsStep
<1>6. QED
  BY <1>2, <1>3, <1>4, <1>5 DEF RowsInv, StampNamesRevision

(* upsertMany leaves no page row behind: with any number of overlapping    *)
(* ticks, kills and seeds, the table holds the fetched revision of each    *)
(* row of a page once the page is upserted, written or skipped.            *)
THEOREM UpsertCorrect == Spec => UpsertStoresPage
<1>1. RowsInv /\ [Next]_vars => [PageIsStored]_vars
  <2> SUFFICES ASSUME RowsInv, [Next]_vars, ~UNCHANGED vars,
                      NEW s \in Slots, pc[s] = "upsert", pc'[s] = "putPage"
               PROVE  \A row \in tick[s].items : chargers'[row.key].body = row.body
    BY DEF PageIsStored
  <2>1. UpsertPage(s)
    <3>1. pc \in [Slots -> Steps]
      BY DEF RowsInv, TypeInv, TypeOK
    <3>2. ASSUME NEW q \in Slots, NEW from, NEW to, NEW locals, Goto(q, from, to, locals)
          PROVE  q = s /\ from = "upsert" /\ to = "putPage"
      BY <3>1, <3>2 DEF Goto
    <3>3. ASSUME NEW q \in Slots,
                 \/ \E size \in PageSizes, pages \in PagesPerTick : StartTick(q, size, pages)
                 \/ ReadPage(q) \/ ReadTotal(q) \/ ReadSize(q) \/ FetchPage(q)
                 \/ FetchFails(q) \/ LockSize(q) \/ PutTotal(q) \/ StampStart(q)
          PROVE  FALSE
      BY <3>2, <3>3 DEF StartTick, ReadPage, ReadTotal, ReadSize, FetchPage, FetchFails,
         LockSize, PutTotal, StampStart, Return
    <3>4. ASSUME NEW q \in Slots,
                 \/ PutPage(q) \/ PutSynced(q) \/ ClearPage(q) \/ ClearTotal(q)
                 \/ ClearSize(q) \/ StartReset(q) \/ ResetStep(q) \/ Kill(q)
          PROVE  FALSE
      BY <3>2, <3>4 DEF PutPage, PutSynced, ClearPage, ClearTotal, ClearSize, StartReset,
         ResetStep, ResetPage, ResetTotal, ResetSize, ResetStart, Kill, Return
    <3>5. CASE \/ \E rows \in SeedSets : Seed(rows)
               \/ Publish
               \/ \E r \in 1..listed : Revise(r)
      BY <3>5 DEF Seed, Publish, Revise, slotVars
    <3>6. ASSUME NEW q \in Slots, UpsertPage(q) PROVE q = s
      BY <3>2, <3>6 DEF UpsertPage
    <3>7. QED
      BY <3>3, <3>4, <3>5, <3>6 DEF Next, TickStep
  <2>2. QED
    BY <2>1, PageUpsert
<1>2. QED
  BY <1>1, RowsInit, RowsStep, PTL DEF Spec, UpsertStoresPage

AtMostOneSlot == \A q, s \in Slots : q = s

LEMMA NewestTypes ==
    ASSUME RowsInv
    PROVE  /\ \A c \in Chargers : chargers[c].body \in Nat /\ upstream[c].body \in Nat
           /\ \A s \in Slots : \A row \in tick[s].items :
                row.key \in Chargers /\ row.body \in Nat
BY DEF RowsInv, TypeInv, TypeOK, StoreTypeOK, Row, StoredRow, Locals

LEMMA NewestStep ==
    ASSUME AtMostOneSlot, SeedSets = {}, NewestInv, [Next]_vars
    PROVE  NewestInv'
<1>1. RowsInv /\ RowsInv' /\ TypeInv /\ TypeOK /\ UpstreamIsKeyed
  BY RowsStep DEF NewestInv, RowsInv, TypeInv
<1>2. /\ \A c \in Chargers : chargers[c].body \in Nat /\ upstream[c].body \in Nat
      /\ \A c \in Chargers : chargers'[c].body \in Nat /\ upstream'[c].body \in Nat
  <2>1. /\ chargers \in [Chargers -> StoredRow] /\ upstream \in [Chargers -> Row]
        /\ chargers' \in [Chargers -> StoredRow] /\ upstream' \in [Chargers -> Row]
    BY <1>1 DEF RowsInv, TypeInv, TypeOK, StoreTypeOK
  <2>2. QED
    BY <2>1 DEF Row, StoredRow
<1>3. \A c \in Chargers : upstream'[c].body >= upstream[c].body
  <2>1. SUFFICES ASSUME NEW c \in Chargers PROVE upstream'[c].body >= upstream[c].body
    OBVIOUS
  <2>2. upstream'[c].body \in Nat /\ upstream[c].body \in Nat
    BY <1>2
  <2>3. upstream'[c] = upstream[c] \/ upstream'[c].body > upstream[c].body
    BY <1>1, UpstreamStep
  <2>4. QED
    BY <2>2, <2>3
<1>4. \A s \in Slots : \A row \in tick[s].items : row.key \in Chargers /\ row.body \in Nat
  BY <1>1, NewestTypes
<1>5. UNCHANGED chargers \/ \E s \in Slots : UpsertPage(s)
  BY TableFrame
<1>6. ASSUME NEW c \in Chargers PROVE chargers'[c].body <= upstream'[c].body
  <2>1. CASE UNCHANGED chargers
    BY <2>1, <1>3, <1>2 DEF NewestInv
  <2>2. ASSUME NEW s \in Slots, UpsertPage(s) PROVE chargers'[c].body <= upstream'[c].body
    <3>1. CASE c \in KeysOf(tick[s].items)
      <4>1. PICK row \in tick[s].items : row.key = c
        BY <3>1 DEF KeysOf
      <4>2. chargers'[c].body = row.body
        BY <4>1, <1>1, <2>2, PageUpsert
      <4>3. QED
        BY <4>1, <4>2, <1>3, <1>2, <1>4 DEF NewestInv, PageIsNewest
    <3>2. CASE c \notin KeysOf(tick[s].items)
      BY <3>2, <2>2, <1>1, <1>3, <1>2, PageUpsert DEF NewestInv
    <3>3. QED
      BY <3>1, <3>2
  <2>3. QED
    BY <1>5, <2>1, <2>2
<1>7. ASSUME NEW s \in Slots PROVE PageIsNewest(s)'
  <2>1. SUFFICES ASSUME NEW row \in tick'[s].items
                 PROVE  /\ chargers'[row.key].body <= row.body
                        /\ row.body <= upstream'[row.key].body
    BY DEF PageIsNewest
  <2>2. CASE row \in tick[s].items
    <3>1. /\ row.key \in Chargers /\ row.body \in Nat
          /\ chargers[row.key].body <= row.body /\ row.body <= upstream[row.key].body
      BY <2>2, <1>4 DEF NewestInv, PageIsNewest
    <3>2. row.body <= upstream'[row.key].body
      BY <3>1, <1>3, <1>2
    <3>3. CASE UNCHANGED chargers
      BY <3>1, <3>2, <3>3
    <3>4. ASSUME NEW q \in Slots, UpsertPage(q) PROVE chargers'[row.key].body <= row.body
      <4>1. q = s
        BY DEF AtMostOneSlot
      <4>2. chargers'[row.key].body = row.body
        BY <4>1, <3>4, <2>2, <1>1, PageUpsert
      <4>3. QED
        BY <4>2, <3>1
    <3>5. QED
      BY <3>2, <3>3, <3>4, <1>5
  <2>3. CASE FetchPage(s) /\ tick'[s].items = Served(tick[s])
    <3> DEFINE positions == PageRows(tick[s].last + 1, tick[s].size) \cap 1..listed
    <3>1. positions \in SUBSET Chargers /\ Served(tick[s]) = {upstream[r] : r \in positions}
      BY <1>1, SyncAssumption DEF Served, TypeOK
    <3>2. row.key \in Chargers /\ row = upstream[row.key]
      BY <2>3, <1>1, <3>1, ListingRows
    <3>3. UNCHANGED <<chargers, upstream>>
      BY <2>3 DEF FetchPage, storeVars, upstreamVars
    <3>4. QED
      BY <3>2, <3>3, <1>2 DEF NewestInv
  <2>4. QED
    BY <1>1, <2>2, <2>3, ItemsStep
<1>8. QED
  BY <1>1, <1>6, <1>7 DEF NewestInv

LEMMA NewestInit == Init => NewestInv
<1> SUFFICES ASSUME Init PROVE NewestInv
  OBVIOUS
<1>1. RowsInv
  BY RowsInit
<1>2. \A c \in Chargers : chargers[c].body <= upstream[c].body
  <2>1. SUFFICES ASSUME NEW c \in Chargers PROVE chargers[c].body <= upstream[c].body
    OBVIOUS
  <2>2. chargers[c].body = 0 /\ upstream[c].body = 1
    BY DEF Init, StoreInit, NoRow
  <2>3. QED
    BY <2>2
<1>3. \A s \in Slots : tick[s].items = {}
  BY DEF Init, Idle, NewTick
<1>4. QED
  BY <1>1, <1>2, <1>3 DEF NewestInv, PageIsNewest

(* A stored row is never replaced by an older revision of itself           *)
(* (upsertMany), as long as ticks do not overlap and nobody seeds rows:    *)
(* two ticks that fetched the same page at different times, or a seed      *)
(* between a fetch and its upsert, can each take the table back.           *)
THEOREM NeverRegressCorrect ==
    ASSUME AtMostOneSlot, SeedSets = {}
    PROVE  Spec => RowsNeverRegress
<1>1. NewestInv /\ [Next]_vars => NewestInv'
  BY NewestStep
<1>2. NewestInv /\ [Next]_vars => [RowsKeepUp]_vars
  <2> SUFFICES ASSUME NewestInv, [Next]_vars, NEW c \in Chargers
               PROVE  chargers'[c].body >= chargers[c].body
    BY DEF RowsKeepUp
  <2>1. RowsInv /\ chargers[c].body \in Nat
    BY NewestTypes DEF NewestInv
  <2>2. CASE UNCHANGED chargers
    BY <2>1, <2>2
  <2>3. ASSUME NEW s \in Slots, UpsertPage(s) PROVE chargers'[c].body >= chargers[c].body
    <3>1. CASE c \in KeysOf(tick[s].items)
      <4>1. PICK row \in tick[s].items : row.key = c
        BY <3>1 DEF KeysOf
      <4>2. chargers'[c].body = row.body /\ row.body \in Nat
        BY <4>1, <2>1, <2>3, PageUpsert, NewestTypes
      <4>3. QED
        BY <4>1, <4>2, <2>1 DEF NewestInv, PageIsNewest
    <3>2. CASE c \notin KeysOf(tick[s].items)
      BY <3>2, <2>1, <2>3, PageUpsert
    <3>3. QED
      BY <3>1, <3>2
  <2>4. QED
    BY <2>2, <2>3, TableFrame
<1>3. QED
  BY <1>1, <1>2, NewestInit, PTL DEF Spec, RowsNeverRegress

-----------------------------------------------------------------------------
(***************************************************************************)
(* The safety of a refresh cycle when invocations do not overlap (at most  *)
(* one slot), with any number of kills, resets, seeds and new rows: IInv   *)
(* is inductive, and the page-size lock and the resume point follow.       *)
(***************************************************************************)

CycleInv == LockHeldMidCycle /\ ResumePoint /\ SizesAreLocked /\ OwedIsListed

LEMMA GotoValue ==
    ASSUME TypeOK, NEW s \in Slots, NEW from, NEW to, NEW locals,
           Goto(s, from, to, locals)
    PROVE  pc[s] = from /\ pc'[s] = to /\ tick'[s] = locals
BY DEF Goto, TypeOK

LEMMA SetValue ==
    ASSUME TypeOK, NEW key \in SyncKeys, NEW value, SetSyncState(key, value)
    PROVE  /\ Lcp' = IF key = "last_completed_page" THEN value ELSE Lcp
           /\ PageSize' = IF key = "page_size" THEN value ELSE PageSize
BY DEF SetSyncState, TypeOK, StoreTypeOK, Lcp, PageSize, SyncKeys

(* A step that leaves the cursor, the lock and the history alone keeps     *)
(* what is known of the cycle, new rows or not.                            *)
LEMMA CycleFrame ==
    ASSUME IInv, Lcp' = Lcp, PageSize' = PageSize, UNCHANGED <<seen, sizes, owed>>,
           listed' \in Nat, listed' >= listed
    PROVE  CycleInv'
<1>1. owed \in Nat /\ listed \in Nat
  BY SyncAssumption DEF IInv, TypeInv, TypeOK
<1>2. QED
  BY <1>1 DEF IInv, CycleInv, LockHeldMidCycle, ResumePoint, SizesAreLocked, OwedIsListed

(* With one slot, what holds of the slot that moved holds of all.          *)
LEMMA OnlySlot ==
    ASSUME AtMostOneSlot, NEW s \in Slots, CycleInv', TypeInv', SlotInv(s)',
           UpstreamIsKeyed'
    PROVE  IInv'
<1>1. ASSUME NEW q \in Slots PROVE SlotInv(q)'
  <2>1. q = s
    BY DEF AtMostOneSlot
  <2>2. QED
    BY <2>1
<1>2. QED
  BY <1>1 DEF IInv, CycleInv

(* Steps that write neither the cursor nor the lock nor the history.       *)
LEMMA ReadSteps ==
    ASSUME IInv, NEW s \in Slots,
           ReadPage(s) \/ ReadTotal(s) \/ ReadSize(s)
    PROVE  CycleInv' /\ SlotInv(s)'
<1> DEFINE t == tick[s]
<1>1. t \in Locals /\ t.size > 0
  BY DEF IInv, TypeInv, TypeOK, Counting, KnowsPage, ReadPage, ReadTotal, ReadSize, Goto
<1>2. /\ UNCHANGED <<Lcp, PageSize, seen, sizes, owed, listed>>
      /\ listed \in Nat
  BY SyncAssumption DEF ReadPage, ReadTotal, ReadSize, storeVars, upstreamVars, historyVars,
     Lcp, PageSize, IInv, TypeInv, TypeOK
<1>3. CycleInv'
  BY <1>2, CycleFrame
<1>4. CASE ReadPage(s)
  <2>1. pc'[s] = "readTotal" /\ tick'[s].last = Lcp
    BY <1>4, <1>1, GotoValue DEF ReadPage, IInv, TypeInv, Locals
  <2>2. QED
    BY <2>1, <1>2, <1>3 DEF SlotInv, CursorIsKnown, LockIsKnown, LockIsOurs, PageIsComplete,
       PageWasUpserted, ReleaseOrder, HasPage, LockIsSet, CursorCleared, KnowsPage
<1>5. CASE ReadTotal(s)
  <2>1. pc'[s] = "readSize" /\ tick'[s].last = t.last /\ pc[s] = "readTotal"
    BY <1>5, <1>1, GotoValue DEF ReadTotal, IInv, TypeInv, Locals
  <2>2. t.last = Lcp
    BY <2>1 DEF IInv, SlotInv, CursorIsKnown, KnowsPage
  <2>3. QED
    BY <2>1, <2>2, <1>2, <1>3 DEF SlotInv, CursorIsKnown, LockIsKnown, LockIsOurs,
       PageIsComplete, PageWasUpserted, ReleaseOrder, HasPage, LockIsSet, CursorCleared
<1>6. CASE ReadSize(s)
  <2>1. PageSize \in Nat
    BY StateReads DEF IInv, TypeInv
  <2>2. /\ pc'[s] = "fetch" /\ pc[s] = "readSize"
        /\ tick'[s] = [t EXCEPT !.locked = PageSize,
                                !.size = IF PageSize > 0 THEN PageSize ELSE @]
    BY <1>6, GotoValue DEF ReadSize, IInv, TypeInv
  <2>3. /\ tick'[s].last = t.last
        /\ tick'[s].locked = PageSize
        /\ PageSize > 0 => tick'[s].size = PageSize
    BY <2>2, <1>1 DEF Locals
  <2>4. t.last = Lcp
    BY <2>2 DEF IInv, SlotInv, CursorIsKnown, KnowsPage
  <2>5. QED
    BY <2>1, <2>2, <2>3, <2>4, <1>2, <1>3 DEF SlotInv, CursorIsKnown, LockIsKnown,
       LockIsOurs, PageIsComplete, PageWasUpserted, ReleaseOrder, HasPage, LockIsSet,
       CursorCleared
<1>7. QED
  BY <1>4, <1>5, <1>6

(* Steps that bring a slot to a place where it knows nothing yet.          *)
LEMMA ForgetfulSteps ==
    ASSUME IInv, NEW s \in Slots,
           \/ \E size \in PageSizes, pages \in PagesPerTick : StartTick(s, size, pages)
           \/ FetchFails(s) \/ StartReset(s) \/ Kill(s) \/ PutSynced(s) \/ ResetStart(s)
    PROVE  CycleInv' /\ SlotInv(s)'
<1>1. UNCHANGED <<Lcp, PageSize>>
  BY SetValue DEF StartTick, FetchFails, StartReset, Kill, PutSynced, ResetStart, storeVars,
     Lcp, PageSize, SyncKeys, IInv, TypeInv
<1>2. UNCHANGED <<seen, sizes, owed, listed>> /\ listed \in Nat
  BY SyncAssumption DEF StartTick, FetchFails, StartReset, Kill, PutSynced, ResetStart,
     upstreamVars, historyVars, IInv, TypeInv, TypeOK
<1>3. pc'[s] \in {"readPage", "idle", "resetPage", "clearPage"}
  BY GotoValue DEF StartTick, FetchFails, StartReset, Kill, PutSynced, ResetStart, Return,
     IInv, TypeInv
<1>4. CycleInv'
  BY <1>1, <1>2, CycleFrame
<1>5. QED
  BY <1>3, <1>4 DEF SlotInv, CursorIsKnown, LockIsKnown, LockIsOurs, PageIsComplete,
     PageWasUpserted, ReleaseOrder, HasPage, LockIsSet, CursorCleared, KnowsPage

(* The page fetched covers every owed row of its positions, and whenever   *)
(* the lock is not about to be written it is already the tick's size.      *)
LEMMA FetchStep ==
    ASSUME IInv, NEW s \in Slots, FetchPage(s)
    PROVE  CycleInv' /\ SlotInv(s)'
<1> DEFINE t == tick[s]
<1>1. PICK count \in {0, listed} :
          Goto(s, "fetch", AfterFetch(WithPage(t, Served(t), count)),
               WithPage(t, Served(t), count))
  BY DEF FetchPage
<1> DEFINE u == WithPage(t, Served(t), count)
<1>2. t \in Locals /\ t.size > 0 /\ pc[s] = "fetch"
  BY <1>1 DEF IInv, TypeInv, TypeOK, Counting, KnowsPage, Goto
<1>3. PageRows(t.last + 1, t.size) \cap 1..listed \subseteq Chargers
  BY SyncAssumption DEF IInv, TypeInv, TypeOK
<1>4. Served(t) \in SUBSET Row
  BY <1>3 DEF Served, IInv, TypeInv, TypeOK
<1>5. listed \in Nat /\ owed \in Nat /\ owed <= listed /\ Lcp \in Nat /\ PageSize \in Nat
  BY SyncAssumption, StateReads DEF IInv, TypeInv, TypeOK, OwedIsListed
<1>6. /\ u.last = t.last /\ u.locked = t.locked /\ u.size = t.size
      /\ u.items = Served(t)
  BY <1>2, <1>4, <1>5, WithPageType
<1>7. pc'[s] = AfterFetch(u) /\ tick'[s] = u
  BY <1>1, GotoValue DEF IInv, TypeInv
<1>8. UNCHANGED <<Lcp, PageSize, seen, sizes, owed, listed>>
  BY DEF FetchPage, storeVars, upstreamVars, historyVars, Lcp, PageSize
<1>9. CycleInv'
  BY <1>8, <1>5, CycleFrame
<1>10. PageRows(t.last + 1, t.size) \cap 1..owed \subseteq KeysOf(Served(t))
  <2>1. PageRows(t.last + 1, t.size) \cap 1..owed
            \subseteq PageRows(t.last + 1, t.size) \cap 1..listed
    BY <1>5
  <2>2. ASSUME NEW r \in PageRows(t.last + 1, t.size) \cap 1..listed
        PROVE  r \in KeysOf(Served(t))
    <3>1. upstream[r].key = r
      BY <1>3 DEF IInv, UpstreamIsKeyed
    <3>2. QED
      BY <3>1 DEF KeysOf, Served
  <2>3. QED
    BY <2>1, <2>2
<1>11. /\ t.last = Lcp
       /\ PageSize \in {0, t.size}
       /\ t.last = 0 => t.locked = PageSize
       /\ Lcp > 0 => PageSize > 0
  BY <1>2 DEF IInv, SlotInv, CursorIsKnown, LockIsKnown, KnowsPage, LockHeldMidCycle
<1>12. /\ AfterFetch(u) \in {"lockSize", "upsert", "putTotal", "stampStart"}
       /\ AfterFetch(u) = "lockSize" <=> t.locked = 0 /\ t.last = 0
  BY <1>6 DEF AfterFetch, AfterLock, AfterTotal
<1> HIDE DEF u, t
<1>13. AfterFetch(u) # "lockSize" => PageSize = t.size
  BY <1>11, <1>12, <1>5
<1>14. CursorIsKnown(s)' /\ LockIsKnown(s)' /\ LockIsOurs(s)'
  BY <1>6, <1>7, <1>8, <1>11, <1>12, <1>13 DEF CursorIsKnown, LockIsKnown, LockIsOurs,
     LockIsSet
<1>15. PageIsComplete(s)'
  BY <1>6, <1>7, <1>8, <1>10 DEF PageIsComplete
<1>16. PageWasUpserted(s)' /\ ReleaseOrder(s)'
  BY <1>7, <1>12 DEF PageWasUpserted, ReleaseOrder, CursorCleared
<1>17. QED
  BY <1>9, <1>14, <1>15, <1>16 DEF SlotInv

(* The lock is only written while no page of the cycle has been completed. *)
LEMMA LockSizeStep ==
    ASSUME IInv, NEW s \in Slots, LockSize(s)
    PROVE  CycleInv' /\ SlotInv(s)'
<1> DEFINE t == tick[s]
<1>1. /\ pc[s] = "lockSize" /\ pc'[s] = AfterLock(t) /\ tick'[s] = t
      /\ Lcp' = Lcp /\ PageSize' = t.size
      /\ UNCHANGED <<seen, sizes, owed, listed>>
  BY GotoValue, SetValue DEF LockSize, historyVars, upstreamVars, SyncKeys, IInv, TypeInv
<1>2. /\ t \in Locals /\ t.size > 0 /\ t.size \in Nat
      /\ Lcp \in Nat /\ PageSize \in Nat /\ sizes \subseteq Nat \ {0}
  BY <1>1, StateReads DEF IInv, TypeInv, TypeOK, Counting, KnowsPage, Locals
<1>3. t.last = Lcp /\ PageSize \in {0, t.size}
  BY <1>1 DEF IInv, SlotInv, CursorIsKnown, LockIsKnown, KnowsPage
<1>4. AfterLock(t) \in {"upsert", "putTotal", "stampStart"}
  BY DEF AfterLock, AfterTotal
<1>5. CASE PageSize = t.size
  <2>1. CycleInv'
    BY <1>1, <1>5, <1>2, CycleFrame, SyncAssumption DEF IInv, TypeInv, TypeOK
  <2>2. QED
    BY <2>1, <1>1, <1>3, <1>4 DEF IInv, SlotInv, CursorIsKnown, LockIsKnown, LockIsOurs,
       PageIsComplete, PageWasUpserted, ReleaseOrder, HasPage, LockIsSet, CursorCleared,
       KnowsPage
<1>6. CASE PageSize = 0
  <2>1. Lcp = 0 /\ sizes = {}
    BY <1>6, <1>2 DEF IInv, LockHeldMidCycle, SizesAreLocked
  <2>2. CycleInv'
    BY <1>1, <1>2, <2>1 DEF IInv, CycleInv, LockHeldMidCycle, ResumePoint, SizesAreLocked,
       OwedIsListed
  <2>3. QED
    BY <2>2, <1>1, <1>3, <1>4 DEF IInv, SlotInv, CursorIsKnown, LockIsKnown, LockIsOurs,
       PageIsComplete, PageWasUpserted, ReleaseOrder, HasPage, LockIsSet, CursorCleared,
       KnowsPage
<1>7. QED
  BY <1>3, <1>5, <1>6

(* The other two conditional writes touch neither cursor nor lock.         *)
LEMMA HeaderSteps ==
    ASSUME IInv, NEW s \in Slots, PutTotal(s) \/ StampStart(s)
    PROVE  CycleInv' /\ SlotInv(s)'
<1> DEFINE t == tick[s]
<1>1. /\ pc[s] \in {"putTotal", "stampStart"}
      /\ pc'[s] \in {"stampStart", "upsert"}
      /\ UNCHANGED <<Lcp, PageSize, seen, sizes, owed, listed>>
  BY GotoValue, SetValue DEF PutTotal, StampStart, AfterTotal, historyVars, upstreamVars,
     SyncKeys, IInv, TypeInv
<1>2. t \in Locals
  BY DEF IInv, TypeInv, TypeOK
<1>3. /\ tick'[s].last = t.last /\ tick'[s].size = t.size
      /\ tick'[s].items = t.items
  <2>1. CASE PutTotal(s)
    BY <2>1, <1>2, GotoValue DEF PutTotal, Locals, IInv, TypeInv
  <2>2. CASE StampStart(s)
    BY <2>2, GotoValue DEF StampStart, IInv, TypeInv
  <2>3. QED
    BY <2>1, <2>2
<1>4. CycleInv'
  BY <1>1, CycleFrame, SyncAssumption DEF IInv, TypeInv, TypeOK
<1>5. QED
  BY <1>1, <1>3, <1>4 DEF IInv, SlotInv, CursorIsKnown, LockIsKnown, LockIsOurs,
     PageIsComplete, PageWasUpserted, ReleaseOrder, HasPage, LockIsSet, CursorCleared, KnowsPage

LEMMA UpsertStep ==
    ASSUME IInv, NEW s \in Slots, UpsertPage(s)
    PROVE  CycleInv' /\ SlotInv(s)'
<1> DEFINE t == tick[s]
<1>1. /\ pc[s] = "upsert" /\ pc'[s] = "putPage" /\ tick'[s] = t
      /\ seen' = seen \cup KeysOf(t.items) /\ sizes' = sizes \cup {t.size}
      /\ UNCHANGED <<Lcp, PageSize, owed, listed>>
  BY GotoValue DEF UpsertPage, upstreamVars, KeysOf, Lcp, PageSize, IInv, TypeInv
<1>2. PageSize = t.size
  BY <1>1 DEF IInv, SlotInv, LockIsOurs, LockIsSet
<1>3. CycleInv'
  BY <1>1, <1>2 DEF IInv, CycleInv, LockHeldMidCycle, ResumePoint, SizesAreLocked,
     OwedIsListed
<1>4. QED
  BY <1>1, <1>3 DEF IInv, SlotInv, CursorIsKnown, LockIsKnown, LockIsOurs, PageIsComplete,
     PageWasUpserted, ReleaseOrder, HasPage, LockIsSet, CursorCleared, KnowsPage

(* The cursor moves over one page, whose owed rows have been upserted.     *)
LEMMA PutPageCursor ==
    ASSUME IInv, NEW s \in Slots, PutPage(s)
    PROVE  /\ Lcp' = Lcp + 1 /\ tick[s].last = Lcp
           /\ UNCHANGED <<PageSize, seen, sizes, owed, listed>>
           /\ PageSize = tick[s].size /\ PageSize > 0
           /\ PageRows(Lcp + 1, PageSize) \cap 1..owed \subseteq seen
<1>1. pc[s] = "putPage"
  BY DEF PutPage, Goto, Return
<1>2. /\ tick[s].last = Lcp /\ tick[s].size = PageSize /\ tick[s].size > 0
      /\ PageRows(Lcp + 1, PageSize) \cap 1..owed \subseteq seen
  BY <1>1 DEF IInv, TypeInv, Counting, SlotInv, CursorIsKnown, LockIsOurs, PageIsComplete,
     PageWasUpserted, HasPage, LockIsSet, KnowsPage
<1>3. QED
  BY <1>2, SetValue DEF PutPage, SyncKeys, historyVars, upstreamVars, IInv, TypeInv

LEMMA PutPageStep ==
    ASSUME IInv, NEW s \in Slots, PutPage(s)
    PROVE  CycleInv' /\ SlotInv(s)'
<1> DEFINE t == tick[s]
<1>1. Lcp \in Nat /\ PageSize \in Nat /\ t \in Locals
  BY StateReads DEF IInv, TypeInv, TypeOK
<1>2. ResumePoint'
  <2>1. SUFFICES ASSUME NEW p \in 1..Lcp + 1
                 PROVE  PageRows(p, PageSize) \cap 1..owed \subseteq seen
    BY PutPageCursor DEF ResumePoint, PageRows
  <2>2. CASE p \in 1..Lcp
    BY <2>2 DEF IInv, ResumePoint
  <2>3. CASE p = Lcp + 1
    BY <2>3, PutPageCursor
  <2>4. QED
    BY <1>1, <2>2, <2>3
<1>3. CycleInv'
  BY <1>2, <1>1, PutPageCursor DEF IInv, CycleInv, LockHeldMidCycle, SizesAreLocked,
     OwedIsListed
<1>4. CASE pc'[s] \in {"putSynced", "idle"}
  BY <1>3, <1>4 DEF SlotInv, CursorIsKnown, LockIsKnown, LockIsOurs, PageIsComplete,
     PageWasUpserted, ReleaseOrder, HasPage, LockIsSet, CursorCleared, KnowsPage
<1>5. CASE pc'[s] = "fetch" /\ tick'[s] = NextPage(t)
  <2>1. NextPage(t).last = t.last + 1 /\ NextPage(t).size = t.size
    BY DEF NextPage
  <2>2. QED
    BY <2>1, <1>1, <1>3, <1>5, PutPageCursor DEF SlotInv, CursorIsKnown, LockIsKnown,
       LockIsOurs, PageIsComplete, PageWasUpserted, ReleaseOrder, HasPage, LockIsSet,
       CursorCleared
<1>6. QED
  BY <1>4, <1>5, GotoValue DEF PutPage, Return, IInv, TypeInv

(* With the cursor at 0 nothing is completed, so nothing is locked in.     *)
LEMMA ReleaseSteps ==
    ASSUME IInv, NEW s \in Slots,
           \/ ClearPage(s) \/ ClearTotal(s) \/ ClearSize(s)
           \/ ResetPage(s) \/ ResetTotal(s) \/ ResetSize(s)
    PROVE  CycleInv' /\ SlotInv(s)'
<1>1. /\ listed \in Nat /\ owed \in Nat /\ owed <= listed /\ listed' = listed
      /\ Lcp \in Nat /\ PageSize \in Nat
  BY SyncAssumption, StateReads DEF IInv, TypeInv, TypeOK, OwedIsListed, ClearPage,
     ClearTotal, ClearSize, ResetPage, ResetTotal, ResetSize, upstreamVars
<1>2. /\ Lcp' = 0 /\ sizes' = {} /\ owed' <= listed'
      /\ pc'[s] \in {"clearTotal", "clearSize", "idle", "resetTotal", "resetSize",
                     "resetStart"}
  <2>1. CASE ClearPage(s) \/ ResetPage(s)
    BY <2>1, <1>1, GotoValue, SetValue DEF ClearPage, ResetPage, BeginCycle, SyncKeys, IInv,
       TypeInv
  <2>2. CASE ClearTotal(s) \/ ResetTotal(s)
    <3>1. Lcp = 0 /\ sizes = {}
      BY <2>2 DEF ClearTotal, ResetTotal, Goto, IInv, SlotInv, ReleaseOrder, CursorCleared
    <3>2. QED
      BY <2>2, <3>1, <1>1, GotoValue, SetValue DEF ClearTotal, ResetTotal, historyVars,
         SyncKeys, IInv, TypeInv
  <2>3. CASE ClearSize(s) \/ ResetSize(s)
    <3>1. Lcp = 0 /\ sizes = {}
      BY <2>3 DEF ClearSize, ResetSize, Return, Goto, IInv, SlotInv, ReleaseOrder,
         CursorCleared
    <3>2. QED
      BY <2>3, <3>1, <1>1, GotoValue, SetValue DEF ClearSize, ResetSize, Return,
         historyVars, SyncKeys, IInv, TypeInv
  <2>4. QED
    BY <2>1, <2>2, <2>3
<1>3. CycleInv'
  BY <1>1, <1>2 DEF CycleInv, LockHeldMidCycle, ResumePoint, SizesAreLocked, OwedIsListed
<1>4. QED
  BY <1>2, <1>3 DEF SlotInv, CursorIsKnown, LockIsKnown, LockIsOurs, PageIsComplete,
     PageWasUpserted, ReleaseOrder, HasPage, LockIsSet, CursorCleared, KnowsPage

(* Seeds, new rows and revisions move no slot and no counter of a cycle.   *)
LEMMA EnvironmentSteps ==
    ASSUME IInv,
           \/ \E rows \in SeedSets : Seed(rows)
           \/ Publish
           \/ \E r \in 1..listed : Revise(r)
    PROVE  CycleInv' /\ \A s \in Slots : SlotInv(s)'
<1>1. /\ UNCHANGED <<Lcp, PageSize, seen, sizes, owed, pc, tick>>
      /\ listed' \in Nat /\ listed' >= listed
  <2>1. listed \in Nat
    BY SyncAssumption DEF IInv, TypeInv, TypeOK
  <2>2. CASE \E rows \in SeedSets : Seed(rows)
    BY <2>1, <2>2, SetValue DEF Seed, SeedForTesting, SyncKeys, upstreamVars, slotVars,
       historyVars, IInv, TypeInv
  <2>3. CASE Publish \/ \E r \in 1..listed : Revise(r)
    BY <2>1, <2>3 DEF Publish, Revise, storeVars, slotVars, historyVars, Lcp, PageSize
  <2>4. QED
    BY <2>2, <2>3
<1>2. CycleInv'
  BY <1>1, CycleFrame
<1>3. ASSUME NEW s \in Slots PROVE SlotInv(s)'
  BY <1>1 DEF IInv, SlotInv, CursorIsKnown, LockIsKnown, LockIsOurs, PageIsComplete,
     PageWasUpserted, ReleaseOrder
<1>4. QED
  BY <1>2, <1>3

LEMMA InvInit == Init => IInv
<1> SUFFICES ASSUME Init PROVE IInv
  OBVIOUS
<1>1. TypeInv
  BY InitType DEF Init, TypeInv, Counting, KnowsPage
<1>2. Lcp = 0 /\ PageSize = 0 /\ owed = listed /\ sizes = {} /\ owed \in Nat
  BY SyncAssumption DEF Init, StoreInit, Lcp, PageSize, SyncKeys
<1>3. UpstreamIsKeyed
  BY DEF Init, UpstreamIsKeyed
<1>4. \A s \in Slots : SlotInv(s)
  BY DEF Init, SlotInv, CursorIsKnown, LockIsKnown, LockIsOurs, PageIsComplete,
     PageWasUpserted, ReleaseOrder, HasPage, LockIsSet, CursorCleared, KnowsPage
<1>5. QED
  BY <1>1, <1>2, <1>3, <1>4 DEF IInv, LockHeldMidCycle, ResumePoint, SizesAreLocked,
     OwedIsListed

LEMMA InvStep ==
    ASSUME AtMostOneSlot, IInv, [Next]_vars
    PROVE  IInv'
<1>1. TypeInv' /\ UpstreamIsKeyed'
  BY StepType, UpstreamStep DEF IInv, TypeInv
<1>2. ASSUME NEW s \in Slots,
             \/ \E size \in PageSizes, pages \in PagesPerTick : StartTick(s, size, pages)
             \/ TickStep(s) \/ StartReset(s) \/ ResetStep(s) \/ Kill(s)
      PROVE  IInv'
  <2>1. CycleInv' /\ SlotInv(s)'
    BY <1>2, ReadSteps, ForgetfulSteps, FetchStep, LockSizeStep, HeaderSteps, UpsertStep,
       PutPageStep, ReleaseSteps DEF TickStep, ResetStep
  <2>2. QED
    BY <1>1, <2>1, OnlySlot
<1>3. CASE UNCHANGED vars
  BY <1>1, <1>3 DEF vars, IInv, LockHeldMidCycle, ResumePoint, SizesAreLocked, OwedIsListed,
     SlotInv, CursorIsKnown, LockIsKnown, LockIsOurs, PageIsComplete, PageWasUpserted,
     ReleaseOrder, Lcp, PageSize
<1>4. CASE \/ \E rows \in SeedSets : Seed(rows)
           \/ Publish
           \/ \E r \in 1..listed : Revise(r)
  BY <1>1, <1>4, EnvironmentSteps DEF IInv, CycleInv
<1>5. QED
  BY <1>2, <1>3, <1>4 DEF Next

(* Without overlap IInv holds of every behaviour (runSyncTick and          *)
(* resetSyncCycle, killed anywhere).                                       *)
THEOREM InvCorrect ==
    ASSUME AtMostOneSlot
    PROVE  Spec => []IInv
<1>1. IInv /\ [Next]_vars => IInv'
  BY InvStep
<1>2. QED
  BY <1>1, InvInit, PTL DEF Spec

(* A cycle in progress has its page size on record, whatever died on the   *)
(* way: a tick that resumes it cannot choose another (pageSize lock).      *)
THEOREM LockCorrect ==
    ASSUME AtMostOneSlot
    PROVE  Spec => []LockHeldMidCycle
<1>1. IInv => LockHeldMidCycle
  BY DEF IInv
<1>2. QED
  BY <1>1, InvCorrect, PTL

(* All the pages of a cycle are fetched with one page size (pageSize lock).*)
THEOREM OneSizeCorrect ==
    ASSUME AtMostOneSlot
    PROVE  Spec => []OneSizePerCycle
<1>1. IInv => OneSizePerCycle
  BY DEF IInv, SizesAreLocked, OneSizePerCycle
<1>2. QED
  BY <1>1, InvCorrect, PTL

(* Resuming after last_completed_page skips no owed row (runSyncTick's     *)
(* resume point), however many ticks, kills and new rows a cycle spans.    *)
THEOREM ResumeCorrect ==
    ASSUME AtMostOneSlot
    PROVE  Spec => []ResumePoint
<1>1. IInv => ResumePoint
  BY DEF IInv
<1>2. QED
  BY <1>1, InvCorrect, PTL

(* The cursor only leaves where it stands for 0, or by PutPage.            *)
LEMMA CursorFrame ==
    ASSUME IInv, [Next]_vars
    PROVE  Lcp' \in {0, Lcp} \/ \E s \in Slots : PutPage(s)
<1>1. ASSUME NEW s \in Slots,
             \/ \E size \in PageSizes, pages \in PagesPerTick : StartTick(s, size, pages)
             \/ ReadPage(s) \/ ReadTotal(s) \/ ReadSize(s) \/ FetchPage(s)
             \/ FetchFails(s) \/ UpsertPage(s) \/ StartReset(s) \/ Kill(s)
      PROVE  Lcp' = Lcp
  BY <1>1 DEF Lcp, StartTick, ReadPage, ReadTotal, ReadSize, FetchPage, FetchFails,
     UpsertPage, StartReset, Kill, storeVars
<1>2. ASSUME NEW s \in Slots,
             \/ LockSize(s) \/ PutTotal(s) \/ StampStart(s) \/ PutSynced(s)
             \/ ClearPage(s) \/ ClearTotal(s) \/ ClearSize(s) \/ ResetStep(s)
      PROVE  Lcp' \in {0, Lcp}
  BY <1>2, SetValue DEF LockSize, PutTotal, StampStart, PutSynced, ClearPage, ClearTotal,
     ClearSize, ResetStep, ResetPage, ResetTotal, ResetSize, ResetStart, BeginCycle,
     SyncKeys, IInv, TypeInv
<1>3. ASSUME \/ \E rows \in SeedSets : Seed(rows)
             \/ Publish
             \/ \E r \in 1..listed : Revise(r)
             \/ UNCHANGED vars
      PROVE  Lcp' = Lcp
  BY <1>3, SetValue DEF Seed, SeedForTesting, Publish, Revise, storeVars, Lcp, SyncKeys,
     IInv, TypeInv, vars
<1>4. QED
  BY <1>1, <1>2, <1>3 DEF Next, TickStep

(* The cursor goes up one page at a time and only back to 0 (upsert,       *)
(* last_completed_page, release), as long as ticks do not overlap.         *)
THEOREM CursorCorrect ==
    ASSUME AtMostOneSlot
    PROVE  Spec => CursorNeverFallsBack
<1>1. IInv /\ [Next]_vars => [CursorStep]_vars
  BY CursorFrame, PutPageCursor DEF CursorStep
<1>2. QED
  BY <1>1, InvCorrect, PTL DEF Spec, CursorNeverFallsBack
============================================================================
