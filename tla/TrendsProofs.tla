----------------------------- MODULE TrendsProofs -----------------------------
(* A difference on the trends page is computed in a view that covers both    *)
(* its dates, for any dates, any number of DuckDB workers, and any number of *)
(* events, reloads and failures.                                             *)
EXTENDS Pages, TLAPS, SequenceTheorems

\* Where a call of the trends page waits: with a job in its hands, with a
\* connection of its own, and in the queue of that connection's worker.
WithJob == {"engine", "connect", "snapshot", "register", "view", "trend", "diff"}
WithConn == WithJob \ {"engine"}
InQueue == {"view", "trend", "diff"}

DateSets == SUBSET Trends!DateSet
Jobs == [fn : {"main", "lazyDiff"}, dates : Seq(Trends!DateSet), next : Nat \ {0},
         conn : {None} \cup Engines, over : DateSets]
TrendsCalls == [at : {"manifest", "summary"} \cup WithJob, sel : {None} \cup Jobs,
                on : {None} \cup Awaited, caught : BOOLEAN]
TrendsStates == [from : {None} \cup Trends!DateSet, to : {None} \cup Trends!DateSet,
                 db : {None} \cup Engines, conn : {None} \cup Engines,
                 registered : DateSets, started : SUBSET Engines,
                 files : [Engines -> DateSets], view : [Engines -> DateSets]]

Covers(over, dates) == \A k \in 1..Len(dates) : dates[k] \in over

\* What a job knows: the dates before the next one are registered.
JobInv(job, st) ==
    /\ job \in Jobs
    /\ \A k \in 1..Len(job.dates) : k < job.next => job.dates[k] \in st.registered

\* What a call knows at its await: a view is asked for over dates that are
\* registered, its own among them; a difference finds its own in the view.
CallInv(c, st) ==
    /\ c.at \in WithJob => JobInv(c.sel, st)
    /\ c.at \in WithConn => c.sel.conn \in Engines
    /\ c.at \in {"snapshot", "register"} => c.sel.next \in 1..Len(c.sel.dates)
    /\ c.at \in InQueue => c.on = c.sel.conn
    /\ c.at = "view" => c.sel.over \subseteq st.registered /\ Covers(c.sel.over, c.sel.dates)
    /\ c.at = "diff" => Covers(st.view[c.sel.conn], c.sel.dates)

\* What holds between a call and one that came after it: views grow, and a
\* view that is asked for spoils no difference behind it in the queue.
PairInv(c, d) ==
    c.at = "view" =>
        /\ d.at = "view" => c.sel.over \subseteq d.sel.over
        /\ d.at = "diff" /\ d.sel.conn = c.sel.conn => Covers(c.sel.over, d.sel.dates)

CallsInv(cs, st) ==
    /\ cs \in Seq(TrendsCalls)
    /\ \A i \in 1..Len(cs) : CallInv(cs[i], st)
    /\ \A i, j \in 1..Len(cs) : i < j => PairInv(cs[i], cs[j])

CardsInv(cards) ==
    \A d, e \in Trends!DateSet, over \in DateSets :
        cards = Trends!Diff(<<d, e>>, over) => {d, e} \subseteq over

TrendsInv ==
    /\ state \in TrendsStates
    /\ DOMAIN shown = Trends!Elements
    /\ CardsInv(shown["diff-cards"])
    /\ CallsInv(calls, state)

IInv == page = "trends" => TrendsInv

-----------------------------------------------------------------------------
(* Sequences of calls                                                        *)

\* The calls without the i-th, in their order.
LEMMA OthersInOrder ==
    ASSUME NEW S, NEW cs \in Seq(S), NEW i \in 1..Len(cs)
    PROVE  LET rest == SubSeq(cs, 1, i - 1) \o SubSeq(cs, i + 1, Len(cs))
           IN  /\ rest \in Seq(S)
               /\ Len(rest) = Len(cs) - 1
               /\ \A k \in 1..(Len(cs) - 1) : rest[k] = cs[IF k < i THEN k ELSE k + 1]
<1> DEFINE before == SubSeq(cs, 1, i - 1)
           after == SubSeq(cs, i + 1, Len(cs))
<1>1. /\ before \in Seq(S) /\ Len(before) = i - 1
      /\ \A k \in 1..(i - 1) : before[k] = cs[k]
  OBVIOUS
<1>2. /\ after \in Seq(S) /\ Len(after) = Len(cs) - i
      /\ \A k \in 1..(Len(cs) - i) : after[k] = cs[k + i]
  OBVIOUS
<1>3. Len(cs) \in Nat
  OBVIOUS
<1> HIDE DEF before, after
<1>4. /\ before \o after \in Seq(S) /\ Len(before \o after) = Len(before) + Len(after)
      /\ \A k \in 1..Len(before) + Len(after) : (before \o after)[k] =
             IF k <= Len(before) THEN before[k] ELSE after[k - Len(before)]
  BY <1>1, <1>2, ConcatProperties
<1>5. ASSUME NEW k \in 1..(Len(cs) - 1)
      PROVE  (before \o after)[k] = cs[IF k < i THEN k ELSE k + 1]
  BY <1>1, <1>2, <1>3, <1>4
<1>6. Len(before \o after) = Len(cs) - 1
  BY <1>1, <1>2, <1>3, <1>4
<1>7. QED
  BY <1>4, <1>5, <1>6 DEF before, after

\* A call ends: the others keep their order.
LEMMA RemoveKeeps ==
    ASSUME NEW st, NEW cs, CallsInv(cs, st), NEW i \in 1..Len(cs),
           NEW rest, rest = SubSeq(cs, 1, i - 1) \o SubSeq(cs, i + 1, Len(cs))
    PROVE  CallsInv(rest, st)
<1> DEFINE Was(k) == IF k < i THEN k ELSE k + 1
<1>1. cs \in Seq(TrendsCalls)
  BY DEF CallsInv
<1>2. /\ rest \in Seq(TrendsCalls)
      /\ Len(rest) = Len(cs) - 1
      /\ \A k \in 1..Len(rest) : rest[k] = cs[Was(k)]
  BY <1>1, OthersInOrder
<1>3. \A n \in Nat : n = Len(cs) =>
          /\ \A k \in 1..(n - 1) : Was(k) \in 1..n
          /\ \A j, k \in 1..(n - 1) : j < k => Was(j) < Was(k)
  OBVIOUS
<1>4. Len(cs) \in Nat
  BY <1>1
<1> HIDE DEF Was
<1>5. /\ \A k \in 1..Len(rest) : Was(k) \in 1..Len(cs)
      /\ \A j, k \in 1..Len(rest) : j < k => Was(j) < Was(k)
  BY <1>2, <1>3, <1>4
<1>6. \A k \in 1..Len(rest) : CallInv(rest[k], st)
  BY <1>2, <1>5 DEF CallsInv
<1>7. \A j, k \in 1..Len(rest) : j < k => PairInv(rest[j], rest[k])
  BY <1>2, <1>5 DEF CallsInv
<1>8. QED
  BY <1>2, <1>6, <1>7 DEF CallsInv

\* A call begins to wait behind all others.
LEMMA AppendKeeps ==
    ASSUME NEW st, NEW cs, CallsInv(cs, st), NEW c \in TrendsCalls, CallInv(c, st),
           \A k \in 1..Len(cs) : PairInv(cs[k], c)
    PROVE  CallsInv(Append(cs, c), st)
<1>1. cs \in Seq(TrendsCalls)
  BY DEF CallsInv
<1>2. /\ Append(cs, c) \in Seq(TrendsCalls)
      /\ Len(Append(cs, c)) = Len(cs) + 1
      /\ Append(cs, c)[Len(cs) + 1] = c
      /\ \A k \in 1..Len(cs) : Append(cs, c)[k] = cs[k]
  BY <1>1
<1>3. \A k \in 1..Len(Append(cs, c)) : CallInv(Append(cs, c)[k], st)
  BY <1>1, <1>2 DEF CallsInv
<1>4. \A j, k \in 1..Len(Append(cs, c)) : j < k => PairInv(Append(cs, c)[j], Append(cs, c)[k])
  BY <1>1, <1>2 DEF CallsInv
<1>5. QED
  BY <1>2, <1>3, <1>4 DEF CallsInv

\* More dates may be registered, as long as the views stay.
LEMMA GrowKeeps ==
    ASSUME NEW st, NEW st2, NEW cs, CallsInv(cs, st),
           st.registered \subseteq st2.registered, st2.view = st.view
    PROVE  CallsInv(cs, st2)
<1>1. ASSUME NEW c, CallInv(c, st) PROVE CallInv(c, st2)
  BY <1>1 DEF CallInv, JobInv
<1>2. QED
  BY <1>1 DEF CallsInv

-----------------------------------------------------------------------------
(* ensureDates                                                               *)

\* The loop over the dates of a job goes on, with a snapshot or with the view.
LEMMA LoopKeeps ==
    ASSUME NEW st \in TrendsStates, NEW cs, CallsInv(cs, st),
           NEW job, JobInv(job, st), job.conn \in Engines,
           NEW caught \in BOOLEAN, Trends!LoopOn(cs, job, st.registered, caught)
    PROVE  CallsInv(calls', st)
<1> DEFINE left == Trends!Left(job, st.registered)
<1>1. job \in Jobs /\ job.next \in Nat \ {0} /\ job.dates \in Seq(Trends!DateSet)
  BY DEF JobInv, Jobs
<1>2. st.registered \in DateSets
  BY DEF TrendsStates
<1>3. CASE left = {}
  <2> DEFINE c == Call("view", [job EXCEPT !.over = st.registered], job.conn, caught)
  <2>1. calls' = Append(cs, c)
    BY <1>3 DEF Trends!LoopOn, Trends!AskView, Call, Trends!Call
  <2>2. [job EXCEPT !.over = st.registered] \in Jobs
    BY <1>1, <1>2 DEF Jobs
  <2>3. c \in TrendsCalls
    BY <2>2 DEF TrendsCalls, Call, WithJob, Awaited
  <2>4. /\ c.at = "view" /\ c.on = job.conn
        /\ c.sel.over = st.registered /\ c.sel.dates = job.dates
        /\ c.sel.next = job.next /\ c.sel.conn = job.conn /\ c.sel \in Jobs
    BY <1>1, <2>2 DEF Call, Jobs
  <2>5. Covers(st.registered, job.dates)
    <3> SUFFICES ASSUME NEW k \in 1..Len(job.dates) PROVE job.dates[k] \in st.registered
      BY DEF Covers
    <3>1. CASE k < job.next
      BY <3>1 DEF JobInv
    <3>2. CASE ~(k < job.next)
      <4>1. k \in job.next..Len(job.dates)
        BY <1>1, <3>2
      <4>2. QED
        BY <1>3, <4>1 DEF Trends!Left
    <3>3. QED
      BY <3>1, <3>2
  <2> HIDE DEF c
  <2>6. CallInv(c, st)
    BY <2>4, <2>5 DEF CallInv, JobInv, InQueue
  <2>7. \A k \in 1..Len(cs) : PairInv(cs[k], c)
    BY <2>4 DEF PairInv, CallsInv, CallInv
  <2>8. QED
    BY <2>1, <2>3, <2>6, <2>7, AppendKeeps
<1>4. CASE left # {}
  <2>1. PICK k \in left :
            /\ \A j \in left : k <= j
            /\ calls' = Append(cs, Call("snapshot", [job EXCEPT !.next = k], "fetchT", caught))
    BY <1>4 DEF Trends!LoopOn, Trends!AskSnapshot, Call, Trends!Call
  <2> DEFINE c == Call("snapshot", [job EXCEPT !.next = k], "fetchT", caught)
  <2>2. k \in Nat /\ k \in job.next..Len(job.dates)
    BY <1>1 DEF Trends!Left
  <2>3. [job EXCEPT !.next = k] \in Jobs
    BY <1>1, <2>2 DEF Jobs
  <2>4. c \in TrendsCalls
    BY <2>3 DEF TrendsCalls, Call, WithJob, Awaited
  <2>5. /\ c.at = "snapshot" /\ c.sel \in Jobs /\ c.sel.next = k
        /\ c.sel.dates = job.dates /\ c.sel.conn = job.conn
    BY <1>1, <2>3 DEF Call, Jobs
  <2>6. ASSUME NEW j \in 1..Len(job.dates), j < k PROVE job.dates[j] \in st.registered
    <3>1. CASE j < job.next
      BY <3>1 DEF JobInv
    <3>2. CASE ~(j < job.next)
      <4>1. j \in job.next..Len(job.dates) /\ ~(k <= j)
        BY <1>1, <2>2, <2>6, <3>2
      <4>2. QED
        BY <2>1, <4>1 DEF Trends!Left
    <3>3. QED
      BY <3>1, <3>2
  <2> HIDE DEF c
  <2>7. CallInv(c, st)
    BY <1>1, <2>2, <2>5, <2>6 DEF CallInv, JobInv, InQueue
  <2>8. \A n \in 1..Len(cs) : PairInv(cs[n], c)
    BY <2>5 DEF PairInv
  <2>9. QED
    BY <2>1, <2>4, <2>7, <2>8, AppendKeeps DEF c
<1>5. QED
  BY <1>3, <1>4

\* A call that goes on to an await at which it knows no view.
LEMMA MoveKeeps ==
    ASSUME NEW st, NEW i \in 1..Len(calls), CallsInv(calls, st),
           NEW c \in TrendsCalls, CallInv(c, st), c.at \notin {"view", "diff"}
    PROVE  CallsInv(Append(Others(i), c), st)
<1>1. CallsInv(Others(i), st)
  BY RemoveKeeps DEF Others
<1>2. \A k \in 1..Len(Others(i)) : PairInv(Others(i)[k], c)
  BY DEF PairInv
<1>3. QED
  BY <1>1, <1>2, AppendKeeps

\* The dates of the two lists.
LEMMA DatesOfLists == Trends!DateOne \in Trends!DateSet /\ Trends!DateLast \in Trends!DateSet
<1>1. Dates \in Seq(Trends!DateSet) /\ Dates # <<>>
  BY PagesAssumption
<1> HIDE PagesAssumption
<1>2. Len(Dates) \in Nat /\ Len(Dates) # 0
  BY <1>1
<1>3. Dates[1] \in Trends!DateSet /\ Dates[Len(Dates)] \in Trends!DateSet
  BY <1>1, <1>2
<1>4. QED
  BY <1>3 DEF Trends!DateOne, Trends!DateLast

\* A job that begins knows nothing yet.
LEMMA NewJob ==
    ASSUME NEW fn \in {"main", "lazyDiff"}, NEW dates \in Seq(Trends!DateSet), NEW st
    PROVE  /\ Trends!Job(fn, dates) \in Jobs
           /\ JobInv(Trends!Job(fn, dates), st)
<1>1. Trends!Job(fn, dates) \in Jobs
  BY DEF Trends!Job, Jobs, DateSets
<1>2. QED
  BY <1>1 DEF JobInv, Trends!Job

\* A job begins: with the connection there is, or by opening an engine.
LEMMA EnsureKeeps ==
    ASSUME NEW cs, state \in TrendsStates, CallsInv(cs, state),
           NEW fn \in {"main", "lazyDiff"}, NEW dates \in Seq(Trends!DateSet),
           Trends!ensureDates(Trends!Job(fn, dates), cs)
    PROVE  CallsInv(calls', state)
<1> DEFINE job == Trends!Job(fn, dates)
<1>1. job \in Jobs /\ JobInv(job, state)
  BY NewJob
<1> HIDE DEF job
<1>2. CASE state.conn = None
  <2> DEFINE c == Call("engine", job, "cdn", TRUE)
  <2>1. calls' = Append(cs, c)
    BY <1>2 DEF Trends!ensureDates, Call, Trends!Call, job
  <2>2. c \in TrendsCalls /\ c.at = "engine" /\ c.sel = job
    BY <1>1 DEF TrendsCalls, Call, WithJob, Awaited, Untimed
  <2> HIDE DEF c
  <2>3. CallInv(c, state) /\ \A k \in 1..Len(cs) : PairInv(cs[k], c)
    BY <1>1, <2>2 DEF CallInv, PairInv, WithConn, InQueue
  <2>4. QED
    BY <2>1, <2>2, <2>3, AppendKeeps
<1>3. CASE state.conn # None
  <2> DEFINE j == [job EXCEPT !.conn = state.conn]
  <2>1. state.conn \in Engines
    BY <1>3 DEF TrendsStates
  <2>2. /\ j \in Jobs /\ j.conn \in Engines /\ j.dates = job.dates /\ j.next = job.next
    BY <1>1, <2>1 DEF Jobs
  <2>3. Trends!LoopOn(cs, j, state.registered, TRUE)
    BY <1>3 DEF Trends!ensureDates, job
  <2> HIDE DEF j
  <2>4. JobInv(j, state)
    BY <1>1, <2>2 DEF JobInv
  <2>5. QED
    BY <2>2, <2>3, <2>4, LoopKeeps
<1>4. QED
  BY <1>2, <1>3

-----------------------------------------------------------------------------
(* The cards                                                                 *)

\* A note is no difference.
LEMMA NoteIsSafe == ASSUME NEW text PROVE CardsInv(Trends!Note(text))
  BY DEF CardsInv, Trends!Note, Trends!Diff

\* Setting the cards sets nothing else.
LEMMA CardsSet ==
    ASSUME NEW sh, DOMAIN sh = Trends!Elements, NEW v
    PROVE  /\ DOMAIN Trends!Cards(v, sh) = Trends!Elements
           /\ Trends!Cards(v, sh)["diff-cards"] = v
  BY DEF Trends!Cards, Trends!Elements

\* lazyDiff begins.
LEMMA LazyDiffKeeps ==
    ASSUME NEW cs, state \in TrendsStates, CallsInv(cs, state),
           NEW sh, DOMAIN sh = Trends!Elements,
           NEW from \in Trends!DateSet, NEW to \in Trends!DateSet,
           Trends!lazyDiff(from, to, cs, sh)
    PROVE  /\ CallsInv(calls', state)
           /\ DOMAIN shown' = Trends!Elements
           /\ CardsInv(shown'["diff-cards"])
<1>1. CASE from = to
  BY <1>1, CardsSet, NoteIsSafe DEF Trends!lazyDiff
<1>2. CASE from # to
  <2>1. shown' = Trends!Cards(Trends!Note("computing"), sh)
    BY <1>2 DEF Trends!lazyDiff
  <2>2. Trends!ensureDates(Trends!Job("lazyDiff", <<from, to>>), cs)
    BY <1>2 DEF Trends!lazyDiff
  <2>3. <<from, to>> \in Seq(Trends!DateSet)
    OBVIOUS
  <2>4. CallsInv(calls', state)
    BY <2>2, <2>3, EnsureKeeps
  <2>5. QED
    BY <2>1, <2>4, CardsSet, NoteIsSafe
<1>3. QED
  BY <1>1, <1>2

-----------------------------------------------------------------------------
(* The steps of the page                                                     *)

\* The calls are as the invariant says, also without one of them.
LEMMA CallsAreSequence ==
    ASSUME TrendsInv
    PROVE  /\ calls \in Seq(TrendsCalls)
           /\ \A i \in DOMAIN calls : i \in 1..Len(calls) /\ CallInv(calls[i], state)
           /\ \A i \in DOMAIN calls : Trends!Others(i) = Others(i)
           /\ \A i \in DOMAIN calls : CallsInv(Others(i), state)
<1>1. calls \in Seq(TrendsCalls)
  BY DEF TrendsInv, CallsInv
<1>2. ASSUME NEW i \in DOMAIN calls
      PROVE  /\ i \in 1..Len(calls) /\ CallInv(calls[i], state)
             /\ Trends!Others(i) = Others(i)
             /\ CallsInv(Others(i), state)
  <2>1. i \in 1..Len(calls)
    BY <1>1
  <2>2. CallsInv(calls, state)
    BY DEF TrendsInv
  <2>3. QED
    BY <2>1, <2>2, RemoveKeeps DEF Others, Trends!Others, CallsInv
<1>3. QED
  BY <1>1, <1>2

\* A call that waits for something else, and knows no view there.
LEMMA WaitsKeeps ==
    ASSUME TrendsInv, NEW st, NEW i \in DOMAIN calls, CallsInv(calls, st),
           NEW at \in {"summary", "connect", "register"}, NEW sel, NEW on \in {None} \cup Awaited,
           IF at = "summary" THEN sel = None ELSE JobInv(sel, st) /\ sel.conn \in Engines,
           at = "register" => sel.next \in 1..Len(sel.dates),
           Trends!WaitsNext(i, at, sel, on)
    PROVE  CallsInv(calls', st)
<1> DEFINE c == Call(at, sel, on, calls[i].caught)
<1>1. calls \in Seq(TrendsCalls) /\ i \in 1..Len(calls)
  BY CallsAreSequence
<1>2. calls[i].caught \in BOOLEAN
  <2>1. calls[i] \in TrendsCalls
    BY <1>1
  <2>2. QED
    BY <2>1 DEF TrendsCalls
<1>3. sel \in {None} \cup Jobs
  BY DEF JobInv
<1>4. c \in TrendsCalls
  BY <1>2, <1>3 DEF TrendsCalls, Call, WithJob
<1>5. c.at = at /\ c.sel = sel
  BY DEF Call
<1>6. calls' = Append(Others(i), c)
  BY CallsAreSequence DEF Trends!WaitsNext, Trends!Call, Call
<1> HIDE DEF c
<1>7. CallInv(c, st)
  BY <1>5 DEF CallInv, WithJob, WithConn, InQueue
<1>8. QED
  BY <1>1, <1>4, <1>5, <1>6, <1>7, MoveKeeps

\* The manifest arrives.
LEMMA loadManifestKeeps ==
    ASSUME TrendsInv, NEW i \in DOMAIN calls, Trends!loadManifest(i)
    PROVE  TrendsInv'
<1>1. state' = state /\ shown' = shown
  BY DEF Trends!loadManifest
<1>2. CallsInv(calls, state)
  BY DEF TrendsInv
<1>3. CASE calls' = Trends!Others(i)
  BY <1>1, <1>3, CallsAreSequence DEF TrendsInv
<1>4. CASE Trends!WaitsNext(i, "summary", None, "fetchT")
  <2>1. CallsInv(calls', state)
    BY <1>2, <1>4, WaitsKeeps DEF Awaited
  <2>2. QED
    BY <1>1, <2>1 DEF TrendsInv
<1>5. QED
  BY <1>3, <1>4 DEF Trends!loadManifest

\* Everything but the difference is drawn.
LEMMA RenderTrendsKeeps ==
    ASSUME TrendsInv, NEW i \in DOMAIN calls, Trends!RenderTrends(Trends!Others(i))
    PROVE  TrendsInv'
<1> DEFINE st == [state EXCEPT !.from = Trends!DateOne, !.to = Trends!DateLast]
           sh == Trends!Draw(<<Trends!renderKpi, Trends!renderTrend, Trends!renderHealth>>, shown, None)
<1>1. state' = st
  BY DEF Trends!RenderTrends
<1>2. st \in TrendsStates /\ st.registered = state.registered /\ st.view = state.view
  BY DatesOfLists DEF TrendsInv, TrendsStates
<1>3. DOMAIN sh = Trends!Elements
  BY DEF Trends!Draw, TrendsInv
<1>4. CallsInv(Others(i), state)
  BY CallsAreSequence
<1>5. Trends!lazyDiff(Trends!DateOne, Trends!DateLast, Others(i), sh)
  BY CallsAreSequence DEF Trends!RenderTrends
<1> HIDE DEF sh
<1>6. /\ CallsInv(calls', state) /\ DOMAIN shown' = Trends!Elements
      /\ CardsInv(shown'["diff-cards"])
  BY <1>3, <1>4, <1>5, DatesOfLists, LazyDiffKeeps DEF TrendsInv
<1>7. CallsInv(calls', st)
  BY <1>2, <1>6, GrowKeeps
<1>8. QED
  BY <1>1, <1>2, <1>6, <1>7 DEF TrendsInv

\* The summary arrives, or all snapshots are asked for.
LEMMA loadSummaryKeeps ==
    ASSUME TrendsInv, NEW i \in DOMAIN calls, Trends!loadSummary(i)
    PROVE  TrendsInv'
<1>1. CASE Trends!RenderTrends(Trends!Others(i))
  BY <1>1, RenderTrendsKeeps
<1>2. CASE /\ Trends!ensureDates(Trends!Job("main", Dates), Trends!Others(i))
           /\ UNCHANGED <<state, shown, status>>
  <2>1. CallsInv(Others(i), state) /\ Trends!Others(i) = Others(i)
    BY CallsAreSequence
  <2>2. Dates \in Seq(Trends!DateSet)
    BY PagesAssumption
  <2>3. state \in TrendsStates
    BY DEF TrendsInv
  <2>4. Trends!ensureDates(Trends!Job("main", Dates), Others(i))
    BY <1>2, <2>1
  <2>5. CallsInv(calls', state)
    BY <2>1, <2>2, <2>3, <2>4, EnsureKeeps
  <2>6. QED
    BY <1>2, <2>5 DEF TrendsInv
<1>3. QED
  BY <1>1, <1>2 DEF Trends!loadSummary

\* What a call with a connection in its hands knows of its job.
LEMMA JobOfCall ==
    ASSUME TrendsInv, NEW i \in DOMAIN calls, calls[i].at \in WithJob
    PROVE  /\ JobInv(calls[i].sel, state) /\ calls[i].sel \in Jobs
           /\ calls[i].at \in WithConn => calls[i].sel.conn \in Engines
  BY CallsAreSequence DEF CallInv, JobInv

\* An engine is open: it replaces the one there was.
LEMMA initDuckDBKeeps ==
    ASSUME TrendsInv, NEW i \in DOMAIN calls, Trends!initDuckDB(i)
    PROVE  TrendsInv'
<1> DEFINE job == calls[i].sel
<1>1. JobInv(job, state) /\ job \in Jobs
  BY JobOfCall DEF Trends!initDuckDB, Trends!Resumes, WithJob
<1>2. PICK e \in Engines :
          /\ state' = [state EXCEPT !.started = @ \cup {e}, !.db = e]
          /\ Trends!WaitsNext(i, "connect", [job EXCEPT !.conn = e], e)
  BY DEF Trends!initDuckDB
<1> DEFINE st == [state EXCEPT !.started = @ \cup {e}, !.db = e]
<1>3. st \in TrendsStates /\ st.registered = state.registered /\ st.view = state.view
  BY DEF TrendsInv, TrendsStates
<1>4. CallsInv(calls, st)
  BY <1>3, GrowKeeps DEF TrendsInv
<1> DEFINE j == [job EXCEPT !.conn = e]
<1>5. j \in Jobs /\ j.conn = e /\ j.dates = job.dates /\ j.next = job.next
  BY <1>1 DEF Jobs
<1>6. Trends!WaitsNext(i, "connect", j, e) /\ state' = st /\ shown' = shown
  BY <1>2 DEF Trends!initDuckDB
<1> HIDE DEF st, j
<1>7. JobInv(j, st)
  BY <1>1, <1>3, <1>5 DEF JobInv
<1>8. CallsInv(calls', st)
  BY <1>4, <1>5, <1>6, <1>7, WaitsKeeps DEF Awaited
<1>9. QED
  BY <1>3, <1>6, <1>8 DEF TrendsInv

\* The engine is connected to, and the loop begins.
LEMMA ensureConnKeeps ==
    ASSUME TrendsInv, NEW i \in DOMAIN calls, Trends!ensureConn(i)
    PROVE  TrendsInv'
<1> DEFINE job == calls[i].sel
           st == [state EXCEPT !.conn = job.conn]
<1>1. JobInv(job, state) /\ job \in Jobs /\ job.conn \in Engines
  BY JobOfCall DEF Trends!ensureConn, Trends!Resumes, WithJob, WithConn
<1>2. st \in TrendsStates /\ st.registered = state.registered /\ st.view = state.view
  BY <1>1 DEF TrendsInv, TrendsStates
<1>3. state' = st /\ shown' = shown /\ Trends!LoopOn(Others(i), job, state.registered, TRUE)
  BY CallsAreSequence DEF Trends!ensureConn
<1>4. CallsInv(Others(i), state)
  BY CallsAreSequence
<1> HIDE DEF st, job
<1>5. CallsInv(calls', state)
  BY <1>1, <1>3, <1>4, LoopKeeps DEF TrendsInv
<1>6. CallsInv(calls', st)
  BY <1>2, <1>5, GrowKeeps
<1>7. QED
  BY <1>2, <1>3, <1>6 DEF TrendsInv

\* A snapshot arrives.
LEMMA SnapshotFetchedKeeps ==
    ASSUME TrendsInv, NEW i \in DOMAIN calls, Trends!SnapshotFetched(i)
    PROVE  TrendsInv'
<1>1. /\ JobInv(calls[i].sel, state) /\ calls[i].sel.conn \in Engines
      /\ calls[i].sel.next \in 1..Len(calls[i].sel.dates)
  BY JobOfCall, CallsAreSequence DEF CallInv, Trends!SnapshotFetched, Trends!Resumes, WithJob, WithConn
<1>2. state.db \in {None} \cup Awaited
  BY DEF TrendsInv, TrendsStates, Awaited
<1>3. Trends!WaitsNext(i, "register", calls[i].sel, state.db) /\ state' = state /\ shown' = shown
  BY DEF Trends!SnapshotFetched
<1>4. CallsInv(calls, state)
  BY DEF TrendsInv
<1>5. CallsInv(calls', state)
  BY <1>1, <1>2, <1>3, <1>4, WaitsKeeps
<1>6. QED
  BY <1>3, <1>5 DEF TrendsInv

\* A snapshot is registered, and the loop goes on.
LEMMA RegisteredKeeps ==
    ASSUME TrendsInv, NEW i \in DOMAIN calls, Trends!Registered(i)
    PROVE  TrendsInv'
<1> DEFINE job == calls[i].sel
           d == job.dates[job.next]
           st == [state EXCEPT !.registered = @ \cup {d}, !.files[calls[i].on] = @ \cup {d}]
<1>1. JobInv(job, state) /\ job \in Jobs /\ job.conn \in Engines
  BY JobOfCall DEF Trends!Registered, Trends!Resumes, WithJob, WithConn
<1>2. d \in Trends!DateSet
  <2>1. job.next \in 1..Len(job.dates)
    BY CallsAreSequence DEF CallInv, Trends!Registered, Trends!Resumes
  <2>2. QED
    BY <1>1, <2>1 DEF Jobs
<1>3. /\ state' = st /\ shown' = shown
      /\ Trends!LoopOn(Others(i), job, state.registered \cup {d}, TRUE)
  BY CallsAreSequence DEF Trends!Registered
<1> HIDE DEF d, job
<1>4. st \in TrendsStates /\ st.registered = state.registered \cup {d} /\ st.view = state.view
  BY <1>2 DEF TrendsInv, TrendsStates, DateSets
<1>5. CallsInv(Others(i), st)
  BY <1>4, CallsAreSequence, GrowKeeps
<1> HIDE DEF st
<1>6. JobInv(job, st)
  BY <1>1, <1>4 DEF JobInv
<1>7. CallsInv(calls', st)
  BY <1>1, <1>3, <1>4, <1>5, <1>6, LoopKeeps
<1>8. QED
  BY <1>3, <1>4, <1>7 DEF TrendsInv

\* A view is made: no earlier call waits for its engine, so all differences
\* that do were asked for later, over views that have at least its dates.
LEMMA ViewReplaced ==
    ASSUME TrendsInv, NEW i \in DOMAIN calls, Trends!Resumes(i, "view"),
           NEW st, st.registered = state.registered,
           \A e \in Engines : st.view[e] =
               IF e = calls[i].sel.conn THEN calls[i].sel.over ELSE state.view[e]
    PROVE  CallsInv(Others(i), st)
<1> DEFINE job == calls[i].sel
<1>1. /\ calls \in Seq(TrendsCalls) /\ i \in 1..Len(calls)
      /\ \A j \in 1..Len(calls) : CallInv(calls[j], state)
      /\ \A j, k \in 1..Len(calls) : j < k => PairInv(calls[j], calls[k])
  BY CallsAreSequence DEF TrendsInv, CallsInv
<1>2. calls[i].at = "view" /\ job.conn \in Engines /\ calls[i].on = job.conn
  BY <1>1 DEF CallInv, WithConn, WithJob, InQueue, Trends!Resumes
<1>3. \A j \in 1..(i - 1) : calls[j].on # job.conn
  BY <1>2 DEF Trends!Resumes, Trends!IsTurn
<1>4. ASSUME NEW j \in 1..Len(calls), j # i PROVE CallInv(calls[j], st)
  <2>1. CallInv(calls[j], state)
    BY <1>1
  <2>2. CASE calls[j].at = "diff" /\ calls[j].sel.conn = job.conn
    <3>1. calls[j].on = job.conn
      BY <2>1, <2>2 DEF CallInv, InQueue
    <3>2. i < j
      BY <1>1, <1>3, <1>4, <3>1
    <3>3. Covers(job.over, calls[j].sel.dates)
      BY <1>1, <1>2, <2>2, <3>2 DEF PairInv
    <3>4. QED
      BY <1>2, <2>1, <2>2, <3>3 DEF CallInv, JobInv
  <2>3. CASE ~(calls[j].at = "diff" /\ calls[j].sel.conn = job.conn)
    BY <2>1, <2>3 DEF CallInv, JobInv, WithConn, WithJob
  <2>4. QED
    BY <2>2, <2>3
<1> DEFINE rest == Others(i)
<1>5. /\ rest \in Seq(TrendsCalls) /\ Len(rest) = Len(calls) - 1
      /\ \A k \in 1..(Len(calls) - 1) : rest[k] = calls[IF k < i THEN k ELSE k + 1]
  BY <1>1, OthersInOrder DEF Others
<1>6. \A k \in 1..Len(rest) : \E j \in 1..Len(calls) : j # i /\ rest[k] = calls[j]
  <2> SUFFICES ASSUME NEW k \in 1..Len(rest)
               PROVE  \E j \in 1..Len(calls) : j # i /\ rest[k] = calls[j]
    OBVIOUS
  <2>1. CASE k < i
    BY <1>1, <1>5, <2>1
  <2>2. CASE ~(k < i)
    <3>1. k + 1 \in 1..Len(calls) /\ k + 1 # i
      BY <1>1, <1>5, <2>2
    <3>2. QED
      BY <1>5, <2>2, <3>1
  <2>3. QED
    BY <2>1, <2>2
<1>7. CallsInv(rest, state)
  BY CallsAreSequence
<1> HIDE DEF rest
<1>8. \A k \in 1..Len(rest) : CallInv(rest[k], st)
  BY <1>4, <1>6
<1>9. CallsInv(rest, st)
  BY <1>7, <1>8 DEF CallsInv
<1>10. QED
  BY <1>9 DEF rest

\* Behind a view that has been made only later calls wait for its engine.
LEMMA BehindTheView ==
    ASSUME TrendsInv, NEW i \in DOMAIN calls, Trends!Resumes(i, "view"),
           NEW k \in 1..Len(Others(i)), Others(i)[k].at = "view",
           Others(i)[k].sel.conn = calls[i].sel.conn
    PROVE  calls[i].sel.over \subseteq Others(i)[k].sel.over
<1>1. /\ calls \in Seq(TrendsCalls) /\ i \in 1..Len(calls)
      /\ \A j \in 1..Len(calls) : CallInv(calls[j], state)
      /\ \A j, n \in 1..Len(calls) : j < n => PairInv(calls[j], calls[n])
  BY CallsAreSequence DEF TrendsInv, CallsInv
<1>2. calls[i].at = "view" /\ calls[i].sel.conn \in Engines /\ calls[i].on = calls[i].sel.conn
  BY <1>1 DEF CallInv, WithConn, WithJob, InQueue, Trends!Resumes
<1>3. \A j \in 1..(i - 1) : calls[j].on # calls[i].sel.conn
  BY <1>2 DEF Trends!Resumes, Trends!IsTurn
<1>4. /\ Len(Others(i)) = Len(calls) - 1
      /\ \A n \in 1..(Len(calls) - 1) : Others(i)[n] = calls[IF n < i THEN n ELSE n + 1]
  BY <1>1, OthersInOrder DEF Others
<1>5. k \in 1..(Len(calls) - 1) /\ Len(calls) \in Nat
  BY <1>1, <1>4
<1>6. CASE k < i
  <2>1. k \in 1..(i - 1) /\ k \in 1..Len(calls) /\ Others(i)[k] = calls[k]
    BY <1>1, <1>4, <1>5, <1>6
  <2>2. calls[k].on = calls[i].sel.conn
    BY <1>1, <2>1 DEF CallInv, InQueue
  <2>3. QED
    BY <1>3, <2>1, <2>2
<1>7. CASE ~(k < i)
  <2>1. k + 1 \in 1..Len(calls) /\ i < k + 1 /\ Others(i)[k] = calls[k + 1]
    BY <1>1, <1>4, <1>5, <1>7
  <2>2. PairInv(calls[i], calls[k + 1])
    BY <1>1, <2>1
  <2>3. QED
    BY <1>2, <2>1, <2>2 DEF PairInv
<1>8. QED
  BY <1>6, <1>7

\* A view is made, or fails for lack of a file.
LEMMA ViewMadeKeeps ==
    ASSUME TrendsInv, NEW i \in DOMAIN calls, Trends!ViewMade(i)
    PROVE  TrendsInv'
<1> DEFINE job == calls[i].sel
           at == IF job.fn = "main" THEN "trend" ELSE "diff"
           c == Call(at, job, job.conn, calls[i].caught)
           st == [state EXCEPT !.view[job.conn] = job.over]
<1>1. Trends!Resumes(i, "view") /\ calls[i].at = "view"
  BY DEF Trends!ViewMade, Trends!Resumes
<1>2. /\ JobInv(job, state) /\ job \in Jobs /\ job.conn \in Engines
      /\ Covers(job.over, job.dates) /\ calls[i] \in TrendsCalls
  BY <1>1, JobOfCall, CallsAreSequence DEF CallInv, WithJob, WithConn
<1>3. CASE /\ state' = st /\ shown' = shown
           /\ Trends!WaitsNext(i, at, job, job.conn)
  <2>1. /\ st \in TrendsStates /\ st.registered = state.registered
        /\ \A e \in Engines : st.view[e] = IF e = job.conn THEN job.over ELSE state.view[e]
    BY <1>2 DEF TrendsInv, TrendsStates, Jobs, DateSets
  <2> HIDE DEF st
  <2>2. CallsInv(Others(i), st)
    BY <1>1, <2>1, ViewReplaced
  <2>3. calls[i].caught \in BOOLEAN
    BY <1>2 DEF TrendsCalls
  <2>4. c \in TrendsCalls
    BY <1>2, <2>3 DEF TrendsCalls, Call, WithJob, Awaited
  <2>5. c.at = at /\ at \in {"trend", "diff"} /\ c.sel = job /\ c.on = job.conn
    BY DEF Call
  <2>6. calls' = Append(Others(i), c)
    BY <1>3, CallsAreSequence DEF Trends!WaitsNext, Trends!Call, Call
  <2> HIDE DEF c, at
  <2>7. JobInv(job, st)
    BY <1>2, <2>1 DEF JobInv
  <2>8. CallInv(c, st)
    BY <1>2, <2>1, <2>5, <2>7 DEF CallInv
  <2>9. ASSUME NEW k \in 1..Len(Others(i)) PROVE PairInv(Others(i)[k], c)
    <3>1. CASE Others(i)[k].at = "view" /\ Others(i)[k].sel.conn = job.conn
      <4>1. job.over \subseteq Others(i)[k].sel.over
        BY <1>1, <3>1, BehindTheView
      <4>2. Covers(Others(i)[k].sel.over, job.dates)
        BY <1>2, <4>1 DEF Covers
      <4>3. QED
        BY <2>5, <4>2 DEF PairInv
    <3>2. CASE ~(Others(i)[k].at = "view" /\ Others(i)[k].sel.conn = job.conn)
      BY <2>5, <3>2 DEF PairInv
    <3>3. QED
      BY <3>1, <3>2
  <2>10. CallsInv(calls', st)
    BY <2>2, <2>4, <2>6, <2>8, <2>9, AppendKeeps
  <2>11. QED
    BY <1>3, <2>1, <2>10 DEF TrendsInv
<1>4. CASE Trends!Fails(i) /\ calls' = Trends!Others(i) /\ state' = state
  <2>1. DOMAIN shown' = Trends!Elements /\ CardsInv(shown'["diff-cards"])
    BY <1>4, CardsSet, NoteIsSafe DEF Trends!Fails, TrendsInv
  <2>2. CallsInv(calls', state)
    BY <1>4, CallsAreSequence
  <2>3. QED
    BY <1>4, <2>1, <2>2 DEF TrendsInv
<1>5. QED
  BY <1>3, <1>4 DEF Trends!ViewMade

\* A difference is of two dates that its view has.
LEMMA qDiffKeeps ==
    ASSUME TrendsInv, NEW i \in DOMAIN calls, Trends!qDiff(i)
    PROVE  TrendsInv'
<1> DEFINE job == calls[i].sel
           view == state.view[job.conn]
<1>1. job \in Jobs /\ job.conn \in Engines /\ Covers(view, job.dates)
  BY JobOfCall, CallsAreSequence DEF CallInv, WithJob, WithConn, Trends!qDiff, Trends!Resumes
<1>2. /\ shown' = Trends!Cards(Trends!Diff(job.dates, view), shown)
      /\ calls' = Trends!Others(i) /\ state' = state
  BY DEF Trends!qDiff
<1> HIDE DEF view, job
<1>3. CardsInv(Trends!Diff(job.dates, view))
  <2> SUFFICES ASSUME NEW d \in Trends!DateSet, NEW e \in Trends!DateSet,
                      job.dates = <<d, e>>
               PROVE  {d, e} \subseteq view
    BY DEF CardsInv, Trends!Diff
  <2>1. job.dates[1] \in view /\ job.dates[2] \in view
    BY <1>1 DEF Covers
  <2>2. QED
    BY <2>1
<1>4. DOMAIN shown' = Trends!Elements /\ CardsInv(shown'["diff-cards"])
  BY <1>2, <1>3, CardsSet DEF TrendsInv
<1>5. CallsInv(calls', state)
  BY <1>2, CallsAreSequence
<1>6. QED
  BY <1>2, <1>4, <1>5 DEF TrendsInv

\* What a call waits for fails.
LEMMA FailedKeeps ==
    ASSUME TrendsInv, NEW i \in DOMAIN calls, Trends!Failed(i)
    PROVE  TrendsInv'
<1>1. Trends!Fails(i) /\ calls' = Trends!Others(i) /\ state' = state
  BY DEF Trends!Failed
<1>2. DOMAIN shown' = Trends!Elements /\ CardsInv(shown'["diff-cards"])
  BY <1>1, CardsSet, NoteIsSafe DEF Trends!Fails, TrendsInv
<1>3. CallsInv(calls', state)
  BY <1>1, CallsAreSequence
<1>4. QED
  BY <1>1, <1>2, <1>3 DEF TrendsInv

\* A date is chosen in one of the lists.
LEMMA fillDateSelectsKeeps ==
    ASSUME TrendsInv, NEW from \in Trends!DateSet, NEW to \in Trends!DateSet,
           Trends!fillDateSelects(from, to)
    PROVE  TrendsInv'
<1> DEFINE st == [state EXCEPT !.from = from, !.to = to]
<1>1. st \in TrendsStates /\ st.registered = state.registered /\ st.view = state.view
  BY DEF TrendsInv, TrendsStates
<1>2. state' = st /\ Trends!lazyDiff(from, to, calls, shown)
  BY DEF Trends!fillDateSelects
<1> HIDE DEF st
<1>3. /\ CallsInv(calls', state) /\ DOMAIN shown' = Trends!Elements
      /\ CardsInv(shown'["diff-cards"])
  BY <1>2, LazyDiffKeeps DEF TrendsInv
<1>4. CallsInv(calls', st)
  BY <1>1, <1>3, GrowKeeps
<1>5. QED
  BY <1>1, <1>2, <1>3, <1>4 DEF TrendsInv

\* A response begins: no call but the one it is for changes, and that one only
\* in what it waits for.
LEMMA ResponseShape ==
    ASSUME NEW S, calls \in Seq(S), NEW i \in DOMAIN calls, ResponseBegins(i)
    PROVE  LET c == [calls[i] EXCEPT !.on = "body"]
           IN  /\ i \in 1..Len(calls) /\ DOMAIN calls = 1..Len(calls)
               /\ calls' \in Seq(S \cup {c})
               /\ Len(calls') = Len(calls) /\ DOMAIN calls' = 1..Len(calls)
               /\ \A k \in 1..Len(calls) : calls'[k] = IF k = i THEN c ELSE calls[k]
<1> DEFINE c == [calls[i] EXCEPT !.on = "body"]
<1>1. i \in 1..Len(calls) /\ DOMAIN calls = 1..Len(calls) /\ calls \in Seq(S \cup {c})
  OBVIOUS
<1>2. calls' = [calls EXCEPT ![i] = c]
  BY DEF ResponseBegins
<1> HIDE DEF c
<1>3. calls' \in Seq(S \cup {c}) /\ Len(calls') = Len(calls) /\ DOMAIN calls' = 1..Len(calls)
  BY <1>1, <1>2
<1>4. \A k \in 1..Len(calls) : calls'[k] = IF k = i THEN c ELSE calls[k]
  BY <1>1, <1>2
<1>5. QED
  BY <1>1, <1>3, <1>4 DEF c

LEMMA ResponseKeeps ==
    ASSUME TrendsInv, NEW i \in DOMAIN calls, ResponseBegins(i)
    PROVE  TrendsInv'
<1> DEFINE c == [calls[i] EXCEPT !.on = "body"]
<1>1. /\ calls \in Seq(TrendsCalls) /\ calls[i] \in TrendsCalls
      /\ CallInv(calls[i], state) /\ calls[i].on = "fetchT"
      /\ UNCHANGED <<state, shown>>
  BY CallsAreSequence DEF ResponseBegins
<1>2. calls[i].at \notin InQueue
  BY <1>1, InstanceAssumption DEF CallInv, InQueue, WithConn, WithJob
<1>3. c \in TrendsCalls /\ c.at = calls[i].at /\ c.sel = calls[i].sel
  BY <1>1 DEF TrendsCalls, Awaited, Untimed
<1> HIDE DEF c
<1>4. CallInv(c, state)
  BY <1>1, <1>2, <1>3 DEF CallInv
<1>5. /\ calls' \in Seq(TrendsCalls \cup {c}) /\ Len(calls') = Len(calls)
      /\ \A k \in 1..Len(calls) : calls'[k] = IF k = i THEN c ELSE calls[k]
  BY <1>1, ResponseShape DEF c
<1>6. TrendsCalls \cup {c} = TrendsCalls
  BY <1>3
<1>7. CallsInv(calls, state)
  BY DEF TrendsInv
<1>8. \A k \in 1..Len(calls) : CallInv(calls'[k], state)
  BY <1>4, <1>5, <1>7 DEF CallsInv
<1>9. \A j, k \in 1..Len(calls) : j < k => PairInv(calls'[j], calls'[k])
  <2>1. \A k \in 1..Len(calls) : calls'[k].at = calls[k].at /\ calls'[k].sel = calls[k].sel
    BY <1>3, <1>5
  <2>2. QED
    BY <1>7, <2>1 DEF CallsInv, PairInv
<1>10. CallsInv(calls', state)
  BY <1>5, <1>6, <1>8, <1>9 DEF CallsInv
<1>11. QED
  BY <1>1, <1>10 DEF TrendsInv

-----------------------------------------------------------------------------
(* The specification                                                         *)

\* A script that begins.
LEMMA FreshIsSafe ==
    /\ Fresh("trends") \in TrendsStates
    /\ CallsInv(<<FirstCall("trends")>>, Fresh("trends"))
    /\ CardsInv(Blank)
    /\ Elements("trends") = Trends!Elements /\ "diff-cards" \in Trends!Elements
<1>1. Fresh("trends") = Trends!Fresh /\ Elements("trends") = Trends!Elements
  BY DEF Fresh, Elements
<1>2. Trends!Fresh \in TrendsStates
  BY DEF Trends!Fresh, TrendsStates, DateSets
<1>3. CallsInv(<<FirstCall("trends")>>, Trends!Fresh)
  <2> DEFINE c == FirstCall("trends")
  <2>1. c \in TrendsCalls /\ c.at = "manifest"
    BY DEF FirstCall, Call, TrendsCalls, Awaited
  <2> HIDE DEF c
  <2>2. CallInv(c, Trends!Fresh)
    BY <2>1 DEF CallInv, WithJob, WithConn, InQueue
  <2>3. QED
    BY <2>1, <2>2 DEF CallsInv, PairInv, c
<1>4. CardsInv(Blank)
  BY PagesAssumption DEF CardsInv, DateSets
<1>5. QED
  BY <1>1, <1>2, <1>3, <1>4 DEF Trends!Elements

\* The invariant holds when a page is opened.
LEMMA Initially == Init => IInv
<1> SUFFICES ASSUME Init, page = "trends" PROVE TrendsInv
  BY DEF IInv
<1>1. /\ state = Fresh("trends") /\ calls = <<FirstCall("trends")>>
      /\ shown = [e \in Elements("trends") |-> Blank]
  BY DEF Init
<1>2. QED
  BY <1>1, FreshIsSafe DEF TrendsInv

\* The script begins again.
LEMMA ReloadKeeps == ASSUME page = "trends", Reload PROVE TrendsInv'
<1>1. /\ state' = Fresh("trends") /\ calls' = <<FirstCall("trends")>>
      /\ shown' = [e \in Elements("trends") |-> Blank]
  BY DEF Reload
<1>2. QED
  BY <1>1, FreshIsSafe DEF TrendsInv

\* Every step of the page keeps its invariant; the other pages have no part.
LEMMA StepKeeps == ASSUME IInv, [Next]_vars PROVE IInv'
<1> SUFFICES ASSUME page' = "trends" PROVE TrendsInv'
  BY DEF IInv
<1>1. CASE \E i \in DOMAIN calls : Resume(i) /\ UNCHANGED page
  <2>1. page = "trends"
    BY <1>1
  <2>2. PICK i \in DOMAIN calls : Trends!Resume(i)
    BY <1>1, <2>1 DEF Resume
  <2>3. TrendsInv
    BY <2>1 DEF IInv
  <2>4. CASE Trends!main(i)
    <3>1. CASE Trends!TrendsComputed(i)
      BY <2>3, <3>1, RenderTrendsKeeps DEF Trends!TrendsComputed
    <3>2. QED
      BY <2>3, <2>4, <3>1, loadManifestKeeps, loadSummaryKeeps DEF Trends!main
  <2>5. CASE Trends!initDuckDB(i)
    BY <2>3, <2>5, initDuckDBKeeps
  <2>6. CASE Trends!ensureConn(i)
    BY <2>3, <2>6, ensureConnKeeps
  <2>7. CASE Trends!SnapshotFetched(i)
    BY <2>3, <2>7, SnapshotFetchedKeeps
  <2>8. CASE Trends!Registered(i)
    BY <2>3, <2>8, RegisteredKeeps
  <2>9. CASE Trends!ViewMade(i)
    BY <2>3, <2>9, ViewMadeKeeps
  <2>10. CASE Trends!qDiff(i)
    BY <2>3, <2>10, qDiffKeeps
  <2>11. QED
    BY <2>2, <2>4, <2>5, <2>6, <2>7, <2>8, <2>9, <2>10 DEF Trends!Resume
<1>2. CASE \E i \in DOMAIN calls : Fail(i) /\ UNCHANGED page
  <2>1. PICK i \in DOMAIN calls : Trends!Failed(i)
    BY <1>2 DEF Fail
  <2>2. QED
    BY <1>2, <2>1, FailedKeeps DEF IInv
<1>3. CASE UserEvent /\ UNCHANGED page
  <2>1. PICK from \in Trends!DateSet, to \in Trends!DateSet : Trends!fillDateSelects(from, to)
    BY <1>3 DEF UserEvent, Trends!UserEvent
  <2>2. QED
    BY <1>3, <2>1, fillDateSelectsKeeps DEF IInv
<1>4. CASE Reload
  BY <1>4, ReloadKeeps DEF Reload
<1>5. CASE UNCHANGED vars
  BY <1>5 DEF vars, browser, IInv, TrendsInv
<1>6. CASE \E i \in DOMAIN calls : ResponseBegins(i) /\ UNCHANGED page
  BY <1>6, ResponseKeeps DEF IInv
<1>7. QED
  BY <1>1, <1>2, <1>3, <1>4, <1>5, <1>6 DEF Next

\* The jobs, views and cards of the trends page stay in order (web/trends.js).
THEOREM TrendsInOrder == Spec => []IInv
<1>1. Init => IInv
  BY Initially
<1>2. IInv /\ [Next]_vars => IInv'
  BY StepKeeps
<1>3. QED
  BY <1>1, <1>2, PTL DEF Spec

\* A difference is only shown when the view it was computed in covers both its
\* dates (web/trends.js, lazyDiff and ensureDates), for any dates, engines,
\* events and failures.
THEOREM DifferencesCoverDates == Spec => []DiffCoversDates
<1>1. IInv => DiffCoversDates
  BY DEF IInv, TrendsInv, CardsInv, DateSets, DiffCoversDates
<1>2. QED
  BY <1>1, TrendsInOrder, PTL
=============================================================================
