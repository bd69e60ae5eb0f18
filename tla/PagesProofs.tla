------------------------------ MODULE PagesProofs ------------------------------
(* Every page under web/ at rest shows the selection of its URL, whatever was  *)
(* clicked, answered or failed in between, and its variables have their types, *)
(* for any provinces, highways, stations, lists, dates, workers and events.    *)
EXTENDS TrendsProofs, WellFoundedInduction

-----------------------------------------------------------------------------
(* The calls of a page                                                       *)

\* A list of calls; each waits for something there is.
IsSequence(cs) == \E S : cs \in Seq(S)
CallOK(c) ==
    DOMAIN c = {"at", "sel", "on", "caught"} /\ c.on \in Awaited /\ c.caught \in BOOLEAN
CallsOK(cs) == IsSequence(cs) /\ \A i \in DOMAIN cs : CallOK(cs[i])

\* A call ends: the others keep their order.
LEMMA OthersShape ==
    ASSUME IsSequence(calls), NEW i \in DOMAIN calls
    PROVE  /\ IsSequence(Others(i))
           /\ i \in 1..Len(calls) /\ Len(calls) \in Nat
           /\ DOMAIN Others(i) = 1..(Len(calls) - 1) /\ Len(Others(i)) = Len(calls) - 1
           /\ \A k \in 1..(Len(calls) - 1) : Others(i)[k] = calls[IF k < i THEN k ELSE k + 1]
<1>1. PICK S : calls \in Seq(S)
  BY DEF IsSequence
<1>2. i \in 1..Len(calls) /\ Len(calls) \in Nat
  BY <1>1
<1>3. /\ Others(i) \in Seq(S) /\ Len(Others(i)) = Len(calls) - 1
      /\ \A k \in 1..(Len(calls) - 1) : Others(i)[k] = calls[IF k < i THEN k ELSE k + 1]
  BY <1>1, <1>2, OthersInOrder DEF Others
<1>4. DOMAIN Others(i) = 1..Len(Others(i))
  BY <1>3
<1>5. QED
  BY <1>2, <1>3, <1>4 DEF IsSequence

\* A call begins to wait behind all others.
LEMMA AppendShape ==
    ASSUME NEW cs, IsSequence(cs), NEW c
    PROVE  /\ IsSequence(Append(cs, c)) /\ Len(cs) \in Nat /\ DOMAIN cs = 1..Len(cs)
           /\ DOMAIN Append(cs, c) = 1..(Len(cs) + 1) /\ Len(Append(cs, c)) = Len(cs) + 1
           /\ Append(cs, c)[Len(cs) + 1] = c
           /\ \A k \in 1..Len(cs) : Append(cs, c)[k] = cs[k]
           /\ Append(cs, c) # <<>>
<1>1. PICK S : cs \in Seq(S)
  BY DEF IsSequence
<1>2. cs \in Seq(S \cup {c})
  BY <1>1
<1>3. Append(cs, c) \in Seq(S \cup {c}) /\ Len(Append(cs, c)) = Len(cs) + 1
  BY <1>2
<1>4. QED
  BY <1>1, <1>3 DEF IsSequence

LEMMA OthersAmong ==
    ASSUME IsSequence(calls), NEW i \in DOMAIN calls
    PROVE  \A k \in DOMAIN Others(i) : \E j \in DOMAIN calls : Others(i)[k] = calls[j]
<1>1. /\ i \in 1..Len(calls) /\ Len(calls) \in Nat
      /\ DOMAIN Others(i) = 1..(Len(calls) - 1)
      /\ \A k \in 1..(Len(calls) - 1) : Others(i)[k] = calls[IF k < i THEN k ELSE k + 1]
  BY OthersShape
<1>2. DOMAIN calls = 1..Len(calls)
  BY <1>1 DEF IsSequence
<1> SUFFICES ASSUME NEW k \in 1..(Len(calls) - 1)
             PROVE  (IF k < i THEN k ELSE k + 1) \in 1..Len(calls)
  BY <1>1, <1>2
<1>3. QED
  BY <1>1

LEMMA AppendAmong ==
    ASSUME NEW cs, IsSequence(cs), NEW c
    PROVE  \A k \in DOMAIN Append(cs, c) :
               Append(cs, c)[k] = c \/ \E j \in DOMAIN cs : Append(cs, c)[k] = cs[j]
<1>1. /\ Len(cs) \in Nat /\ DOMAIN cs = 1..Len(cs) /\ DOMAIN Append(cs, c) = 1..(Len(cs) + 1)
      /\ Append(cs, c)[Len(cs) + 1] = c /\ \A k \in 1..Len(cs) : Append(cs, c)[k] = cs[k]
  BY AppendShape
<1>2. \A k \in 1..(Len(cs) + 1) : k = Len(cs) + 1 \/ k \in 1..Len(cs)
  BY <1>1
<1>3. QED
  BY <1>1, <1>2

LEMMA OthersOK ==
    ASSUME CallsOK(calls), NEW i \in DOMAIN calls
    PROVE  CallsOK(Others(i)) /\ CallOK(calls[i]) /\ IsSequence(Others(i))
BY OthersShape, OthersAmong DEF CallsOK

LEMMA AppendOK ==
    ASSUME NEW cs, CallsOK(cs), NEW at, NEW sel, NEW on \in Awaited, NEW caught \in BOOLEAN
    PROVE  /\ CallsOK(Append(cs, Call(at, sel, on, caught)))
           /\ Append(cs, Call(at, sel, on, caught)) # <<>>
<1> DEFINE c == Call(at, sel, on, caught)
<1>1. CallOK(c)
  BY DEF CallOK, Call
<1> HIDE DEF c
<1>2. CallsOK(Append(cs, c)) /\ Append(cs, c) # <<>>
  BY <1>1, AppendShape, AppendAmong DEF CallsOK
<1>3. QED
  BY <1>2 DEF c

LEMMA WorkersAreAwaited ==
    /\ Worker \in Engines /\ Worker \in Awaited /\ Worker # "fetchT"
    /\ {"cdn", "fetch", "fetchT", "body"} \subseteq Awaited
BY InstanceAssumption DEF Worker, Awaited, Untimed

-----------------------------------------------------------------------------
(* What is drawn                                                             *)

\* An element shows what it showed or what is drawn, and that, if none throws.
LEMMA Drawn ==
    ASSUME NEW ws, NEW sh, NEW v
    PROVE  /\ DOMAIN Draw(ws, sh, v) = DOMAIN sh
           /\ \A e \in DOMAIN sh : Draw(ws, sh, v)[e] = v \/ Draw(ws, sh, v)[e] = sh[e]
           /\ ~Throws(ws, sh) => \A e \in DOMAIN sh : Draw(ws, sh, v)[e] =
                  IF \E k \in DOMAIN ws : ws[k].el = e THEN v ELSE sh[e]
BY DEF Draw, Throws

\* What a step of a page keeps to itself: the variables have their types.
PageOK ==
    /\ page \in PageNames /\ empty \in BOOLEAN
    /\ CallsOK(calls)
    /\ DOMAIN state = DOMAIN Fresh(page)
    /\ DOMAIN shown = Elements(page)
    /\ status \in {"hidden", "busy", "prompt"}
    /\ error \in {"none", "panel", "console"}
    /\ inputs \in 0..MaxInputs

LEMMA Clicked == ASSUME Input, PageOK PROVE inputs' \in 0..MaxInputs
BY InstanceAssumption DEF Input, PageOK

\* An exception shows; nothing else of the page changes.
LEMMA Raised ==
    ASSUME NEW i, Raise(i), status \in {"hidden", "busy", "prompt"}
    PROVE  error' \in {"panel", "console"} /\ status' \in {"hidden", "busy", "prompt"}
BY DEF Raise, showError

\* What a call waits for fails.
LEMMA RejectKeeps ==
    ASSUME PageOK, NEW i \in DOMAIN calls, Reject(i), UNCHANGED page
    PROVE  PageOK' /\ error' # "none"
<1>1. error' \in {"panel", "console"} /\ status' \in {"hidden", "busy", "prompt"}
  BY Raised DEF Reject, PageOK
<1>2. CallsOK(calls')
  BY OthersOK DEF Reject, PageOK
<1>3. QED
  BY <1>1, <1>2 DEF Reject, PageOK

\* main waits for the snapshot, then for its code tables and first queries.
LEMMA OpenEngineKeeps ==
    ASSUME PageOK, NEW i \in DOMAIN calls, OpenEngine(i), UNCHANGED page
    PROVE  PageOK' /\ calls' # <<>>
<1>1. CallsOK(calls') /\ calls' # <<>>
  BY OthersOK, AppendOK, WorkersAreAwaited DEF OpenEngine, WaitsNext, PageOK, CallOK
<1>2. QED
  BY <1>1 DEF OpenEngine, PageOK

LEMMA AskDataKeeps ==
    ASSUME PageOK, NEW i \in DOMAIN calls, NEW on \in Awaited, AskData(i, on), UNCHANGED page
    PROVE  PageOK' /\ calls' # <<>>
<1>1. CallsOK(calls') /\ calls' # <<>>
  BY OthersOK, AppendOK DEF AskData, WaitsNext, PageOK, CallOK
<1>2. QED
  BY <1>1 DEF AskData, PageOK

\* All of a page without a selection is drawn, or an exception shows.
LEMMA DrawPageKeeps ==
    ASSUME PageOK, NEW i \in DOMAIN calls, NEW ws, DrawPage(i, ws), UNCHANGED page,
           \A e \in DOMAIN shown : \E k \in DOMAIN ws : ws[k].el = e
    PROVE  PageOK' /\ (error' = "none" => shown' = [e \in DOMAIN shown |-> None])
<1>1. CallsOK(calls')
  BY OthersOK DEF DrawPage, PageOK
<1>2. DOMAIN shown' = DOMAIN shown
  BY Drawn DEF DrawPage
<1>3. CASE Throws(ws, shown)
  <2>1. error' \in {"panel", "console"} /\ status' \in {"hidden", "busy", "prompt"}
    BY <1>3, Raised DEF DrawPage, PageOK
  <2>2. QED
    BY <1>1, <1>2, <2>1 DEF DrawPage, PageOK
<1>4. CASE ~Throws(ws, shown)
  <2>1. \A e \in DOMAIN shown : shown'[e] = None
    BY <1>4, Drawn DEF DrawPage
  <2>2. shown' = [e \in DOMAIN shown |-> shown'[e]]
    BY <1>2 DEF DrawPage, Draw
  <2>3. shown' = [e \in DOMAIN shown |-> None]
    BY <2>1, <2>2
  <2>4. error' = error /\ status' = "hidden"
    BY <1>4 DEF DrawPage
  <2>5. QED
    BY <1>1, <1>2, <2>3, <2>4 DEF DrawPage, PageOK
<1>5. QED
  BY <1>3, <1>4

\* Highway, activity, operators: one stretch draws all there is.
PlainInv == Quiet /\ error = "none" => shown = [e \in Elements(page) |-> None]

LEMMA PlainKeeps ==
    ASSUME PageOK, NEW i \in DOMAIN calls, UNCHANGED page, NEW on \in Awaited, NEW ws,
           \A e \in Elements(page) : \E k \in DOMAIN ws : ws[k].el = e,
           OpenEngine(i) \/ AskData(i, on) \/ DrawPage(i, ws)
    PROVE  PageOK' /\ PlainInv'
<1>1. CASE OpenEngine(i)
  BY <1>1, OpenEngineKeeps DEF PlainInv, Quiet
<1>2. CASE AskData(i, on)
  BY <1>2, AskDataKeeps DEF PlainInv, Quiet
<1>3. CASE DrawPage(i, ws)
  <2>1. DOMAIN shown = Elements(page)
    BY DEF PageOK
  <2>2. PageOK' /\ (error' = "none" => shown' = [e \in DOMAIN shown |-> None])
    BY <1>3, <2>1, DrawPageKeeps
  <2>3. QED
    BY <2>1, <2>2 DEF PlainInv
<1>4. QED
  BY <1>1, <1>2, <1>3

LEMMA HighwayKeeps ==
    ASSUME PageOK, page = "highway", UNCHANGED page, NEW i \in DOMAIN calls, HighwayAll!Resume(i)
    PROVE  PageOK' /\ PlainInv'
<1> DEFINE ws == <<HighwayAll!renderKpi, HighwayAll!renderInsights, HighwayAll!renderOperators,
                   HighwayAll!renderSido, HighwayAll!renderOutput, HighwayAll!renderStations>>
<1>1. OpenEngine(i) \/ AskData(i, "fetchT") \/ DrawPage(i, ws)
  BY DEF HighwayAll!Resume, HighwayAll!main, HighwayAll!initDuckDB, HighwayAll!loadCodes,
         HighwayAll!OpenEngine, OpenEngine, HighwayAll!AskData, AskData,
         HighwayAll!DrawPage, DrawPage, HighwayAll!Resumes, Resumes, HighwayAll!IsTurn, IsTurn,
         HighwayAll!WaitsNext, WaitsNext,
         HighwayAll!Others, Others, HighwayAll!Call, Call, HighwayAll!Draw, Draw,
         HighwayAll!Throws, Throws, HighwayAll!Throwing, Throwing, HighwayAll!Raise, Raise,
         HighwayAll!showError, showError
<1>2. DOMAIN ws = 1..6
  OBVIOUS
<1>3. /\ ws[1].el = "kpi-grid" /\ ws[2].el = "insight-grid" /\ ws[3].el = "chart-operators"
      /\ ws[4].el = "chart-sido" /\ ws[5].el = "chart-output" /\ ws[6].el = "chart-stations"
  BY DEF HighwayAll!renderKpi, HighwayAll!renderInsights, HighwayAll!renderOperators,
         HighwayAll!renderSido, HighwayAll!renderOutput, HighwayAll!renderStations,
         HighwayAll!Text, HighwayAll!TextOfRow, HighwayAll!NewChart
<1> HIDE DEF ws
<1>4. Elements(page) = {"kpi-grid", "insight-grid", "chart-operators", "chart-sido",
                        "chart-output", "chart-stations"}
  BY DEF Elements, HighwayAll!Elements
<1>5. \A e \in Elements(page) : \E k \in DOMAIN ws : ws[k].el = e
  BY <1>2, <1>3, <1>4
<1>6. QED
  BY <1>1, <1>5, PlainKeeps, WorkersAreAwaited

LEMMA ActivityKeeps ==
    ASSUME PageOK, page = "activity", UNCHANGED page, NEW i \in DOMAIN calls, Activity!Resume(i)
    PROVE  PageOK' /\ PlainInv'
<1> DEFINE ws == <<Activity!renderKpi, Activity!renderInsights, Activity!renderHour,
                   Activity!renderTurnover, Activity!renderHighwayActivity,
                   Activity!renderDormantBuckets, Activity!renderDormantByHighway>>
<1>1. OpenEngine(i) \/ AskData(i, "fetchT") \/ DrawPage(i, ws)
  BY DEF Activity!Resume, Activity!main, Activity!initDuckDB, Activity!loadCodes,
         Activity!OpenEngine, OpenEngine, Activity!AskData, AskData,
         Activity!DrawPage, DrawPage, Activity!Resumes, Resumes, Activity!IsTurn, IsTurn,
         Activity!WaitsNext, WaitsNext,
         Activity!Others, Others, Activity!Call, Call, Activity!Draw, Draw,
         Activity!Throws, Throws, Activity!Throwing, Throwing, Activity!Raise, Raise,
         Activity!showError, showError
<1>2. DOMAIN ws = 1..7
  OBVIOUS
<1>3. /\ ws[1].el = "kpi-grid" /\ ws[2].el = "insight-grid" /\ ws[3].el = "chart-hour"
      /\ ws[4].el = "chart-turnover" /\ ws[5].el = "chart-highway"
      /\ ws[6].el = "chart-dormant-buckets" /\ ws[7].el = "chart-dormant-highway"
  BY DEF Activity!renderKpi, Activity!renderInsights, Activity!renderHour,
         Activity!renderTurnover, Activity!renderHighwayActivity,
         Activity!renderDormantBuckets, Activity!renderDormantByHighway,
         Activity!Text, Activity!TextOfRow, Activity!NewChart
<1> HIDE DEF ws
<1>4. Elements(page) = {"kpi-grid", "insight-grid", "chart-hour", "chart-turnover",
                        "chart-highway", "chart-dormant-buckets", "chart-dormant-highway"}
  BY DEF Elements, Activity!Elements
<1>5. \A e \in Elements(page) : \E k \in DOMAIN ws : ws[k].el = e
  BY <1>2, <1>3, <1>4
<1>6. QED
  BY <1>1, <1>5, PlainKeeps, WorkersAreAwaited

LEMMA OperatorsKeeps ==
    ASSUME PageOK, page = "operators", UNCHANGED page, NEW i \in DOMAIN calls, Operators!Resume(i)
    PROVE  PageOK' /\ PlainInv'
<1> DEFINE ws == <<Operators!Text("header-snapshot"), Operators!renderInsights,
                   Operators!renderRanking, Operators!renderHeatmap, Operators!renderYear,
                   Operators!renderScatter>>
<1>1. OpenEngine(i) \/ AskData(i, "fetchT") \/ DrawPage(i, ws)
  BY DEF Operators!Resume, Operators!main, Operators!initDuckDB, Operators!loadCodes,
         Operators!OpenEngine, OpenEngine, Operators!AskData, AskData,
         Operators!DrawPage, DrawPage, Operators!Resumes, Resumes, Operators!IsTurn, IsTurn,
         Operators!WaitsNext, WaitsNext,
         Operators!Others, Others, Operators!Call, Call, Operators!Draw, Draw,
         Operators!Throws, Throws, Operators!Throwing, Throwing, Operators!Raise, Raise,
         Operators!showError, showError
<1>2. DOMAIN ws = 1..6
  OBVIOUS
<1>3. /\ ws[1].el = "header-snapshot" /\ ws[2].el = "insight-grid" /\ ws[3].el = "ranking-body"
      /\ ws[4].el = "heatmap-wrap" /\ ws[5].el = "chart-year" /\ ws[6].el = "chart-scatter"
  BY DEF Operators!renderInsights, Operators!renderRanking, Operators!renderHeatmap,
         Operators!renderYear, Operators!renderScatter,
         Operators!Text, Operators!TextOfRow, Operators!NewChart
<1> HIDE DEF ws
<1>4. Elements(page) = {"header-snapshot", "insight-grid", "ranking-body", "heatmap-wrap",
                        "chart-year", "chart-scatter"}
  BY DEF Elements, Operators!Elements
<1>5. \A e \in Elements(page) : \E k \in DOMAIN ws : ws[k].el = e
  BY <1>2, <1>3, <1>4
<1>6. QED
  BY <1>1, <1>5, PlainKeeps, WorkersAreAwaited

\* Texts are always drawn; charts are, once their canvases are cleared.
LEMMA AllDrawn ==
    ASSUME NEW ws, NEW sh, NEW v, ~Throws(ws, sh)
    PROVE  Draw(ws, sh, v) =
               [e \in DOMAIN sh |-> IF \E k \in DOMAIN ws : ws[k].el = e THEN v ELSE sh[e]]
BY DEF Draw, Throws

LEMMA TextsNeverThrow ==
    ASSUME NEW ws, NEW sh, \A k \in DOMAIN ws : ~ws[k].chart /\ ~ws[k].needsRow
    PROVE  ~Throws(ws, sh)
BY DEF Throws, Throwing

-----------------------------------------------------------------------------
(* The map                                                                   *)

\* From the first plot on, the one layer, the count and the map agree.
MapInv ==
    /\ Quiet /\ error = "none" => state.listening
    /\ state.listening =>
         /\ state.layers = {shown["visible-count"]}
         /\ shown = Map!Restored(shown["visible-count"])

LEMMA MapPlotted ==
    ASSUME PageOK, page = "map", UNCHANGED page, NEW hw, NEW ws,
           \A k \in DOMAIN ws : ~ws[k].chart /\ ~ws[k].needsRow,
           \E k \in DOMAIN ws : ws[k].el = "visible-count",
           \A k \in DOMAIN ws : ws[k].el \in {"visible-count", "highway-select"},
           Map!Plot(hw, {hw}, ws),
           \/ hw = None /\ \E k \in DOMAIN ws : ws[k].el = "highway-select"
           \/ shown["highway-select"] = None /\ \A k \in DOMAIN ws : ws[k].el # "highway-select"
    PROVE  /\ DOMAIN state' = DOMAIN Fresh(page) /\ DOMAIN shown' = Elements(page)
           /\ state'.listening /\ state'.layers = {hw}
           /\ shown'["visible-count"] = hw /\ shown' = Map!Restored(hw)
<1> DEFINE sh == [shown EXCEPT !["map"] = {hw}]
<1>1. DOMAIN shown = {"map", "visible-count", "highway-select"} /\ Map!Elements = DOMAIN shown
  BY DEF PageOK, Elements, Map!Elements
<1>2. DOMAIN sh = DOMAIN shown /\ sh["map"] = {hw} /\ sh["highway-select"] = shown["highway-select"]
  BY <1>1
<1>3. shown' = Draw(ws, sh, hw)
  BY DEF Map!Plot, Map!Draw, Draw, Map!Throwing, Throwing
<1> HIDE DEF sh
<1>4. shown' = [e \in DOMAIN shown |-> IF \E k \in DOMAIN ws : ws[k].el = e THEN hw ELSE sh[e]]
  BY <1>2, <1>3, AllDrawn, TextsNeverThrow
<1>5. /\ DOMAIN shown' = DOMAIN shown /\ shown'["map"] = {hw} /\ shown'["visible-count"] = hw
      /\ shown'["highway-select"] = None
  BY <1>1, <1>2, <1>4
<1>6. \A e \in DOMAIN shown : shown'[e] = Map!Restored(hw)[e]
  BY <1>1, <1>5 DEF Map!Restored
<1>7. shown' = Map!Restored(hw)
  <2>1. shown' = [e \in DOMAIN shown |-> shown'[e]]
    BY <1>4
  <2>2. Map!Restored(hw) = [e \in DOMAIN shown |-> Map!Restored(hw)[e]]
    BY <1>1 DEF Map!Restored
  <2>3. QED
    BY <1>6, <2>1, <2>2
<1>8. state' = [layers |-> {hw}, listening |-> TRUE]
  BY DEF Map!Plot
<1>9. DOMAIN state' = DOMAIN Fresh(page)
  BY <1>8 DEF Fresh, Map!Fresh
<1>10. Elements(page) = Map!Elements
  BY DEF Elements
<1>11. QED
  BY <1>1, <1>5, <1>7, <1>8, <1>9, <1>10

LEMMA MapKeeps ==
    ASSUME PageOK, page = "map", UNCHANGED page, MapInv,
           (\E i \in DOMAIN calls : Map!Resume(i)) \/ Map!UserEvent
    PROVE  PageOK' /\ MapInv'
<1>1. ASSUME NEW i \in DOMAIN calls, OpenEngine(i) \/ AskData(i, "fetch")
      PROVE  PageOK' /\ MapInv'
  <2>1. PageOK' /\ calls' # <<>>
    BY <1>1, OpenEngineKeeps, AskDataKeeps, WorkersAreAwaited
  <2>2. UNCHANGED <<state, shown>>
    BY <1>1 DEF OpenEngine, AskData
  <2>3. QED
    BY <2>1, <2>2 DEF MapInv, Quiet
<1>2. ASSUME NEW i \in DOMAIN calls, Map!Started(i)
      PROVE  PageOK' /\ MapInv'
  <2> DEFINE ws == <<Map!updateStats, Map!populateHighwayFilter>>
  <2>1. /\ ws[1].el = "visible-count" /\ ws[2].el = "highway-select" /\ DOMAIN ws = 1..2
        /\ ~ws[1].chart /\ ~ws[1].needsRow /\ ~ws[2].chart /\ ~ws[2].needsRow
    BY DEF Map!updateStats, Map!populateHighwayFilter, Map!Text
  <2>2. Map!Plot(None, {None}, ws)
    <3>1. Map!plotMarkers(None, {}) = {None}
      BY DEF Map!plotMarkers
    <3>2. QED
      BY <1>2, <3>1 DEF Map!Started
  <2> HIDE DEF ws
  <2>3. /\ DOMAIN state' = DOMAIN Fresh(page) /\ DOMAIN shown' = Elements(page)
        /\ state'.listening /\ state'.layers = {None}
        /\ shown'["visible-count"] = None /\ shown' = Map!Restored(None)
    BY <2>1, <2>2, MapPlotted
  <2>4. calls' = Others(i) /\ status' = "hidden" /\ UNCHANGED <<empty, error, inputs>>
    BY <1>2 DEF Map!Started, Map!Others, Others
  <2>5. CallsOK(calls')
    BY <2>4, OthersOK DEF PageOK
  <2>6. QED
    BY <2>3, <2>4, <2>5 DEF PageOK, MapInv
<1>3. ASSUME NEW hw, Map!SelectHighway(hw)
      PROVE  PageOK' /\ MapInv'
  <2> DEFINE ws == <<Map!updateStats>>
             old == shown["visible-count"]
  <2>1. /\ ws[1].el = "visible-count" /\ DOMAIN ws = 1..1
        /\ ~ws[1].chart /\ ~ws[1].needsRow
    BY DEF Map!updateStats, Map!Text
  <2>2. state.listening
    BY <1>3 DEF Map!SelectHighway
  <2>3. state.layers = {old} /\ shown["highway-select"] = None
    BY <2>2 DEF MapInv, Map!Restored, Map!Elements
  <2>4. Map!Plot(hw, {hw}, ws)
    <3>1. Map!plotMarkers(hw, Map!removeLayer(old, state.layers)) = {hw}
      BY <2>3 DEF Map!plotMarkers, Map!removeLayer
    <3>2. QED
      BY <1>3, <3>1 DEF Map!SelectHighway
  <2> HIDE DEF ws
  <2>a. \A k \in DOMAIN ws : k = 1
    BY <2>1
  <2>b. /\ \A k \in DOMAIN ws : ~ws[k].chart /\ ~ws[k].needsRow
        /\ \A k \in DOMAIN ws : ws[k].el \in {"visible-count", "highway-select"}
        /\ \A k \in DOMAIN ws : ws[k].el # "highway-select"
        /\ \E k \in DOMAIN ws : ws[k].el = "visible-count"
    BY <2>1, <2>a
  <2>5. /\ DOMAIN state' = DOMAIN Fresh(page) /\ DOMAIN shown' = Elements(page)
        /\ state'.listening /\ state'.layers = {hw}
        /\ shown'["visible-count"] = hw /\ shown' = Map!Restored(hw)
    BY <2>3, <2>4, <2>b, MapPlotted
  <2>6. Input /\ UNCHANGED <<empty, calls, status, error>>
    BY <1>3 DEF Map!SelectHighway, Map!Input, Input
  <2>7. QED
    BY <2>5, <2>6, Clicked DEF PageOK, MapInv
<1>4. ASSUME NEW i \in DOMAIN calls, Map!Resume(i)
      PROVE  OpenEngine(i) \/ AskData(i, "fetch") \/ Map!Started(i)
  BY <1>4 DEF Map!Resume, Map!main, Map!initDuckDB, Map!loadCodes,
         Map!OpenEngine, OpenEngine, Map!AskData, AskData, Map!Resumes, Resumes, Map!IsTurn, IsTurn,
         Map!WaitsNext, WaitsNext, Map!Others, Others, Map!Call, Call
<1>5. QED
  BY <1>1, <1>2, <1>3, <1>4 DEF Map!UserEvent

\* One more step of a rendering, a text.
LEMMA OneMoreText ==
    ASSUME NEW ws, IsSequence(ws), NEW el, NEW sh
    PROVE  /\ Throws(Append(ws, Text(el)), sh) => Throws(ws, sh)
           /\ \A k \in DOMAIN ws : \E j \in DOMAIN Append(ws, Text(el)) :
                  Append(ws, Text(el))[j].el = ws[k].el
           /\ \E j \in DOMAIN Append(ws, Text(el)) : Append(ws, Text(el))[j].el = el
<1> DEFINE w == Text(el)
<1>1. w.el = el /\ ~w.chart /\ ~w.needsRow
  BY DEF Text
<1> HIDE DEF w
<1>2. /\ Len(ws) \in Nat /\ DOMAIN ws = 1..Len(ws) /\ DOMAIN Append(ws, w) = 1..(Len(ws) + 1)
      /\ Append(ws, w)[Len(ws) + 1] = w /\ \A k \in 1..Len(ws) : Append(ws, w)[k] = ws[k]
  BY AppendShape
<1>3. /\ \A k \in 1..(Len(ws) + 1) : k = Len(ws) + 1 \/ k \in 1..Len(ws)
      /\ \A k \in 1..Len(ws) : k \in 1..(Len(ws) + 1)
      /\ Len(ws) + 1 \in 1..(Len(ws) + 1)
  BY <1>2
<1>4. Throws(Append(ws, w), sh) => Throws(ws, sh)
  BY <1>1, <1>2, <1>3 DEF Throws, Throwing
<1>5. /\ \A k \in DOMAIN ws : \E j \in DOMAIN Append(ws, w) : Append(ws, w)[j].el = ws[k].el
      /\ \E j \in DOMAIN Append(ws, w) : Append(ws, w)[j].el = el
  BY <1>1, <1>2, <1>3
<1>6. QED
  BY <1>4, <1>5 DEF w

-----------------------------------------------------------------------------
(* One rest area                                                             *)

\* The queries around a rest area are asked once it is known; with the last
\* answer everything is drawn for the chargers kept, which the URL names.
StationInv ==
    /\ \A i \in DOMAIN calls : calls[i].at = "neighbors" => calls[i].sel # None
    /\ Quiet /\ error = "none" =>
         url # None /\ state.chargers = url /\ shown = [e \in Station!Elements |-> url]

LEMMA StationNames ==
    /\ \A ws, sh, v : Station!Draw(ws, sh, v) = Draw(ws, sh, v)
    /\ \A ws, sh : Station!Throws(ws, sh) <=> Throws(ws, sh)
    /\ \A els, sh : Station!Clear(els, sh) = Clear(els, sh)
    /\ \A i : Station!Others(i) = Others(i)
    /\ \A at, sel, on, caught : Station!Call(at, sel, on, caught) = Call(at, sel, on, caught)
    /\ Station!Worker = Worker
    /\ \A el : Station!Text(el) = Text(el)
BY DEF Station!Draw, Draw, Station!Throws, Throws, Station!Throwing, Throwing, Station!Clear, Clear,
       Station!Others, Others, Station!Call, Call, Station!Worker, Worker, Station!Text, Text

\* A rest area is drawn, all of it, or an exception shows.
LEMMA RenderKeeps ==
    ASSUME PageOK, page = "station", UNCHANGED <<page, empty, inputs>>, StationInv,
           NEW i \in DOMAIN calls, Station!Render(i), calls[i].sel # None
    PROVE  PageOK' /\ StationInv'
<1> DEFINE id == calls[i].sel
           ws == <<Station!renderInfo, Station!renderKpi, Station!renderStatusChart,
                   Station!renderOutputChart, Station!renderMap, Station!renderChargersTable>>
           all == Append(ws, Text("station-input"))
           loaded == [state EXCEPT !.currentStatId = id, !.chargers = id]
<1>1. calls' = Others(i)
  BY StationNames DEF Station!Render
<1>2. CallsOK(calls') /\ \A k \in DOMAIN calls' : calls'[k].at = "neighbors" => calls'[k].sel # None
  BY <1>1, OthersOK, OthersAmong DEF PageOK, StationInv, CallsOK
<1>3. /\ DOMAIN state = {"currentStatId", "chargers", "sortKey", "listening"}
      /\ DOMAIN state = DOMAIN Fresh(page)
      /\ DOMAIN shown = Station!Elements /\ Elements(page) = Station!Elements
  BY DEF PageOK, Fresh, Station!Fresh, Elements
<1>4. DOMAIN loaded = DOMAIN state /\ loaded.chargers = id
  BY <1>3
<1>5. CASE Throws(ws, shown)
  <2>1. showError /\ state' = loaded /\ shown' = Draw(ws, shown, id)
    BY <1>5, StationNames DEF Station!Render, Station!showError, showError
  <2>2. DOMAIN shown' = DOMAIN shown
    BY <2>1, Drawn
  <2> HIDE DEF loaded, ws, id
  <2>3. QED
    BY <1>2, <1>3, <1>4, <2>1, <2>2 DEF PageOK, StationInv, showError
<1>6. CASE ~Throws(ws, shown)
  <2>1. /\ state' = [loaded EXCEPT !.listening = TRUE]
        /\ shown' = Draw(all, shown, id)
        /\ url' = id
        /\ status' = "hidden" /\ UNCHANGED error
    BY <1>6, StationNames DEF Station!Render
  <2>2. IsSequence(ws) /\ DOMAIN ws = 1..6
    <3>1. ws \in Seq({ws[1], ws[2], ws[3], ws[4], ws[5], ws[6]})
      OBVIOUS
    <3>2. DOMAIN ws = 1..6
      OBVIOUS
    <3> HIDE DEF ws
    <3>3. QED
      BY <3>1, <3>2 DEF IsSequence
  <2>3. /\ ws[1].el = "page-title" /\ ws[2].el = "kpi-grid" /\ ws[3].el = "chart-status"
        /\ ws[4].el = "chart-output" /\ ws[5].el = "map-mini" /\ ws[6].el = "chargers-tbody"
    BY DEF Station!renderInfo, Station!renderKpi, Station!renderStatusChart,
           Station!renderOutputChart, Station!renderMap, Station!renderChargersTable,
           Station!Text, Station!NewChart
  <2>4. Station!Elements = {"page-title", "kpi-grid", "chart-status", "chart-output", "map-mini",
                            "chargers-tbody", "station-input"}
    BY DEF Station!Elements, Station!Canvases
  <2> HIDE DEF ws
  <2>5. /\ ~Throws(all, shown)
        /\ \A e \in DOMAIN shown : \E k \in DOMAIN all : all[k].el = e
    <3>1. \A e \in DOMAIN shown : e = "station-input" \/ \E k \in DOMAIN ws : ws[k].el = e
      BY <1>3, <2>2, <2>3, <2>4
    <3>2. /\ Throws(all, shown) => Throws(ws, shown)
          /\ \A k \in DOMAIN ws : \E j \in DOMAIN all : all[j].el = ws[k].el
          /\ \E j \in DOMAIN all : all[j].el = "station-input"
      <4> DEFINE el == "station-input"
      <4> HIDE DEF el
      <4>1. /\ Throws(Append(ws, Text(el)), shown) => Throws(ws, shown)
            /\ \A k \in DOMAIN ws : \E j \in DOMAIN Append(ws, Text(el)) :
                   Append(ws, Text(el))[j].el = ws[k].el
            /\ \E j \in DOMAIN Append(ws, Text(el)) : Append(ws, Text(el))[j].el = el
        BY <2>2, OneMoreText
      <4>2. QED
        BY <4>1 DEF el
    <3> HIDE DEF all
    <3>3. QED
      BY <1>6, <3>1, <3>2
  <2> HIDE DEF all
  <2>6. shown' = [e \in Station!Elements |-> id]
    BY <1>3, <2>1, <2>5, AllDrawn
  <2>7. DOMAIN state' = DOMAIN state /\ state'.chargers = id
    BY <1>3, <1>4, <2>1
  <2> HIDE DEF loaded, id
  <2>8. id # None
    BY DEF id
  <2>9. QED
    BY <1>2, <1>3, <2>1, <2>6, <2>7, <2>8 DEF PageOK, StationInv
<1>7. QED
  BY <1>5, <1>6

\* A load of a rest area begins.
LEMMA loadStationKeeps ==
    ASSUME PageOK, page = "station", StationInv, NEW others, CallsOK(others),
           \A k \in DOMAIN others : \E j \in DOMAIN calls : others[k] = calls[j],
           NEW id, Station!loadStation(id, others, TRUE)
    PROVE  /\ CallsOK(calls') /\ calls' # <<>> /\ status' = "busy"
           /\ \A k \in DOMAIN calls' : calls'[k].at = "neighbors" => calls'[k].sel # None
<1> DEFINE c == Call("station", id, Worker, TRUE)
<1>1. calls' = Append(others, c) /\ status' = "busy"
  BY StationNames DEF Station!loadStation
<1>2. CallsOK(Append(others, c)) /\ Append(others, c) # <<>>
  BY AppendOK, WorkersAreAwaited
<1>3. c.at # "neighbors"
  BY DEF Call
<1> HIDE DEF c
<1>4. \A k \in DOMAIN Append(others, c) :
          Append(others, c)[k] = c \/ \E j \in DOMAIN others : Append(others, c)[k] = others[j]
  BY AppendAmong DEF CallsOK
<1>5. QED
  BY <1>1, <1>2, <1>3, <1>4 DEF StationInv

LEMMA StationKeeps ==
    ASSUME PageOK, page = "station", UNCHANGED page, StationInv,
           (\E i \in DOMAIN calls : Station!Resume(i)) \/ Station!UserEvent
    PROVE  PageOK' /\ StationInv'
<1>0. /\ DOMAIN state = {"currentStatId", "chargers", "sortKey", "listening"}
      /\ DOMAIN state = DOMAIN Fresh(page)
      /\ DOMAIN shown = Station!Elements /\ Elements(page) = Station!Elements
  BY DEF PageOK, Fresh, Station!Fresh, Elements
<1>1. ASSUME NEW i \in DOMAIN calls, OpenEngine(i) \/ AskData(i, "fetch")
      PROVE  PageOK' /\ StationInv'
  <2>1. PageOK' /\ calls' # <<>>
    BY <1>1, OpenEngineKeeps, AskDataKeeps, WorkersAreAwaited
  <2>2. \A k \in DOMAIN calls' : calls'[k].at = "neighbors" => calls'[k].sel # None
    <3>1. PICK at \in {"parquet", "data"}, on \in Awaited :
             calls' = Append(Others(i), Call(at, None, on, calls[i].caught))
      BY <1>1, WorkersAreAwaited DEF OpenEngine, AskData, WaitsNext
    <3> DEFINE c == Call(at, None, on, calls[i].caught)
    <3>2. c.at # "neighbors"
      BY DEF Call
    <3>3. calls' = Append(Others(i), c)
      BY <3>1
    <3> HIDE DEF c
    <3>4. QED
      BY <3>2, <3>3, AppendAmong, OthersAmong, OthersOK DEF PageOK, CallsOK, StationInv
  <2>3. QED
    BY <2>1, <2>2 DEF StationInv, Quiet
<1>2. ASSUME NEW i \in DOMAIN calls, Station!Started(i)
      PROVE  PageOK' /\ StationInv'
  <2>1. UNCHANGED <<url, empty, state, shown, inputs>>
    BY <1>2 DEF Station!Started
  <2>2. CASE url = None /\ empty
    <3>1. calls' = Others(i) /\ showError
      BY <1>2, <2>2, StationNames DEF Station!Started, Station!showError, showError
    <3>2. QED
      BY <2>1, <3>1, OthersOK, OthersAmong DEF PageOK, StationInv, CallsOK, showError
  <2>3. CASE ~(url = None /\ empty)
    <3>1. PICK id : Station!loadStation(id, Others(i), TRUE) /\ UNCHANGED error
      BY <1>2, <2>3, StationNames DEF Station!Started
    <3>2. /\ CallsOK(calls') /\ calls' # <<>> /\ status' = "busy"
          /\ \A k \in DOMAIN calls' : calls'[k].at = "neighbors" => calls'[k].sel # None
      BY <3>1, OthersOK, OthersAmong, loadStationKeeps DEF PageOK, CallsOK
    <3>3. QED
      BY <2>1, <3>1, <3>2 DEF PageOK, StationInv, Quiet
  <2>4. QED
    BY <2>2, <2>3
<1>3. ASSUME NEW i \in DOMAIN calls, Station!DetailLoaded(i)
      PROVE  PageOK' /\ StationInv'
  <2>1. UNCHANGED <<empty, inputs>>
    BY <1>3 DEF Station!DetailLoaded
  <2>2. CASE /\ showError /\ calls' = Others(i)
             /\ UNCHANGED <<url, state, shown>>
    BY <2>1, <2>2, OthersOK, OthersAmong DEF PageOK, StationInv, CallsOK, showError
  <2>3. CASE /\ Station!IsStation(calls[i].sel)
             /\ Station!WaitsNext(i, "neighbors", calls[i].sel, Worker)
             /\ UNCHANGED <<url, state, shown, status, error>>
    <3> DEFINE c == Call("neighbors", calls[i].sel, Worker, calls[i].caught)
    <3>1. calls' = Append(Others(i), c)
      BY <2>3, StationNames DEF Station!WaitsNext
    <3>2. CallsOK(Append(Others(i), c)) /\ Append(Others(i), c) # <<>>
      BY AppendOK, OthersOK, WorkersAreAwaited DEF PageOK, CallOK
    <3>3. c.sel # None
      BY <2>3, InstanceAssumption DEF Station!IsStation, Call
    <3> HIDE DEF c
    <3>4. \A k \in DOMAIN calls' : calls'[k].at = "neighbors" => calls'[k].sel # None
      BY <3>1, <3>3, AppendAmong, OthersAmong, OthersOK DEF PageOK, CallsOK, StationInv
    <3>5. QED
      BY <2>1, <2>3, <3>1, <3>2, <3>4 DEF PageOK, StationInv, Quiet
  <2>4. CASE Station!IsStation(calls[i].sel) /\ Station!Render(i)
    <3>1. calls[i].sel # None
      BY <2>4, InstanceAssumption DEF Station!IsStation
    <3>2. QED
      BY <2>1, <2>4, <3>1, RenderKeeps
  <2>5. QED
    BY <1>3, <2>2, <2>3, <2>4, StationNames
       DEF Station!DetailLoaded, Station!showError, showError
<1>4. ASSUME NEW i \in DOMAIN calls, Station!NeighborsLoaded(i)
      PROVE  PageOK' /\ StationInv'
  <2>1. calls[i].sel # None
    BY <1>4 DEF Station!NeighborsLoaded, Station!Resumes, StationInv
  <2>2. QED
    BY <1>4, <2>1, RenderKeeps DEF Station!NeighborsLoaded
<1>5. ASSUME NEW id, Station!SelectStation(id)
      PROVE  PageOK' /\ StationInv'
  <2>1. /\ Input /\ shown' = Clear(Station!Canvases, shown)
        /\ Station!loadStation(id, calls, TRUE)
        /\ UNCHANGED <<url, empty, state, error>>
    BY <1>5, StationNames DEF Station!SelectStation, Station!Input, Input, Station!destroyCharts
  <2>2. /\ CallsOK(calls') /\ calls' # <<>> /\ status' = "busy"
        /\ \A k \in DOMAIN calls' : calls'[k].at = "neighbors" => calls'[k].sel # None
    BY <2>1, loadStationKeeps DEF PageOK
  <2>3. DOMAIN shown' = DOMAIN shown
    BY <2>1 DEF Clear
  <2>4. QED
    BY <2>1, <2>2, <2>3, Clicked DEF PageOK, StationInv, Quiet
<1>6. ASSUME NEW key, Station!SortChargers(key)
      PROVE  PageOK' /\ StationInv'
  <2> DEFINE ws == <<Station!renderChargersTable>>
  <2>1. /\ Input /\ state' = [state EXCEPT !.sortKey = key]
        /\ shown' = Draw(ws, shown, state.chargers)
        /\ UNCHANGED <<url, empty, calls, status, error>>
    BY <1>6, StationNames DEF Station!SortChargers, Station!Input, Input
  <2>2. DOMAIN state' = DOMAIN state /\ state'.chargers = state.chargers
    BY <1>0, <2>1
  <2>3. DOMAIN shown' = DOMAIN shown
    BY <2>1, Drawn
  <2>4. ASSUME shown = [e \in Station!Elements |-> url], state.chargers = url
        PROVE  shown' = [e \in Station!Elements |-> url]
    <3>1. \A e \in DOMAIN shown : Draw(ws, shown, url)[e] = url
      BY <1>0, <2>4, Drawn
    <3>2. Draw(ws, shown, url) = [e \in DOMAIN shown |-> Draw(ws, shown, url)[e]]
      BY DEF Draw
    <3> HIDE DEF ws
    <3>3. QED
      BY <1>0, <2>1, <2>4, <3>1, <3>2
  <2>5. QED
    BY <1>0, <2>1, <2>2, <2>3, <2>4, Clicked DEF PageOK, StationInv, Quiet
<1>7. ASSUME NEW i \in DOMAIN calls, Station!Resume(i)
      PROVE  \/ OpenEngine(i) \/ AskData(i, "fetch") \/ Station!Started(i)
             \/ Station!DetailLoaded(i) \/ Station!NeighborsLoaded(i)
  BY <1>7 DEF Station!Resume, Station!main, Station!initDuckDB, Station!loadCodes,
         Station!OpenEngine, OpenEngine, Station!AskData, AskData, Station!Resumes, Resumes,
         Station!IsTurn, IsTurn,
         Station!WaitsNext, WaitsNext, Station!Others, Others, Station!Call, Call
<1>8. QED
  BY <1>1, <1>2, <1>3, <1>4, <1>5, <1>6, <1>7 DEF Station!UserEvent

\* A worker answers the calls that wait for it in their order.
LEMMA FirstEnds ==
    ASSUME IsSequence(calls), NEW i \in DOMAIN calls, NEW at, Resumes(i, at),
           \A k \in DOMAIN calls : calls[k].on = Worker
    PROVE  /\ i = 1 /\ Len(calls) \in Nat /\ DOMAIN calls = 1..Len(calls)
           /\ (Others(i) = <<>>) <=> (Len(calls) = 1)
           /\ Others(i) # <<>> => Others(i)[Len(Others(i))] = calls[Len(calls)]
<1>1. /\ IsSequence(Others(i)) /\ i \in 1..Len(calls) /\ Len(calls) \in Nat
      /\ DOMAIN Others(i) = 1..(Len(calls) - 1) /\ Len(Others(i)) = Len(calls) - 1
      /\ \A k \in 1..(Len(calls) - 1) : Others(i)[k] = calls[IF k < i THEN k ELSE k + 1]
  BY OthersShape
<1>2. DOMAIN calls = 1..Len(calls)
  BY <1>1 DEF IsSequence
<1>3. i = 1
  <2>1. Worker \in Engines
    BY WorkersAreAwaited
  <2> SUFFICES ASSUME i > 1 PROVE FALSE
    BY <1>1
  <2>2. 1 \in 1..(i - 1) /\ 1 \in DOMAIN calls
    BY <1>1, <1>2
  <2>3. QED
    BY <2>1, <2>2 DEF Resumes, IsTurn
<1>4. (Others(i) = <<>>) <=> (Len(Others(i)) = 0)
  BY <1>1 DEF IsSequence
<1>5. QED
  BY <1>1, <1>2, <1>3, <1>4

-----------------------------------------------------------------------------
(* One highway                                                               *)

\* Of the list, or the first of an empty one.
Chosen(hw) == Route!IsRoute(hw) \/ hw = Routes[1]

\* Main is alone, or loads wait for the worker in the order they were chosen:
\* the title is that of the last, which is therefore drawn last.
RouteInv ==
    error = "none" =>
      /\ \A i \in DOMAIN calls :
           IF calls[i].at = "route"
           THEN calls[i].on = Worker /\ (Chosen(calls[i].sel) \/ calls[i].sel = None)
           ELSE Len(calls) = 1 /\ ~state.listening
      /\ calls # <<>> /\ calls[Len(calls)].at = "route"
           => shown["page-title"] = calls[Len(calls)].sel
      /\ Quiet => /\ shown = [e \in Route!Elements |-> state.stations]
                  /\ url = state.stations /\ Chosen(url)

LEMMA RouteNames ==
    /\ \A ws, sh, v : Route!Draw(ws, sh, v) = Draw(ws, sh, v)
    /\ \A ws, sh : Route!Throws(ws, sh) <=> Throws(ws, sh)
    /\ \A els, sh : Route!Clear(els, sh) = Clear(els, sh)
    /\ \A i : Route!Others(i) = Others(i)
    /\ \A at, sel, on, caught : Route!Call(at, sel, on, caught) = Call(at, sel, on, caught)
    /\ Route!Worker = Worker
    /\ \A el : Route!Text(el) = Text(el)
    /\ \A el : Route!NewChart(el) = NewChart(el)
    /\ \A i, at : Route!Resumes(i, at) <=> Resumes(i, at)
    /\ Route!Input <=> Input
    /\ Route!showError <=> showError
BY DEF Route!Draw, Draw, Route!Throws, Throws, Route!Throwing, Throwing, Route!Clear, Clear,
       Route!Others, Others, Route!Call, Call, Route!Worker, Worker, Route!Text, Text,
       Route!NewChart, NewChart, Route!Resumes, Resumes, Route!IsTurn, IsTurn, Route!Input, Input,
       Route!showError, showError

\* A highway is asked for: the charts are gone, the title is the new one.
LEMMA loadRouteKeeps ==
    ASSUME PageOK, page = "route", NEW others, CallsOK(others), NEW hw, Chosen(hw) \/ hw = None,
           Route!loadRoute(hw, others, TRUE),
           \A k \in DOMAIN others : /\ others[k].at = "route" /\ others[k].on = Worker
                                    /\ Chosen(others[k].sel) \/ others[k].sel = None
    PROVE  /\ CallsOK(calls') /\ DOMAIN shown' = DOMAIN shown /\ calls' # <<>>
           /\ \A k \in DOMAIN calls' : /\ calls'[k].at = "route" /\ calls'[k].on = Worker
                                       /\ Chosen(calls'[k].sel) \/ calls'[k].sel = None
           /\ shown'["page-title"] = calls'[Len(calls')].sel
<1> DEFINE c == Call("route", hw, Worker, TRUE)
           ws == <<Text("page-title")>>
           sh == Route!destroyCharts(shown)
<1>1. calls' = Append(others, c) /\ shown' = Draw(ws, sh, hw)
  BY RouteNames DEF Route!loadRoute
<1>2. CallsOK(Append(others, c))
  BY AppendOK, WorkersAreAwaited
<1>3. c.at = "route" /\ c.on = Worker /\ c.sel = hw
  BY DEF Call
<1>4. DOMAIN sh = DOMAIN shown /\ "page-title" \in DOMAIN sh
  BY DEF Route!destroyCharts, Route!Clear, PageOK, Elements, Route!Elements
<1>5. DOMAIN ws = {1} /\ ws[1].el = "page-title" /\ ~ws[1].chart /\ ~ws[1].needsRow
  BY DEF Text
<1> HIDE DEF c, ws, sh
<1>6. DOMAIN shown' = DOMAIN shown /\ shown'["page-title"] = hw
  BY <1>1, <1>4, <1>5, AllDrawn, TextsNeverThrow
<1>7. IsSequence(others)
  BY DEF CallsOK
<1>8. /\ Len(others) \in Nat
      /\ Append(others, c)[Len(others) + 1] = c /\ Len(Append(others, c)) = Len(others) + 1
      /\ Append(others, c) # <<>>
  BY <1>7, AppendShape
<1>9. \A k \in DOMAIN calls' : calls'[k] = c \/ \E j \in DOMAIN others : calls'[k] = others[j]
  BY <1>1, <1>7, AppendAmong
<1>10. calls'[Len(calls')].sel = hw
  BY <1>1, <1>3, <1>8
<1>11. QED
  BY <1>1, <1>2, <1>3, <1>6, <1>8, <1>9, <1>10

LEMMA RouteOpens ==
    ASSUME PageOK, page = "route", UNCHANGED page, RouteInv,
           NEW i \in DOMAIN calls, OpenEngine(i) \/ AskData(i, "fetch")
    PROVE  PageOK' /\ RouteInv'
<1>1. PageOK' /\ calls' # <<>>
  BY OpenEngineKeeps, AskDataKeeps, WorkersAreAwaited
<1> SUFFICES ASSUME error = "none" PROVE RouteInv'
  BY <1>1 DEF RouteInv, OpenEngine, AskData
<1>2. PICK at \in {"parquet", "data"}, on \in Awaited :
         calls' = Append(Others(i), Call(at, None, on, calls[i].caught))
  BY WorkersAreAwaited DEF OpenEngine, AskData, WaitsNext
<1>3. calls[i].at # "route" /\ UNCHANGED <<url, state, shown, error>>
  BY DEF OpenEngine, AskData, Resumes
<1>4. Len(calls) = 1 /\ ~state.listening
  BY <1>3 DEF RouteInv
<1>5. IsSequence(Others(i)) /\ Len(Others(i)) = 0
  BY <1>4, OthersShape DEF PageOK, CallsOK
<1> DEFINE c == Call(at, None, on, calls[i].caught)
<1>6. c.at # "route"
  BY DEF Call
<1>7. calls' = Append(Others(i), c)
  BY <1>2
<1> HIDE DEF c
<1>8. Len(calls') = 1 /\ DOMAIN calls' = {1} /\ calls'[1] = c
  BY <1>5, <1>7, AppendShape
<1>9. QED
  BY <1>3, <1>4, <1>6, <1>8 DEF RouteInv, Quiet

LEMMA RouteStarted ==
    ASSUME PageOK, page = "route", UNCHANGED page, RouteInv,
           NEW i \in DOMAIN calls, Route!Started(i)
    PROVE  PageOK' /\ RouteInv'
<1>1. UNCHANGED <<url, empty, state, inputs>> /\ calls[i].at = "data"
  BY DEF Route!Started, Route!Resumes
<1>2. CASE empty /\ url = None
  BY <1>1, <1>2, RouteNames, OthersOK DEF Route!Started, PageOK, RouteInv, showError
<1>3. CASE ~(empty /\ url = None)
  <2> DEFINE hw == CASE empty -> None [] Route!IsRoute(url) -> url [] OTHER -> Routes[1]
  <2>1. Route!loadRoute(hw, Others(i), TRUE) /\ UNCHANGED <<status, error>>
    BY <1>3, RouteNames DEF Route!Started
  <2>2. Chosen(hw) \/ hw = None
    BY DEF Chosen
  <2> HIDE DEF hw
  <2>3. CallsOK(Others(i))
    BY OthersOK DEF PageOK
  <2>4. CASE error = "none"
    <3>1. Len(calls) = 1
      BY <1>1, <2>4 DEF RouteInv
    <3>2. DOMAIN Others(i) = {}
      BY <3>1, OthersShape DEF PageOK, CallsOK
    <3>3. /\ CallsOK(calls') /\ DOMAIN shown' = DOMAIN shown /\ calls' # <<>>
          /\ \A k \in DOMAIN calls' : /\ calls'[k].at = "route" /\ calls'[k].on = Worker
                                      /\ Chosen(calls'[k].sel) \/ calls'[k].sel = None
          /\ shown'["page-title"] = calls'[Len(calls')].sel
      BY <2>1, <2>2, <2>3, <3>2, loadRouteKeeps
    <3>4. PageOK'
      BY <1>1, <2>1, <3>3 DEF PageOK
    <3>5. QED
      BY <1>1, <2>1, <3>3, <3>4 DEF RouteInv, Quiet, Chosen, Route!IsRoute
  <2>5. CASE error # "none"
    <3>1. CallsOK(calls')
      BY <2>1, <2>3, RouteNames, AppendOK, WorkersAreAwaited DEF Route!loadRoute
    <3>2. DOMAIN shown' = DOMAIN shown
      BY <2>1 DEF Route!loadRoute, Route!Draw, Route!destroyCharts, Route!Clear
    <3>3. QED
      BY <1>1, <2>1, <2>5, <3>1, <3>2 DEF PageOK, RouteInv
  <2>6. QED
    BY <2>4, <2>5
<1>4. QED
  BY <1>2, <1>3

\* A highway has arrived: all is drawn, and its title is there already.
LEMMA RouteDrawn ==
    ASSUME PageOK, page = "route", UNCHANGED page, RouteInv,
           NEW i \in DOMAIN calls, Route!RouteLoaded(i)
    PROVE  PageOK' /\ RouteInv'
<1> DEFINE hw == calls[i].sel
           ws == <<Route!renderKpi, Route!renderInsights, Route!renderStations,
                   Route!renderOutputCompare, Route!renderOps, Route!renderSpacing>>
           all == ws \o <<Text("header-snapshot")>>
           kept == [state EXCEPT !.stations = hw]
<1>1. Resumes(i, "route") /\ calls' = Others(i) /\ UNCHANGED <<empty, inputs>>
  BY RouteNames DEF Route!RouteLoaded
<1>2. CallsOK(calls')
  BY <1>1, OthersOK DEF PageOK
<1>3. /\ DOMAIN state = {"stations", "sortKey", "listening"} /\ DOMAIN state = DOMAIN Fresh(page)
      /\ DOMAIN shown = Route!Elements /\ Elements(page) = Route!Elements
  BY DEF PageOK, Fresh, Route!Fresh, Elements
<1>4. CASE hw \in Unplaced \cup {None}
  BY <1>1, <1>2, <1>4, RouteNames DEF Route!RouteLoaded, PageOK, RouteInv, showError
<1>5. CASE hw \notin Unplaced \cup {None} /\ Throws(ws, shown)
  <2>1. showError /\ state' = kept /\ shown' = Draw(ws, shown, hw) /\ UNCHANGED url
    BY <1>5, RouteNames DEF Route!RouteLoaded
  <2>2. DOMAIN state' = DOMAIN state /\ DOMAIN shown' = DOMAIN shown
    BY <1>3, <2>1, Drawn
  <2> HIDE DEF kept, ws, hw
  <2>3. QED
    BY <1>1, <1>2, <1>3, <2>1, <2>2 DEF PageOK, RouteInv, showError
<1>6. CASE hw \notin Unplaced \cup {None} /\ ~Throws(ws, shown)
  <2>1. /\ state' = [state EXCEPT !.stations = hw, !.listening = TRUE]
        /\ shown' = Draw(all, shown, hw) /\ url' = hw
        /\ status' = "hidden" /\ UNCHANGED error
    BY <1>6, RouteNames DEF Route!RouteLoaded
  <2>2. DOMAIN state' = DOMAIN state /\ state'.stations = hw /\ state'.listening = TRUE
    BY <1>3, <2>1
  <2>3. IsSequence(ws) /\ DOMAIN ws = 1..6 /\ all = Append(ws, Text("header-snapshot"))
    <3> DEFINE S == {ws[1], ws[2], ws[3], ws[4], ws[5], ws[6]}
               w == Text("header-snapshot")
    <3>1. ws \in Seq(S) /\ ws \in Seq(S \cup {w})
      OBVIOUS
    <3>2. DOMAIN ws = 1..6
      OBVIOUS
    <3>3. w \in S \cup {w}
      OBVIOUS
    <3> HIDE DEF ws, S, w
    <3>4. Append(ws, w) = ws \o <<w>>
      BY <3>1, <3>3, AppendIsConcat
    <3>5. QED
      BY <3>1, <3>2, <3>4 DEF IsSequence, w
  <2>4. /\ ws[1].el = "kpi-grid" /\ ws[2].el = "insight-grid" /\ ws[3].el = "chart-stations"
        /\ ws[4].el = "chart-output" /\ ws[5].el = "chart-ops" /\ ws[6].el = "chart-spacing"
    BY DEF Route!renderKpi, Route!renderInsights, Route!renderStations,
           Route!renderOutputCompare, Route!renderOps, Route!renderSpacing,
           Route!Text, Route!NewChart
  <2>5. Route!Elements = {"chart-stations", "chart-output", "chart-ops", "chart-spacing",
                          "page-title", "kpi-grid", "insight-grid", "header-snapshot"}
    BY DEF Route!Elements, Route!Canvases
  <2> HIDE DEF ws
  <2>6. /\ ~Throws(all, shown)
        /\ \A e \in DOMAIN shown \ {"page-title"} : \E k \in DOMAIN all : all[k].el = e
        /\ \A k \in DOMAIN all : all[k].el # "page-title"
    <3> DEFINE el == "header-snapshot"
    <3>1. all = Append(ws, Text(el))
      BY <2>3
    <3>2. \A e \in DOMAIN shown \ {"page-title"} : e = el \/ \E k \in DOMAIN ws : ws[k].el = e
      BY <1>3, <2>3, <2>4, <2>5
    <3>3. \A k \in DOMAIN ws : ws[k].el # "page-title"
      BY <2>3, <2>4
    <3>4. Text(el).el # "page-title"
      BY DEF Text
    <3> HIDE DEF all, el
    <3>5. /\ Throws(Append(ws, Text(el)), shown) => Throws(ws, shown)
          /\ \A k \in DOMAIN ws : \E j \in DOMAIN Append(ws, Text(el)) :
                 Append(ws, Text(el))[j].el = ws[k].el
          /\ \E j \in DOMAIN Append(ws, Text(el)) : Append(ws, Text(el))[j].el = el
      BY <2>3, OneMoreText
    <3>6. \A k \in DOMAIN Append(ws, Text(el)) : Append(ws, Text(el))[k] = Text(el)
              \/ \E j \in DOMAIN ws : Append(ws, Text(el))[k] = ws[j]
      <4> DEFINE w == Text(el)
      <4> HIDE DEF w
      <4>1. \A k \in DOMAIN Append(ws, w) :
                Append(ws, w)[k] = w \/ \E j \in DOMAIN ws : Append(ws, w)[k] = ws[j]
        <5>1. IsSequence(ws)
          BY <2>3
        <5>2. QED
          BY <5>1, AppendAmong
      <4>2. QED
        BY <4>1 DEF w
    <3>7. QED
      BY <1>6, <3>1, <3>2, <3>3, <3>4, <3>5, <3>6
  <2> HIDE DEF all
  <2>7. /\ DOMAIN shown' = DOMAIN shown /\ shown'["page-title"] = shown["page-title"]
        /\ \A e \in DOMAIN shown \ {"page-title"} : shown'[e] = hw
        /\ shown' = [e \in DOMAIN shown |-> shown'[e]]
    <3>1. shown' = [e \in DOMAIN shown |-> IF \E k \in DOMAIN all : all[k].el = e
                                          THEN hw ELSE shown[e]]
      BY <2>1, <2>6, AllDrawn
    <3>2. "page-title" \in DOMAIN shown
      BY <1>3, <2>5
    <3>3. QED
      BY <2>6, <3>1, <3>2
  <2> HIDE DEF hw
  <2>8. PageOK'
    BY <1>1, <1>2, <1>3, <2>1, <2>2, <2>7 DEF PageOK
  <2> SUFFICES ASSUME error = "none" PROVE RouteInv'
    BY <2>1, <2>8 DEF RouteInv
  <2>9. CASE \E k \in DOMAIN calls : calls[k].at # "route"
    <3>1. calls[i].at = "route" /\ Len(calls) = 1 /\ DOMAIN calls = 1..1
      BY <1>1, <2>9, OthersShape DEF Resumes, RouteInv, PageOK, CallsOK, IsSequence
    <3>2. QED
      BY <2>9, <3>1
  <2>10. CASE \A k \in DOMAIN calls : calls[k].at = "route"
    <3>1. \A k \in DOMAIN calls : calls[k].on = Worker
      BY <2>10 DEF RouteInv
    <3>2. /\ i = 1 /\ Len(calls) \in Nat /\ DOMAIN calls = 1..Len(calls)
          /\ (Others(i) = <<>>) <=> (Len(calls) = 1)
          /\ Others(i) # <<>> => Others(i)[Len(Others(i))] = calls[Len(calls)]
      BY <1>1, <3>1, FirstEnds DEF PageOK, CallsOK
    <3>3. \A k \in DOMAIN calls' : \E j \in DOMAIN calls : calls'[k] = calls[j]
      BY <1>1, OthersAmong DEF PageOK, CallsOK
    <3>4. \A k \in DOMAIN calls' : /\ calls'[k].at = "route" /\ calls'[k].on = Worker
                                   /\ Chosen(calls'[k].sel) \/ calls'[k].sel = None
      BY <2>10, <3>3 DEF RouteInv
    <3>5. calls # <<>> /\ calls[Len(calls)].at = "route" /\ Len(calls) \in DOMAIN calls
      <4>1. Len(calls) \in DOMAIN calls
        BY <3>2
      <4>2. QED
        BY <2>10, <3>2, <4>1
    <3>6. shown["page-title"] = calls[Len(calls)].sel
      BY <3>5 DEF RouteInv
    <3>7. calls' # <<>> => shown'["page-title"] = calls'[Len(calls')].sel
      BY <1>1, <2>7, <3>2, <3>6
    <3>8. ASSUME calls' = <<>>
          PROVE  shown' = [e \in Route!Elements |-> hw] /\ Chosen(hw)
      <4>1. shown["page-title"] = hw
        BY <1>1, <3>2, <3>6, <3>8 DEF hw
      <4>2. \A e \in DOMAIN shown : shown'[e] = hw
        BY <2>7, <4>1
      <4>3. Chosen(hw)
        BY <1>6, <2>10 DEF RouteInv, hw
      <4>4. QED
        BY <1>3, <2>7, <4>2, <4>3
    <3>9. QED
      BY <2>1, <2>2, <3>4, <3>7, <3>8 DEF RouteInv, Quiet, Chosen, Route!IsRoute
  <2>11. QED
    BY <2>9, <2>10
<1>7. QED
  BY <1>4, <1>5, <1>6

LEMMA RouteUser ==
    ASSUME PageOK, page = "route", UNCHANGED page, RouteInv, Route!UserEvent
    PROVE  PageOK' /\ RouteInv'
<1>0. /\ DOMAIN state = {"stations", "sortKey", "listening"} /\ DOMAIN state = DOMAIN Fresh(page)
      /\ DOMAIN shown = Route!Elements /\ Elements(page) = Route!Elements
      /\ {"page-title", "chart-stations"} \subseteq Route!Elements
  BY DEF PageOK, Fresh, Route!Fresh, Elements, Route!Elements, Route!Canvases
<1>1. ASSUME NEW r \in DOMAIN Routes, Route!SelectRoute(Routes[r])
      PROVE  PageOK' /\ RouteInv'
  <2> DEFINE hw == Routes[r]
  <2>1. /\ Input /\ status' = "busy" /\ Route!loadRoute(hw, calls, TRUE) /\ state.listening
        /\ UNCHANGED <<url, empty, state, error>>
    BY <1>1, RouteNames DEF Route!SelectRoute
  <2>2. Chosen(hw)
    BY DEF Chosen, Route!IsRoute
  <2> HIDE DEF hw
  <2>3. CASE error = "none"
    <3>1. \A k \in DOMAIN calls : /\ calls[k].at = "route" /\ calls[k].on = Worker
                                  /\ Chosen(calls[k].sel) \/ calls[k].sel = None
      BY <2>1, <2>3 DEF RouteInv
    <3>2. /\ CallsOK(calls') /\ DOMAIN shown' = DOMAIN shown /\ calls' # <<>>
          /\ \A k \in DOMAIN calls' : /\ calls'[k].at = "route" /\ calls'[k].on = Worker
                                      /\ Chosen(calls'[k].sel) \/ calls'[k].sel = None
          /\ shown'["page-title"] = calls'[Len(calls')].sel
      BY <2>1, <2>2, <3>1, loadRouteKeeps DEF PageOK
    <3>3. PageOK'
      BY <2>1, <3>2, Clicked DEF PageOK
    <3>4. QED
      BY <2>1, <3>2, <3>3 DEF RouteInv, Quiet, Chosen, Route!IsRoute
  <2>4. CASE error # "none"
    <3>1. CallsOK(calls')
      BY <2>1, RouteNames, AppendOK, WorkersAreAwaited DEF Route!loadRoute, PageOK
    <3>2. DOMAIN shown' = DOMAIN shown
      BY <2>1 DEF Route!loadRoute, Route!Draw, Route!destroyCharts, Route!Clear
    <3>3. QED
      BY <2>1, <2>4, <3>1, <3>2, Clicked DEF PageOK, RouteInv
  <2>5. QED
    BY <2>3, <2>4
<1>2. ASSUME NEW key, Route!rerenderStations(key)
      PROVE  PageOK' /\ RouteInv'
  <2> DEFINE ws == <<Route!renderStations>>
             sh == Clear({"chart-stations"}, shown)
  <2>1. /\ Input /\ state' = [state EXCEPT !.sortKey = key]
        /\ shown' = Draw(ws, sh, state.stations) /\ state.listening
        /\ UNCHANGED <<url, empty, calls, status, error>>
    BY <1>2, RouteNames DEF Route!rerenderStations
  <2>2. DOMAIN state' = DOMAIN state /\ state'.stations = state.stations
        /\ state'.listening = state.listening
    BY <1>0, <2>1
  <2>3. /\ DOMAIN sh = DOMAIN shown /\ sh["chart-stations"] = Blank
        /\ \A e \in DOMAIN shown \ {"chart-stations"} : sh[e] = shown[e]
    BY <1>0 DEF Clear
  <2>4. DOMAIN ws = {1} /\ ws[1].el = "chart-stations" /\ ~ws[1].needsRow
    BY DEF Route!renderStations, Route!NewChart
  <2> HIDE DEF ws, sh
  <2>5. ~Throws(ws, sh)
    BY <2>3, <2>4 DEF Throws, Throwing
  <2>6. shown' = [e \in DOMAIN shown |-> IF e = "chart-stations" THEN state.stations ELSE shown[e]]
    <3>1. shown' = [e \in DOMAIN sh |-> IF \E k \in DOMAIN ws : ws[k].el = e
                                       THEN state.stations ELSE sh[e]]
      BY <2>1, <2>5, AllDrawn
    <3>2. QED
      BY <2>3, <2>4, <3>1
  <2>7. DOMAIN shown' = DOMAIN shown /\ shown'["page-title"] = shown["page-title"]
    BY <1>0, <2>6
  <2>8. shown = [e \in Route!Elements |-> state.stations]
          => shown' = [e \in Route!Elements |-> state.stations]
    BY <1>0, <2>6
  <2>9. PageOK'
    BY <1>0, <2>1, <2>2, <2>7, Clicked DEF PageOK
  <2>10. QED
    BY <2>1, <2>2, <2>7, <2>8, <2>9 DEF RouteInv, Quiet, Chosen, Route!IsRoute
<1>3. QED
  BY <1>1, <1>2 DEF Route!UserEvent

LEMMA RouteKeeps ==
    ASSUME PageOK, page = "route", UNCHANGED page, RouteInv,
           (\E i \in DOMAIN calls : Route!Resume(i)) \/ Route!UserEvent
    PROVE  PageOK' /\ RouteInv'
<1>1. ASSUME NEW i \in DOMAIN calls, Route!Resume(i)
      PROVE  OpenEngine(i) \/ AskData(i, "fetch") \/ Route!Started(i) \/ Route!RouteLoaded(i)
  BY <1>1 DEF Route!Resume, Route!main, Route!initDuckDB, Route!loadCodes,
         Route!OpenEngine, OpenEngine, Route!AskData, AskData, Route!Resumes, Resumes, Route!IsTurn, IsTurn,
         Route!WaitsNext, WaitsNext, Route!Others, Others, Route!Call, Call
<1>2. QED
  BY <1>1, RouteOpens, RouteStarted, RouteDrawn, RouteUser

-----------------------------------------------------------------------------
(* The national dashboard                                                    *)

\* Main is done: whatever waits is a filter, in the queue of the one worker.
Filtering == \A i \in DOMAIN calls : calls[i].at = "filtered" /\ calls[i].on = Worker

\* Main is alone and nothing is drawn, or URL, chip and filter agree and the
\* last of the filters under way, which is drawn last, is theirs.
NationalInv ==
    error = "none" =>
      /\ \/ Len(calls) = 1 /\ calls[1].at # "filtered"
            /\ \A e \in National!Elements : shown[e] = Blank
         \/ Filtering
      /\ Filtering =>
           /\ url = state.sido /\ url = National!Filter(url)
           /\ shown["chart-dc-ratio"] = None
           /\ shown["region-filter"] = IF url = None THEN Blank ELSE url
           /\ calls # <<>> => calls[Len(calls)].sel = url
           /\ Quiet => shown = National!Restored(url)

LEMMA NationalNames ==
    /\ \A ws, sh, v : National!Draw(ws, sh, v) = Draw(ws, sh, v)
    /\ \A ws, sh : National!Throws(ws, sh) <=> Throws(ws, sh)
    /\ \A els, sh : National!Clear(els, sh) = Clear(els, sh)
    /\ \A i : National!Others(i) = Others(i)
    /\ \A at, sel, on, caught : National!Call(at, sel, on, caught) = Call(at, sel, on, caught)
    /\ National!Worker = Worker
    /\ \A el : National!Text(el) = Text(el)
    /\ \A i, at : National!Resumes(i, at) <=> Resumes(i, at)
    /\ National!Input <=> Input
    /\ \A i : National!Raise(i) <=> Raise(i)
BY DEF National!Draw, Draw, National!Throws, Throws, National!Throwing, Throwing,
       National!Clear, Clear, National!Others, Others, National!Call, Call,
       National!Worker, Worker, National!Text, Text, National!Resumes, Resumes, National!IsTurn, IsTurn,
       National!Input, Input, National!Raise, Raise, National!showError, showError

LEMMA NationalShape ==
    ASSUME PageOK, page = "national"
    PROVE  /\ DOMAIN state = {"sido"} /\ DOMAIN state = DOMAIN Fresh(page)
           /\ DOMAIN shown = National!Elements /\ Elements(page) = National!Elements
           /\ National!Elements = {"region-filter", "kpi-grid", "chart-operators",
                  "chart-density", "chart-dc-ratio", "chart-types", "chart-output",
                  "chart-year", "chart-kind", "insights"}
BY DEF PageOK, Fresh, National!Fresh, Elements, National!Elements

\* A filter is applied: URL, chip and the last call are of the same province.
LEMMA applyFilterKeeps ==
    ASSUME PageOK, page = "national", NEW others, CallsOK(others), NEW sido,
           NEW caught \in BOOLEAN, NEW sh, DOMAIN sh = DOMAIN shown,
           National!applyFilter(sido, others, caught, sh), UNCHANGED empty
    PROVE  /\ CallsOK(calls') /\ DOMAIN shown' = DOMAIN shown /\ DOMAIN state' = DOMAIN state
           /\ url' = state'.sido /\ url' = National!Filter(url')
           /\ (\A i \in DOMAIN others : others[i].at = "filtered" /\ others[i].on = Worker)
                => Filtering'
           /\ calls' # <<>> /\ calls'[Len(calls')].sel = url'
           /\ shown'["region-filter"] = IF url' = None THEN Blank ELSE url'
           /\ shown'["chart-dc-ratio"] = sh["chart-dc-ratio"]
<1> DEFINE to == National!Filter(sido)
           c == Call("filtered", to, Worker, caught)
<1>1. /\ state' = [state EXCEPT !.sido = to] /\ url' = to /\ calls' = Append(others, c)
      /\ shown' = [sh EXCEPT !["region-filter"] = IF to = None THEN Blank ELSE to]
  BY NationalNames DEF National!applyFilter, National!renderRegionChip
<1>2. to = National!Filter(to)
  BY DEF National!Filter
<1>3. CallsOK(Append(others, c))
  BY AppendOK, WorkersAreAwaited
<1>4. c.at = "filtered" /\ c.on = Worker /\ c.sel = to
  BY DEF Call
<1> HIDE DEF c, to
<1>5. IsSequence(others)
  BY DEF CallsOK
<1>6. /\ Len(others) \in Nat
      /\ Append(others, c)[Len(others) + 1] = c /\ Len(Append(others, c)) = Len(others) + 1
      /\ Append(others, c) # <<>>
  BY <1>5, AppendShape
<1>7. \A k \in DOMAIN calls' : calls'[k] = c \/ \E j \in DOMAIN others : calls'[k] = others[j]
  BY <1>1, <1>5, AppendAmong
<1>8. calls'[Len(calls')].sel = to
  BY <1>1, <1>4, <1>6
<1>9. /\ DOMAIN shown' = DOMAIN shown /\ DOMAIN state' = DOMAIN state /\ state'.sido = to
      /\ shown'["region-filter"] = IF to = None THEN Blank ELSE to
      /\ shown'["chart-dc-ratio"] = sh["chart-dc-ratio"]
  BY <1>1, NationalShape
<1>10. (\A i \in DOMAIN others : others[i].at = "filtered" /\ others[i].on = Worker) => Filtering'
  <2> SUFFICES ASSUME \A i \in DOMAIN others : others[i].at = "filtered" /\ others[i].on = Worker
               PROVE  \A k \in DOMAIN calls' : calls'[k].at = "filtered" /\ calls'[k].on = Worker
    BY DEF Filtering, Worker
  <2>1. QED
    BY <1>4, <1>7
<1>11. url' = National!Filter(url')
  BY <1>1, <1>2
<1>12. QED
  BY <1>1, <1>3, <1>6, <1>8, <1>9, <1>10, <1>11

LEMMA NationalOpens ==
    ASSUME PageOK, page = "national", UNCHANGED page, NationalInv,
           NEW i \in DOMAIN calls, OpenEngine(i) \/ AskData(i, "fetchT")
    PROVE  PageOK' /\ NationalInv'
<1>1. PageOK' /\ calls' # <<>>
  BY OpenEngineKeeps, AskDataKeeps, WorkersAreAwaited
<1> SUFFICES ASSUME error = "none" PROVE NationalInv'
  BY <1>1 DEF NationalInv, OpenEngine, AskData
<1>2. PICK at \in {"parquet", "data"}, on \in Awaited :
         calls' = Append(Others(i), Call(at, None, on, calls[i].caught))
  BY WorkersAreAwaited DEF OpenEngine, AskData, WaitsNext
<1>3. calls[i].at # "filtered" /\ UNCHANGED <<url, state, shown, error>>
  BY DEF OpenEngine, AskData, Resumes
<1>4. Len(calls) = 1 /\ \A e \in National!Elements : shown[e] = Blank
  BY <1>3 DEF NationalInv, Filtering
<1>5. IsSequence(Others(i)) /\ Len(Others(i)) = 0
  BY <1>4, OthersShape DEF PageOK, CallsOK
<1> DEFINE c == Call(at, None, on, calls[i].caught)
<1>6. c.at # "filtered"
  BY DEF Call
<1>7. calls' = Append(Others(i), c)
  BY <1>2
<1> HIDE DEF c
<1>8. Len(calls') = 1 /\ 1 \in DOMAIN calls' /\ calls'[1] = c
  BY <1>5, <1>7, AppendShape
<1>9. ~Filtering'
  BY <1>6, <1>8 DEF Filtering
<1>10. QED
  BY <1>3, <1>4, <1>6, <1>8, <1>9 DEF NationalInv, National!Elements

LEMMA NationalStarted ==
    ASSUME PageOK, page = "national", UNCHANGED page, NationalInv,
           NEW i \in DOMAIN calls, National!Started(i)
    PROVE  PageOK' /\ NationalInv'
<1> DEFINE ws == <<National!renderDcRatio>>
           sh == Draw(ws, shown, None)
<1>1. /\ Resumes(i, "data") /\ status' = "hidden" /\ UNCHANGED <<empty, error, inputs>>
      /\ National!applyFilter(url, Others(i), TRUE, sh)
  BY NationalNames DEF National!Started
<1>2. DOMAIN ws = {1} /\ ws[1].el = "chart-dc-ratio" /\ ~ws[1].chart /\ ~ws[1].needsRow
  BY DEF National!renderDcRatio, National!mountChart, National!Text
<1> HIDE DEF ws
<1>3. DOMAIN sh = DOMAIN shown /\ sh["chart-dc-ratio"] = None
  BY <1>2, AllDrawn, TextsNeverThrow, NationalShape
<1> HIDE DEF sh
<1>4. CallsOK(Others(i))
  BY OthersOK DEF PageOK
<1>5. /\ CallsOK(calls') /\ DOMAIN shown' = DOMAIN shown /\ DOMAIN state' = DOMAIN state
      /\ url' = state'.sido /\ url' = National!Filter(url')
      /\ (\A k \in DOMAIN Others(i) : Others(i)[k].at = "filtered" /\ Others(i)[k].on = Worker)
           => Filtering'
      /\ calls' # <<>> /\ calls'[Len(calls')].sel = url'
      /\ shown'["region-filter"] = IF url' = None THEN Blank ELSE url'
      /\ shown'["chart-dc-ratio"] = sh["chart-dc-ratio"]
  BY <1>1, <1>3, <1>4, applyFilterKeeps
<1>6. PageOK'
  BY <1>1, <1>5, NationalShape DEF PageOK
<1> SUFFICES ASSUME error = "none" PROVE NationalInv'
  BY <1>1, <1>6 DEF NationalInv
<1>7. Len(calls) = 1
  BY <1>1 DEF NationalInv, Filtering, Resumes
<1>8. DOMAIN Others(i) = {}
  BY <1>7, OthersShape DEF PageOK, CallsOK
<1>9. url' = National!Filter(url)'
  BY <1>1, <1>5 DEF National!Filter
<1>10. QED
  BY <1>1, <1>3, <1>5, <1>8, <1>9 DEF NationalInv, Quiet

LEMMA NationalUser ==
    ASSUME PageOK, page = "national", UNCHANGED page, NationalInv, National!UserEvent
    PROVE  PageOK' /\ NationalInv'
<1>1. PICK sido : /\ Input /\ National!applyFilter(sido, calls, FALSE, shown)
                  /\ shown["chart-dc-ratio"] # Blank \/ shown["region-filter"] # Blank
                  /\ UNCHANGED <<empty, status, error>>
  BY NationalNames DEF National!UserEvent, National!ClickChip, National!ClickBar
<1>2. /\ CallsOK(calls') /\ DOMAIN shown' = DOMAIN shown /\ DOMAIN state' = DOMAIN state
      /\ url' = state'.sido /\ url' = National!Filter(url')
      /\ (\A k \in DOMAIN calls : calls[k].at = "filtered" /\ calls[k].on = Worker) => Filtering'
      /\ calls' # <<>> /\ calls'[Len(calls')].sel = url'
      /\ shown'["region-filter"] = IF url' = None THEN Blank ELSE url'
      /\ shown'["chart-dc-ratio"] = shown["chart-dc-ratio"]
  BY <1>1, applyFilterKeeps DEF PageOK
<1>3. PageOK'
  BY <1>1, <1>2, NationalShape, Clicked DEF PageOK
<1> SUFFICES ASSUME error = "none" PROVE NationalInv'
  BY <1>1, <1>3 DEF NationalInv
<1>4. Filtering
  BY <1>1, NationalShape DEF NationalInv
<1>5. url' = National!Filter(url)'
  BY <1>1, <1>2 DEF National!Filter
<1>6. QED
  BY <1>1, <1>2, <1>4, <1>5 DEF NationalInv, Quiet, Filtering

\* The answers to a filter: what is drawn from them, and what is not.
LEMMA FilteredDraws ==
    ASSUME PageOK, page = "national", NEW i \in DOMAIN calls, National!Filtered(i)
    PROVE  /\ DOMAIN shown' = DOMAIN shown /\ shown' = [e \in DOMAIN shown |-> shown'[e]]
           /\ error' # "none" \/ UNCHANGED <<status, error>>
           /\ error' \in {"none", "panel", "console"} /\ status' \in {"hidden", "busy", "prompt"}
           /\ error # "none" => error' # "none"
           /\ shown'["chart-dc-ratio"] = shown["chart-dc-ratio"]
           /\ shown'["region-filter"] = shown["region-filter"]
           /\ error' = "none" =>
                /\ \A e \in DOMAIN shown \ {"chart-dc-ratio", "region-filter", "insights"} :
                       shown'[e] = calls[i].sel
                /\ shown'["insights"] = IF state.sido = None THEN calls[i].sel ELSE Blank
<1> DEFINE sel == calls[i].sel
           charts == <<National!renderKpi, National!renderOperators, National!renderDensity,
                       National!renderChgerType, National!renderOutput, National!renderYear,
                       National!renderKind>>
           ws == IF state.sido = None THEN Append(charts, National!renderInsights) ELSE charts
           sh == IF state.sido = None THEN shown ELSE Clear({"insights"}, shown)
<1>1. shown' = Draw(ws, sh, sel) /\ IF Throws(ws, sh) THEN Raise(i) ELSE UNCHANGED <<status, error>>
  BY NationalNames DEF National!Filtered
<1>2. /\ DOMAIN shown = National!Elements
      /\ National!Elements = {"region-filter", "kpi-grid", "chart-operators",
             "chart-density", "chart-dc-ratio", "chart-types", "chart-output",
             "chart-year", "chart-kind", "insights"}
  BY NationalShape
<1>3. /\ DOMAIN sh = DOMAIN shown
      /\ \A e \in DOMAIN shown : e # "insights" => sh[e] = shown[e]
      /\ state.sido # None => sh["insights"] = Blank
  BY <1>2 DEF Clear
<1>4. /\ charts[1].el = "kpi-grid" /\ charts[2].el = "chart-operators"
      /\ charts[3].el = "chart-density" /\ charts[4].el = "chart-types"
      /\ charts[5].el = "chart-output" /\ charts[6].el = "chart-year"
      /\ charts[7].el = "chart-kind" /\ National!renderInsights.el = "insights"
  BY DEF National!renderKpi, National!renderOperators, National!renderDensity,
         National!renderChgerType, National!renderOutput, National!renderYear,
         National!renderKind, National!renderInsights, National!mountChart,
         National!Text, National!TextOfRow
<1>5. DOMAIN charts = 1..7 /\ IsSequence(charts)
  <2>1. DOMAIN charts = 1..7
    OBVIOUS
  <2>2. charts \in Seq({charts[1], charts[2], charts[3], charts[4], charts[5], charts[6], charts[7]})
    OBVIOUS
  <2> HIDE DEF charts
  <2>3. QED
    BY <2>1, <2>2 DEF IsSequence
<1> HIDE DEF charts
<1> DEFINE w == National!renderInsights
<1>6. /\ Len(charts) \in Nat /\ DOMAIN charts = 1..Len(charts)
      /\ DOMAIN Append(charts, w) = 1..(Len(charts) + 1)
      /\ Append(charts, w)[Len(charts) + 1] = w
      /\ \A k \in 1..Len(charts) : Append(charts, w)[k] = charts[k]
  <2> HIDE DEF w
  <2>1. IsSequence(charts)
    BY <1>5
  <2>2. QED
    BY <2>1, AppendShape
<1>7. \A k \in DOMAIN Append(charts, w) :
          Append(charts, w)[k] = w \/ \E j \in DOMAIN charts : Append(charts, w)[k] = charts[j]
  <2> HIDE DEF w
  <2>1. IsSequence(charts)
    BY <1>5
  <2>2. QED
    BY <2>1, AppendAmong
<1>8. \A k \in DOMAIN charts : charts[k].el \in DOMAIN shown \ {"chart-dc-ratio", "region-filter", "insights"}
  BY <1>2, <1>4, <1>5
<1>9. \A e \in DOMAIN shown \ {"chart-dc-ratio", "region-filter", "insights"} :
          \E k \in DOMAIN charts : charts[k].el = e
  BY <1>2, <1>4, <1>5
<1>10. w.el = "insights"
  BY <1>4
<1> HIDE DEF w
<1>11. /\ \A k \in DOMAIN ws : ws[k].el \notin {"chart-dc-ratio", "region-filter"}
       /\ \A e \in DOMAIN shown \ {"chart-dc-ratio", "region-filter", "insights"} :
             \E k \in DOMAIN ws : ws[k].el = e
       /\ (\E k \in DOMAIN ws : ws[k].el = "insights") <=> state.sido = None
  <2>1. CASE state.sido = None
    <3>1. ws = Append(charts, w)
      BY <2>1 DEF w
    <3> HIDE DEF ws
    <3>2. \A k \in DOMAIN charts : k \in DOMAIN ws /\ ws[k] = charts[k]
      BY <1>6, <3>1
    <3>3. Len(charts) + 1 \in DOMAIN ws /\ ws[Len(charts) + 1] = w
      BY <1>6, <3>1
    <3>4. \A k \in DOMAIN ws : ws[k] = w \/ \E j \in DOMAIN charts : ws[k] = charts[j]
      BY <1>7, <3>1
    <3>5. \A k \in DOMAIN ws : ws[k].el \notin {"chart-dc-ratio", "region-filter"}
      BY <1>8, <1>10, <3>4
    <3>6. QED
      BY <1>9, <1>10, <2>1, <3>2, <3>3, <3>5
  <2>2. CASE state.sido # None
    <3>1. ws = charts
      BY <2>2
    <3> HIDE DEF ws
    <3>2. QED
      BY <1>8, <1>9, <2>2, <3>1
  <2>3. QED
    BY <2>1, <2>2
<1> HIDE DEF ws, sh
<1>12. /\ \A k \in DOMAIN ws : ws[k].el # "chart-dc-ratio" /\ ws[k].el # "region-filter"
  BY <1>11
<1>13. /\ DOMAIN shown' = DOMAIN shown /\ shown' = [e \in DOMAIN shown |-> shown'[e]]
       /\ shown'["chart-dc-ratio"] = shown["chart-dc-ratio"]
       /\ shown'["region-filter"] = shown["region-filter"]
  BY <1>1, <1>2, <1>3, <1>12 DEF Draw
<1>14. CASE Throws(ws, sh)
  <2>1. Raise(i)
    BY <1>1, <1>14
  <2>2. error' \in {"panel", "console"} /\ status' \in {"hidden", "busy", "prompt"}
    BY <2>1, Raised DEF PageOK
  <2>3. QED
    BY <1>13, <2>2
<1>15. CASE ~Throws(ws, sh)
  <2>1. UNCHANGED <<status, error>>
    BY <1>1, <1>15
  <2>2. shown' = [e \in DOMAIN shown |-> IF \E k \in DOMAIN ws : ws[k].el = e THEN sel ELSE sh[e]]
    BY <1>1, <1>3, <1>15, AllDrawn
  <2>3. "insights" \in DOMAIN shown
    BY <1>2
  <2>4. shown'["insights"] = IF state.sido = None THEN sel ELSE Blank
    BY <1>3, <1>11, <2>2, <2>3
  <2>5. \A e \in DOMAIN shown \ {"chart-dc-ratio", "region-filter", "insights"} : shown'[e] = sel
    BY <1>11, <2>2
  <2>6. QED
    BY <1>13, <2>1, <2>4, <2>5 DEF PageOK
<1>16. QED
  BY <1>14, <1>15

LEMMA NationalFiltered ==
    ASSUME PageOK, page = "national", UNCHANGED page, NationalInv,
           NEW i \in DOMAIN calls, National!Filtered(i)
    PROVE  PageOK' /\ NationalInv'
<1>1. Resumes(i, "filtered") /\ calls' = Others(i) /\ UNCHANGED <<url, empty, state, inputs>>
  BY NationalNames DEF National!Filtered
<1>2. CallsOK(calls')
  BY <1>1, OthersOK DEF PageOK
<1>3. /\ DOMAIN shown' = DOMAIN shown /\ shown' = [e \in DOMAIN shown |-> shown'[e]]
      /\ error' # "none" \/ UNCHANGED <<status, error>>
      /\ error' \in {"none", "panel", "console"} /\ status' \in {"hidden", "busy", "prompt"}
      /\ error # "none" => error' # "none"
      /\ shown'["chart-dc-ratio"] = shown["chart-dc-ratio"]
      /\ shown'["region-filter"] = shown["region-filter"]
      /\ error' = "none" =>
           /\ \A e \in DOMAIN shown \ {"chart-dc-ratio", "region-filter", "insights"} :
                  shown'[e] = calls[i].sel
           /\ shown'["insights"] = IF state.sido = None THEN calls[i].sel ELSE Blank
  BY FilteredDraws
<1>4. PageOK'
  BY <1>1, <1>2, <1>3 DEF PageOK, Fresh, Elements
<1> SUFFICES ASSUME error' = "none" PROVE NationalInv'
  BY <1>4 DEF NationalInv
<1>5. error = "none"
  BY <1>3
<1>6. Filtering
  <2>1. CASE Len(calls) = 1 /\ calls[1].at # "filtered"
    <3>1. DOMAIN calls = 1..1
      BY <2>1, OthersShape DEF PageOK, CallsOK, IsSequence
    <3>2. QED
      BY <1>1, <2>1, <3>1 DEF Resumes
  <2>2. QED
    BY <1>5, <2>1 DEF NationalInv
<1>7. /\ url = state.sido /\ url = National!Filter(url)
      /\ shown["chart-dc-ratio"] = None
      /\ shown["region-filter"] = IF url = None THEN Blank ELSE url
      /\ calls # <<>> => calls[Len(calls)].sel = url
  BY <1>5, <1>6 DEF NationalInv
<1>8. /\ i = 1 /\ Len(calls) \in Nat /\ DOMAIN calls = 1..Len(calls)
      /\ (Others(i) = <<>>) <=> (Len(calls) = 1)
      /\ Others(i) # <<>> => Others(i)[Len(Others(i))] = calls[Len(calls)]
  BY <1>1, <1>6, FirstEnds DEF PageOK, CallsOK, Filtering
<1>9. Filtering'
  <2>1. \A k \in DOMAIN calls' : \E j \in DOMAIN calls : calls'[k] = calls[j]
    BY <1>1, OthersAmong DEF PageOK, CallsOK
  <2>2. \A k \in DOMAIN calls' : calls'[k].at = "filtered" /\ calls'[k].on = Worker
    BY <1>6, <2>1 DEF Filtering
  <2>3. QED
    BY <2>2 DEF Filtering, Worker
<1>10. National!Filter(url)' = National!Filter(url)
  BY <1>1 DEF National!Filter
<1>11. calls # <<>> /\ calls[Len(calls)].sel = url
  BY <1>7, <1>8
<1>12. calls' # <<>> => calls'[Len(calls')].sel = url'
  BY <1>1, <1>8, <1>11
<1>13. ASSUME calls' = <<>> PROVE shown' = National!Restored(url)'
  <2>1. calls[i].sel = url
    BY <1>1, <1>8, <1>11, <1>13
  <2>2. /\ DOMAIN shown = National!Elements
        /\ National!Elements = {"region-filter", "kpi-grid", "chart-operators",
               "chart-density", "chart-dc-ratio", "chart-types", "chart-output",
               "chart-year", "chart-kind", "insights"}
    BY NationalShape
  <2> DEFINE R(e) == CASE e = "region-filter"  -> IF url = None THEN Blank ELSE url
                       [] e = "insights"       -> IF url = None THEN None ELSE Blank
                       [] e = "chart-dc-ratio" -> None
                       [] OTHER                -> url
  <2>3. National!Restored(url)' = [e \in DOMAIN shown |-> R(e)]
    BY <1>1, <1>7, <1>10, <2>2 DEF National!Restored
  <2>4. \A e \in DOMAIN shown : shown'[e] = R(e)
    BY <1>3, <1>7, <2>1, <2>2
  <2> HIDE DEF R
  <2>5. QED
    BY <1>3, <2>3, <2>4
<1>14. QED
  BY <1>1, <1>3, <1>7, <1>9, <1>10, <1>12, <1>13 DEF NationalInv, Quiet

LEMMA NationalKeeps ==
    ASSUME PageOK, page = "national", UNCHANGED page, NationalInv,
           (\E i \in DOMAIN calls : National!Resume(i)) \/ National!UserEvent
    PROVE  PageOK' /\ NationalInv'
<1>1. ASSUME NEW i \in DOMAIN calls, National!Resume(i)
      PROVE  OpenEngine(i) \/ AskData(i, "fetchT") \/ National!Started(i) \/ National!Filtered(i)
  BY <1>1 DEF National!Resume, National!main, National!initDuckDB, National!loadCodes,
         National!OpenEngine, OpenEngine, National!AskData, AskData, National!Resumes, Resumes,
         National!IsTurn, IsTurn,
         National!WaitsNext, WaitsNext, National!Others, Others, National!Call, Call
<1>2. QED
  BY <1>1, NationalOpens, NationalStarted, NationalFiltered, NationalUser

-----------------------------------------------------------------------------
(* Induction, by the least counterexample                                    *)

\* Every set of numbers has a least one.
LEMMA Least ==
    ASSUME NEW T, T \subseteq Nat, T # {}
    PROVE  \E x \in T : \A y \in T : x <= y
<1> DEFINE Less == {ss \in Nat \X Nat : ss[1] < ss[2]}
<1>1. IsWellFoundedOn(Less, Nat)
  <2>1. OpToRel(<, Nat) = Less
    BY DEF OpToRel, Less
  <2>2. QED
    BY <2>1, NatLessThanWellFounded
<1>2. PICK x \in T : \A y \in T : <<y, x>> \notin Less
  <2> HIDE DEF Less
  <2>1. QED
    BY <1>1, WFMin
<1>3. ASSUME NEW y \in T PROVE x <= y
  <2>1. <<y, x>> \in Nat \X Nat /\ <<y, x>>[1] = y /\ <<y, x>>[2] = x
    OBVIOUS
  <2>2. ~(y < x)
    BY <1>2, <2>1
  <2>3. QED
    BY <2>2
<1>4. QED
  BY <1>3

\* The filter of the first L ids: the recursion of Keeping.
Keeps(kept, ids, S, L) ==
    kept = [n \in 0..L |->
               IF n = 0 THEN <<>>
               ELSE IF ids[n] \in S THEN Append(kept[n - 1], ids[n]) ELSE kept[n - 1]]

\* There is such a function for every length.
LEMMA KeepingExists ==
    ASSUME NEW ids, NEW S, NEW L \in Nat
    PROVE  \E kept : Keeps(kept, ids, S, L)
<1> DEFINE T == {m \in Nat : ~\E kept : Keeps(kept, ids, S, m)}
<1>1. SUFFICES T = {}
  OBVIOUS
<1>2. SUFFICES ASSUME T # {} PROVE FALSE
  OBVIOUS
<1>3. PICK m \in T : \A y \in T : m <= y
  <2>1. T \subseteq Nat
    OBVIOUS
  <2> HIDE DEF T
  <2>2. QED
    BY <1>2, <2>1, Least
<1>4. m \in Nat /\ ~\E kept : Keeps(kept, ids, S, m)
  OBVIOUS
<1>5. CASE m = 0
  <2> DEFINE g == [n \in 0..0 |-> <<>>]
  <2>1. Keeps(g, ids, S, 0)
    <3>1. \A n \in 0..0 : n = 0
      OBVIOUS
    <3>2. QED
      BY <3>1 DEF Keeps
  <2>2. QED
    BY <1>4, <1>5, <2>1
<1>6. CASE m # 0
  <2>1. m - 1 \in Nat /\ m - 1 \notin T
    BY <1>3, <1>4, <1>6
  <2>2. PICK g : Keeps(g, ids, S, m - 1)
    BY <2>1
  <2> DEFINE h == [n \in 0..m |-> IF n < m THEN g[n]
                  ELSE IF ids[m] \in S THEN Append(g[m - 1], ids[m]) ELSE g[m - 1]]
             H(n) == IF n = 0 THEN <<>>
                     ELSE IF ids[n] \in S THEN Append(h[n - 1], ids[n]) ELSE h[n - 1]
  <2>3. ASSUME NEW n \in 0..m PROVE h[n] = H(n)
    <3>1. CASE n < m
      <4>1. n \in 0..(m - 1) /\ (n # 0 => n - 1 \in 0..m /\ n - 1 < m)
        BY <1>4, <3>1
      <4>2. g[n] = IF n = 0 THEN <<>>
                   ELSE IF ids[n] \in S THEN Append(g[n - 1], ids[n]) ELSE g[n - 1]
        BY <2>2, <4>1 DEF Keeps
      <4>3. h[n] = g[n] /\ (n # 0 => h[n - 1] = g[n - 1])
        BY <3>1, <4>1
      <4> HIDE DEF h
      <4>4. QED
        BY <4>2, <4>3
    <3>2. CASE n = m
      <4>1. m - 1 \in 0..m /\ m - 1 < m
        BY <1>4, <1>6
      <4>2. h[m - 1] = g[m - 1] /\ h[m] = IF ids[m] \in S THEN Append(g[m - 1], ids[m]) ELSE g[m - 1]
        BY <1>4, <4>1
      <4> HIDE DEF h
      <4>3. QED
        BY <1>6, <3>2, <4>2
    <3>3. QED
      BY <1>4, <3>1, <3>2
  <2>4. h = [n \in 0..m |-> h[n]]
    OBVIOUS
  <2>5. Keeps(h, ids, S, m)
    <3> HIDE DEF h
    <3>1. QED
      BY <2>3, <2>4 DEF Keeps
  <2>6. QED
    BY <1>4, <2>5
<1>7. QED
  BY <1>5, <1>6

LEMMA KeepingShape ==
    ASSUME NEW ids, NEW S, Len(ids) \in Nat
    PROVE  \E kept :
             /\ \A n \in 0..Len(ids) : kept[n] =
                  IF n = 0 THEN <<>>
                  ELSE IF ids[n] \in S THEN Append(kept[n - 1], ids[n]) ELSE kept[n - 1]
             /\ Compare!Keeping(ids, S) = kept[Len(ids)]
<1> DEFINE kept[n \in 0..Len(ids)] ==
            IF n = 0 THEN <<>>
            ELSE IF ids[n] \in S THEN Append(kept[n - 1], ids[n]) ELSE kept[n - 1]
<1>1. Compare!Keeping(ids, S) = kept[Len(ids)]
  BY DEF Compare!Keeping
<1>2. kept = CHOOSE g : Keeps(g, ids, S, Len(ids))
  BY DEF Keeps
<1>3. Keeps(kept, ids, S, Len(ids))
  <2> HIDE DEF kept
  <2>1. QED
    BY <1>2, KeepingExists
<1> HIDE DEF kept
<1>4. \A n \in 0..Len(ids) : kept[n] = IF n = 0 THEN <<>>
                  ELSE IF ids[n] \in S THEN Append(kept[n - 1], ids[n]) ELSE kept[n - 1]
  BY <1>3 DEF Keeps
<1>5. QED
  BY <1>1, <1>4

\* What is kept is in the set and was in the sequence.
LEMMA KeepingIn ==
    ASSUME NEW T, NEW ids \in Seq(T), NEW S
    PROVE  Compare!Keeping(ids, S) \in Seq(T \cap S)
<1>1. Len(ids) \in Nat /\ \A n \in 1..Len(ids) : ids[n] \in T
  OBVIOUS
<1>2. PICK kept :
             /\ \A n \in 0..Len(ids) : kept[n] =
                  IF n = 0 THEN <<>>
                  ELSE IF ids[n] \in S THEN Append(kept[n - 1], ids[n]) ELSE kept[n - 1]
             /\ Compare!Keeping(ids, S) = kept[Len(ids)]
  BY <1>1, KeepingShape
<1> DEFINE Bad == {n \in 0..Len(ids) : kept[n] \notin Seq(T \cap S)}
<1>3. Bad = {}
  <2> SUFFICES ASSUME Bad # {} PROVE FALSE
    OBVIOUS
  <2>1. PICK m \in Bad : \A y \in Bad : m <= y
    <3>1. Bad \subseteq Nat
      BY <1>1
    <3> HIDE DEF Bad
    <3>2. QED
      BY <3>1, Least
  <2>2. m \in 0..Len(ids) /\ kept[m] \notin Seq(T \cap S)
    OBVIOUS
  <2>3. m # 0
    <3>1. 0 \in 0..Len(ids) /\ kept[0] = <<>>
      BY <1>1, <1>2
    <3>2. <<>> \in Seq(T \cap S)
      OBVIOUS
    <3>3. kept[0] \in Seq(T \cap S)
      BY <3>1, <3>2
    <3>4. QED
      BY <2>2, <3>3
  <2>4. m - 1 \in 0..Len(ids) /\ m \in 1..Len(ids)
    BY <1>1, <2>2, <2>3
  <2>5. kept[m - 1] \in Seq(T \cap S)
    <3>1. ~(m <= m - 1)
      BY <1>1, <2>4
    <3>2. QED
      BY <2>1, <2>4, <3>1
  <2>6. kept[m] = IF ids[m] \in S THEN Append(kept[m - 1], ids[m]) ELSE kept[m - 1]
    BY <1>2, <2>2, <2>3
  <2>7. QED
    BY <1>1, <2>2, <2>4, <2>5, <2>6
<1>4. Len(ids) \in 0..Len(ids)
  BY <1>1
<1>5. QED
  BY <1>2, <1>3, <1>4

\* All are kept that are in the set.
LEMMA KeepingAll ==
    ASSUME NEW S, NEW ids \in Seq(S)
    PROVE  Compare!Keeping(ids, S) = ids
<1>1. Len(ids) \in Nat /\ \A n \in 1..Len(ids) : ids[n] \in S
  OBVIOUS
<1>2. PICK kept :
             /\ \A n \in 0..Len(ids) : kept[n] =
                  IF n = 0 THEN <<>>
                  ELSE IF ids[n] \in S THEN Append(kept[n - 1], ids[n]) ELSE kept[n - 1]
             /\ Compare!Keeping(ids, S) = kept[Len(ids)]
  BY <1>1, KeepingShape
<1> DEFINE Is(n) == /\ kept[n] \in Seq(S) /\ Len(kept[n]) = n
                    /\ \A k \in 1..n : kept[n][k] = ids[k]
           Bad == {n \in 0..Len(ids) : ~Is(n)}
<1>3. Bad = {}
  <2> SUFFICES ASSUME Bad # {} PROVE FALSE
    OBVIOUS
  <2>1. PICK m \in Bad : \A y \in Bad : m <= y
    <3>1. Bad \subseteq Nat
      BY <1>1
    <3> HIDE DEF Bad
    <3>2. QED
      BY <3>1, Least
  <2>2. m \in 0..Len(ids) /\ ~Is(m)
    OBVIOUS
  <2>3. m # 0
    <3>1. 0 \in 0..Len(ids) /\ kept[0] = <<>>
      BY <1>1, <1>2
    <3>2. <<>> \in Seq(S) /\ Len(<<>>) = 0 /\ 1..0 = {}
      OBVIOUS
    <3>3. Is(0)
      BY <3>1, <3>2
    <3> HIDE DEF Is
    <3>4. QED
      BY <2>2, <3>3
  <2>4. m - 1 \in 0..Len(ids) /\ m \in 1..Len(ids)
    BY <1>1, <2>2, <2>3
  <2>5. Is(m - 1)
    <3>1. ~(m <= m - 1)
      BY <1>1, <2>4
    <3>2. QED
      BY <2>1, <2>4, <3>1
  <2>6. kept[m] = Append(kept[m - 1], ids[m])
    BY <1>1, <1>2, <2>2, <2>3, <2>4
  <2> DEFINE last == ids[m]
             before == kept[m - 1]
  <2>7. last \in S /\ before \in Seq(S) /\ Len(before) = m - 1
    BY <1>1, <2>4, <2>5
  <2> HIDE DEF last, before
  <2>8. /\ Append(before, last) \in Seq(S) /\ Len(Append(before, last)) = m
        /\ Append(before, last)[m] = last
        /\ \A k \in 1..(m - 1) : Append(before, last)[k] = before[k]
    BY <2>4, <2>7
  <2>9. \A k \in 1..m : k = m \/ k \in 1..(m - 1)
    BY <2>4
  <2>10. Is(m)
    BY <2>5, <2>6, <2>8, <2>9 DEF last, before
  <2>11. QED
    BY <2>2, <2>10
<1>4. Len(ids) \in 0..Len(ids)
  BY <1>1
<1> HIDE DEF Is
<1>5. Is(Len(ids))
  BY <1>3, <1>4
<1>6. kept[Len(ids)] = ids
  BY <1>5 DEF Is
<1>7. QED
  BY <1>2, <1>6

-----------------------------------------------------------------------------
(* The comparison                                                            *)

\* Lists of what the page may select.
Listed(type) == Seq(Compare!ToSet(EntityList[type]))

\* What is selected is of the list, and what the query string names is a list.
SelectionOK ==
    /\ url.type \in Compare!Types /\ \E S : url.ids \in Seq(S)
    /\ state.type \in Compare!Types /\ state.selected \in Listed(state.type)
    /\ ~state.listening => state.selected = <<>>

Selected == Compare!Comparison(state.type, state.selected)

\* Main is alone, or comparisons wait in the queue of the one worker, and with
\* two or more selected the last of them is what is selected and in the URL.
CompareInv ==
    /\ SelectionOK
    /\ error = "none" =>
         /\ \A i \in DOMAIN calls : IF calls[i].at = "compared"
                                    THEN calls[i].on = Worker /\ state.listening
                                    ELSE Len(calls) = 1 /\ ~state.listening
         /\ state.listening /\ Len(state.selected) >= 2 =>
              /\ Compare!Selection(url) = Selected
              /\ calls # <<>> => calls[Len(calls)].sel = Selected
              /\ Quiet => shown = [e \in Compare!Elements |-> Selected]

LEMMA CompareNames ==
    /\ \A ws, sh, v : Compare!Draw(ws, sh, v) = Draw(ws, sh, v)
    /\ \A ws, sh : Compare!Throws(ws, sh) <=> Throws(ws, sh)
    /\ \A els, sh : Compare!Clear(els, sh) = Clear(els, sh)
    /\ \A i : Compare!Others(i) = Others(i)
    /\ \A at, sel, on, caught : Compare!Call(at, sel, on, caught) = Call(at, sel, on, caught)
    /\ Compare!Worker = Worker
    /\ \A el : Compare!Text(el) = Text(el)
    /\ \A i, at : Compare!Resumes(i, at) <=> Resumes(i, at)
    /\ Compare!Input <=> Input
    /\ Compare!showError <=> showError
BY DEF Compare!Draw, Draw, Compare!Throws, Throws, Compare!Throwing, Throwing, Compare!Clear, Clear,
       Compare!Others, Others, Compare!Call, Call, Compare!Worker, Worker, Compare!Text, Text,
       Compare!Resumes, Resumes, Compare!IsTurn, IsTurn, Compare!Input, Input, Compare!showError, showError

LEMMA CompareShape ==
    ASSUME PageOK, page = "compare"
    PROVE  /\ DOMAIN state = {"type", "selected", "listening"} /\ DOMAIN state = DOMAIN Fresh(page)
           /\ DOMAIN shown = Compare!Elements /\ Elements(page) = Compare!Elements
           /\ Compare!Elements = {"chart-radar", "chart-dist-1", "chart-dist-2", "chart-dist-3",
                                  "insight-grid", "compare-table", "header-snapshot"}
BY DEF PageOK, Fresh, Compare!Fresh, Elements, Compare!Elements, Compare!Canvases

LEMMA ListsAreListed ==
    ASSUME NEW t \in Compare!Types
    PROVE  EntityList[t] \in Listed(t) /\ Newcomers[t] \in Listed(t) /\ Incumbents[t] \in Listed(t)
BY InstanceAssumption DEF Listed

LEMMA FirstListed ==
    ASSUME NEW S, NEW ids \in Seq(S)
    PROVE  Compare!First(ids) \in Seq(S)
<1> DEFINE n == IF Len(ids) < MaxSelected THEN Len(ids) ELSE MaxSelected
<1>1. Len(ids) \in Nat /\ MaxSelected \in Nat /\ \A k \in 1..Len(ids) : ids[k] \in S
  BY InstanceAssumption
<1>2. n \in Int /\ n <= Len(ids)
  BY <1>1
<1> HIDE DEF n
<1>3. \A k \in 1..n : ids[k] \in S
  BY <1>1, <1>2
<1>4. SubSeq(ids, 1, n) \in Seq(S)
  BY <1>2, <1>3, SubSeqProperties
<1>5. QED
  BY <1>4 DEF Compare!First, n

\* The URL names what is selected, if that is of the list and not nothing.
LEMMA SelectionOfUrl ==
    ASSUME NEW t \in Compare!Types, NEW ids \in Listed(t), ids # <<>>
    PROVE  Compare!Selection(Compare!Comparison(t, ids)) = Compare!Comparison(t, ids)
<1> DEFINE c == Compare!Comparison(t, ids)
<1>1. c.type = t /\ c.ids = ids
  BY DEF Compare!Comparison
<1> HIDE DEF c
<1>2. Compare!Selection(c) = Compare!Comparison(t, Compare!Known(t, ids))
  BY <1>1 DEF Compare!Selection
<1>3. Compare!Known(t, ids) = ids
  <2>1. ids \in Seq(Compare!ToSet(EntityList[t]))
    BY DEF Listed
  <2>2. QED
    BY <2>1, KeepingAll DEF Compare!Known
<1>4. QED
  BY <1>2, <1>3 DEF c

\* What a query string selects is of the list.
LEMMA SelectionListed ==
    ASSUME NEW u, u.type \in Compare!Types, \E S : u.ids \in Seq(S)
    PROVE  /\ Compare!Selection(u).type \in Compare!Types
           /\ Compare!Selection(u).ids \in Listed(Compare!Selection(u).type)
           /\ Compare!Selection(u) = Compare!Comparison(Compare!Selection(u).type, Compare!Selection(u).ids)
<1>1. CASE u.ids = <<>>
  <2> DEFINE ids == Compare!First(EntityList[u.type])
  <2>1. ids \in Listed(u.type)
    BY ListsAreListed, FirstListed DEF Listed
  <2>2. Compare!Selection(u) = Compare!Comparison(u.type, ids)
    BY <1>1 DEF Compare!Selection
  <2> HIDE DEF ids
  <2>3. QED
    BY <2>1, <2>2 DEF Compare!Comparison
<1>2. CASE u.ids # <<>>
  <2> DEFINE ids == Compare!Known(u.type, u.ids)
             M == Compare!ToSet(EntityList[u.type])
  <2>1. PICK S : u.ids \in Seq(S)
    OBVIOUS
  <2>2. Compare!Keeping(u.ids, M) \in Seq(S \cap M)
    <3> HIDE DEF M
    <3>1. QED
      BY <2>1, KeepingIn
  <2>3. ids = Compare!Keeping(u.ids, M)
    BY DEF Compare!Known
  <2>4. Compare!Selection(u) = Compare!Comparison(u.type, ids)
    BY <1>2 DEF Compare!Selection
  <2>5. Listed(u.type) = Seq(M)
    BY DEF Listed
  <2> HIDE DEF ids, M
  <2>6. ids \in Seq(M)
    BY <2>2, <2>3
  <2>7. QED
    BY <2>4, <2>5, <2>6 DEF Compare!Comparison
<1>3. QED
  BY <1>1, <1>2

\* A comparison is asked for, or there are less than two to compare.
LEMMA rerenderKeeps ==
    ASSUME PageOK, page = "compare", NEW others, CallsOK(others), NEW type, NEW ids,
           Compare!rerender(type, ids, others)
    PROVE  /\ CallsOK(calls') /\ DOMAIN shown' = DOMAIN shown
           /\ status' \in {"hidden", "busy", "prompt"}
           /\ (\A k \in DOMAIN others : others[k].at = "compared" /\ others[k].on = Worker)
                => \A k \in DOMAIN calls' : calls'[k].at = "compared" /\ calls'[k].on = Worker
           /\ ~(Len(ids) < 2) => /\ calls' # <<>>
                                 /\ calls'[Len(calls')].sel = Compare!Comparison(type, ids)
<1>1. CASE Len(ids) < 2
  <2>1. status' = "prompt" /\ calls' = others /\ shown' = shown
    BY <1>1 DEF Compare!rerender
  <2>2. QED
    BY <1>1, <2>1
<1>2. CASE ~(Len(ids) < 2)
  <2> DEFINE sel == Compare!Comparison(type, ids)
             c == Call("compared", sel, Worker, TRUE)
  <2>1. status' = "busy" /\ shown' = Compare!destroyAll(shown) /\ calls' = Append(others, c)
    BY <1>2, CompareNames DEF Compare!rerender
  <2>2. DOMAIN shown' = DOMAIN shown
    BY <2>1 DEF Compare!destroyAll, Compare!Clear
  <2>3. CallsOK(Append(others, c))
    BY AppendOK, WorkersAreAwaited
  <2>4. c.at = "compared" /\ c.on = Worker /\ c.sel = sel
    BY DEF Call
  <2>5. IsSequence(others)
    BY DEF CallsOK
  <2> HIDE DEF c, sel
  <2>6. /\ Len(others) \in Nat
        /\ Append(others, c)[Len(others) + 1] = c /\ Len(Append(others, c)) = Len(others) + 1
        /\ Append(others, c) # <<>>
    BY <2>5, AppendShape
  <2>7. \A k \in DOMAIN Append(others, c) :
            Append(others, c)[k] = c \/ \E j \in DOMAIN others : Append(others, c)[k] = others[j]
    BY <2>5, AppendAmong
  <2>8. calls' # <<>> /\ calls'[Len(calls')].sel = sel
    BY <2>1, <2>4, <2>6
  <2>9. (\A k \in DOMAIN others : others[k].at = "compared" /\ others[k].on = Worker)
                => \A k \in DOMAIN calls' : calls'[k].at = "compared" /\ calls'[k].on = Worker
    BY <2>1, <2>4, <2>7
  <2>10. QED
    BY <2>1, <2>2, <2>3, <2>8, <2>9 DEF sel
<1>3. QED
  BY <1>1, <1>2

\* The user selects: the query string names it, the last call is of it.
LEMMA SelectKeeps ==
    ASSUME PageOK, page = "compare", UNCHANGED page, CompareInv, Input, state.listening,
           NEW type \in Compare!Types, NEW ids \in Listed(type), Compare!Select(type, ids),
           \/ Compare!rerender(type, ids, calls)
           \/ ~(Len(ids) >= 2) /\ UNCHANGED <<calls, shown, status>>
    PROVE  PageOK' /\ CompareInv'
<1>1. /\ state' = [state EXCEPT !.type = type, !.selected = ids]
      /\ url' = Compare!Comparison(type, ids) /\ UNCHANGED <<empty, error>>
  BY DEF Compare!Select, Compare!updateUrl
<1>2. /\ state'.type = type /\ state'.selected = ids /\ state'.listening
      /\ DOMAIN state' = DOMAIN state
  BY <1>1, CompareShape
<1>3. Len(ids) \in Nat
  BY DEF Listed
<1>4. /\ CallsOK(calls') /\ DOMAIN shown' = DOMAIN shown
      /\ status' \in {"hidden", "busy", "prompt"}
      /\ (\A k \in DOMAIN calls : calls[k].at = "compared" /\ calls[k].on = Worker)
           => \A k \in DOMAIN calls' : calls'[k].at = "compared" /\ calls'[k].on = Worker
      /\ Len(ids) >= 2 => /\ calls' # <<>>
                          /\ calls'[Len(calls')].sel = Compare!Comparison(type, ids)
  <2>1. CASE Compare!rerender(type, ids, calls)
    <3>1. /\ CallsOK(calls') /\ DOMAIN shown' = DOMAIN shown
          /\ status' \in {"hidden", "busy", "prompt"}
          /\ (\A k \in DOMAIN calls : calls[k].at = "compared" /\ calls[k].on = Worker)
               => \A k \in DOMAIN calls' : calls'[k].at = "compared" /\ calls'[k].on = Worker
          /\ ~(Len(ids) < 2) => /\ calls' # <<>>
                                /\ calls'[Len(calls')].sel = Compare!Comparison(type, ids)
      BY <2>1, rerenderKeeps DEF PageOK
    <3>2. Len(ids) >= 2 => ~(Len(ids) < 2)
      BY <1>3
    <3>3. QED
      BY <3>1, <3>2
  <2>2. CASE ~(Len(ids) >= 2) /\ UNCHANGED <<calls, shown, status>>
    BY <2>2 DEF PageOK, CallsOK, CallOK, IsSequence, Awaited, Untimed
  <2>3. QED
    BY <2>1, <2>2
<1>5. PageOK'
  BY <1>1, <1>2, <1>4, CompareShape, Clicked DEF PageOK
<1>6. SelectionOK'
  <2>1. url'.type = type /\ url'.ids = ids
    BY <1>1 DEF Compare!Comparison
  <2>2. \E S : ids \in Seq(S)
    BY DEF Listed
  <2>3. state'.selected \in Listed(state'.type)
    BY <1>2
  <2>4. Listed(state.type)' = Listed(state'.type) /\ Compare!Types' = Compare!Types
    BY DEF Listed, Compare!Types, Compare!ToSet
  <2>5. QED
    BY <1>2, <2>1, <2>2, <2>3, <2>4 DEF SelectionOK
<1> SUFFICES ASSUME error = "none"
             PROVE  /\ \A i \in DOMAIN calls' : calls'[i].at = "compared" /\ calls'[i].on = Worker
                    /\ Len(ids) >= 2 => /\ Compare!Selection(url') = Compare!Comparison(type, ids)
                                        /\ calls' # <<>>
                                        /\ calls'[Len(calls')].sel = Compare!Comparison(type, ids)
  <2>1. Compare!Selection(url)' = Compare!Selection(url')
    BY DEF Compare!Selection, Compare!First, Compare!Known, Compare!Keeping, Compare!Comparison,
           Compare!ToSet
  <2>2. Selected' = Compare!Comparison(type, ids)
    BY <1>2 DEF Selected, Compare!Comparison
  <2>3. QED
    BY <1>1, <1>2, <1>5, <1>6, <2>1, <2>2 DEF CompareInv, Quiet, Worker
<1>7. \A k \in DOMAIN calls : calls[k].at = "compared" /\ calls[k].on = Worker
  BY DEF CompareInv
<1>8. Len(ids) >= 2 => Compare!Selection(url') = Compare!Comparison(type, ids)
  <2>1. Len(ids) >= 2 => ids # <<>>
    BY <1>3
  <2>2. QED
    BY <1>1, <2>1, SelectionOfUrl
<1>9. QED
  BY <1>4, <1>7, <1>8

LEMMA CompareUser ==
    ASSUME PageOK, page = "compare", UNCHANGED page, CompareInv, Compare!UserEvent
    PROVE  PageOK' /\ CompareInv'
<1>0. /\ state.type \in Compare!Types /\ state.selected \in Listed(state.type)
      /\ ~state.listening => state.selected = <<>>
  BY DEF CompareInv, SelectionOK
<1>1. ASSUME NEW type \in Compare!Types, NEW name \in {"top4", "newcomers", "incumbents"},
             Input, state.listening, Compare!ApplyPreset(type, name)
      PROVE  PageOK' /\ CompareInv'
  <2> DEFINE ids == Compare!Preset(type, name)
  <2>1. ids \in Listed(type)
    <3>1. CASE empty
      BY <3>1 DEF Compare!Preset, Listed
    <3>2. CASE ~empty
      BY <3>2, ListsAreListed, FirstListed DEF Compare!Preset, Listed
    <3>3. QED
      BY <3>1, <3>2
  <2>2. Compare!Select(type, ids) /\ Compare!rerender(type, ids, calls)
    BY <1>1 DEF Compare!ApplyPreset
  <2> HIDE DEF ids
  <2>3. QED
    BY <1>1, <2>1, <2>2, SelectKeeps
<1>2. ASSUME NEW id, Compare!addEntity(id)
      PROVE  PageOK' /\ CompareInv'
  <2> DEFINE ids == Append(state.selected, id)
  <2>1. /\ Input /\ state.listening /\ Compare!Select(state.type, ids)
        /\ \/ Compare!rerender(state.type, ids, calls)
           \/ ~(Len(ids) >= 2) /\ UNCHANGED <<calls, shown, status>>
    BY <1>2, CompareNames DEF Compare!addEntity
  <2>2. ids \in Listed(state.type)
    <3>1. id \in Compare!ToSet(EntityList[state.type])
      BY <1>2 DEF Compare!addEntity, Compare!IsEntity
    <3>2. QED
      BY <1>0, <3>1 DEF Listed
  <2> HIDE DEF ids
  <2>3. QED
    BY <1>0, <2>1, <2>2, SelectKeeps
<1>3. ASSUME NEW id, Compare!RemoveChip(id)
      PROVE  PageOK' /\ CompareInv'
  <2> DEFINE M == Compare!ToSet(state.selected) \ {id}
             ids == Compare!Keeping(state.selected, M)
  <2>1. /\ Input /\ id \in Compare!ToSet(state.selected) /\ Compare!Select(state.type, ids)
        /\ \/ Compare!rerender(state.type, ids, calls)
           \/ ~(Len(ids) >= 2) /\ UNCHANGED <<calls, shown, status>>
    BY <1>3, CompareNames DEF Compare!RemoveChip
  <2>2. state.listening
    <3>1. Compare!ToSet(<<>>) = {}
      BY DEF Compare!ToSet
    <3>2. QED
      BY <1>0, <2>1, <3>1
  <2> HIDE DEF M
  <2>3. ids \in Listed(state.type)
    <3> DEFINE E == Compare!ToSet(EntityList[state.type])
    <3>1. state.selected \in Seq(E)
      BY <1>0 DEF Listed
    <3> HIDE DEF E
    <3>2. Compare!Keeping(state.selected, M) \in Seq(E \cap M)
      BY <3>1, KeepingIn
    <3>3. ids \in Seq(E)
      BY <3>2
    <3>4. QED
      BY <3>3 DEF Listed, E
  <2> HIDE DEF ids
  <2>4. QED
    BY <1>0, <2>1, <2>2, <2>3, SelectKeeps
<1>4. QED
  BY <1>0, <1>1, <1>2, <1>3, CompareNames
     DEF Compare!UserEvent, Compare!switchType, Compare!applyPreset

\* main goes on to its next await.
LEMMA CompareOpens ==
    ASSUME PageOK, page = "compare", UNCHANGED page, CompareInv,
           NEW i \in DOMAIN calls, OpenEngine(i) \/ AskData(i, "fetch") \/ Compare!ListsLoaded(i)
    PROVE  PageOK' /\ CompareInv'
<1>1. PICK at \in {"parquet", "data", "totals"}, on \in Awaited :
         calls' = Append(Others(i), Call(at, None, on, calls[i].caught))
  BY WorkersAreAwaited, CompareNames
     DEF OpenEngine, AskData, WaitsNext, Compare!ListsLoaded, Compare!WaitsNext
<1>2. /\ calls[i].at # "compared"
      /\ UNCHANGED <<url, empty, state, shown, status, error, inputs>>
  BY DEF OpenEngine, AskData, Resumes, Compare!ListsLoaded, Compare!Resumes
<1> DEFINE c == Call(at, None, on, calls[i].caught)
<1>3. CallsOK(Append(Others(i), c)) /\ Append(Others(i), c) # <<>>
  <2>1. CallsOK(Others(i)) /\ calls[i].caught \in BOOLEAN
    BY OthersOK DEF PageOK, CallOK
  <2>2. QED
    BY <2>1, AppendOK
<1>4. c.at # "compared"
  BY DEF Call
<1>5. calls' = Append(Others(i), c)
  BY <1>1
<1> HIDE DEF c
<1>6. PageOK'
  BY <1>2, <1>3, <1>5 DEF PageOK
<1>7. SelectionOK'
  BY <1>2 DEF CompareInv, SelectionOK, Listed, Compare!ToSet, Compare!Types
<1> SUFFICES ASSUME error = "none" PROVE CompareInv'
  BY <1>2, <1>6, <1>7 DEF CompareInv
<1>8. Len(calls) = 1 /\ ~state.listening
  BY <1>2 DEF CompareInv
<1>9. IsSequence(Others(i)) /\ Len(Others(i)) = 0
  BY <1>8, OthersShape DEF PageOK, CallsOK
<1>10. Len(calls') = 1 /\ DOMAIN calls' = {1} /\ calls'[1] = c
  BY <1>5, <1>9, AppendShape
<1>11. calls' # <<>>
  BY <1>3, <1>5
<1>12. QED
  BY <1>2, <1>4, <1>7, <1>8, <1>10, <1>11 DEF CompareInv, Quiet

\* main selects what the query string names, or its default.
LEMMA CompareTotals ==
    ASSUME PageOK, page = "compare", UNCHANGED page, CompareInv,
           NEW i \in DOMAIN calls, Compare!TotalsLoaded(i)
    PROVE  PageOK' /\ CompareInv'
<1> DEFINE s == IF empty THEN Compare!Comparison(Compare!Selection(url).type, <<>>)
                         ELSE Compare!Selection(url)
<1>1. /\ Resumes(i, "totals")
      /\ state' = [type |-> s.type, selected |-> s.ids, listening |-> TRUE]
      /\ Compare!rerender(s.type, s.ids, Others(i))
      /\ UNCHANGED <<url, empty, error, inputs>>
  BY CompareNames DEF Compare!TotalsLoaded
<1>2. /\ s.type \in Compare!Types /\ s.ids \in Listed(s.type)
      /\ Len(s.ids) >= 2 => Compare!Selection(url) = Compare!Comparison(s.type, s.ids)
  <2>1. /\ Compare!Selection(url).type \in Compare!Types
        /\ Compare!Selection(url).ids \in Listed(Compare!Selection(url).type)
        /\ Compare!Selection(url) =
             Compare!Comparison(Compare!Selection(url).type, Compare!Selection(url).ids)
    BY SelectionListed DEF CompareInv, SelectionOK
  <2>2. CASE empty
    <3>1. s.type = Compare!Selection(url).type /\ s.ids = <<>>
      BY <2>2 DEF Compare!Comparison
    <3>2. <<>> \in Listed(s.type) /\ ~(Len(<<>>) >= 2)
      BY DEF Listed
    <3>3. QED
      BY <2>1, <3>1, <3>2
  <2>3. CASE ~empty
    BY <2>1, <2>3
  <2>4. QED
    BY <2>2, <2>3
<1> HIDE DEF s
<1>3. state'.type = s.type /\ state'.selected = s.ids /\ state'.listening
  BY <1>1
<1>4. DOMAIN state' = DOMAIN state
  BY <1>1, CompareShape
<1>5. Len(s.ids) \in Nat
  BY <1>2 DEF Listed
<1>6. /\ CallsOK(calls') /\ DOMAIN shown' = DOMAIN shown
      /\ status' \in {"hidden", "busy", "prompt"}
      /\ (\A k \in DOMAIN Others(i) : Others(i)[k].at = "compared" /\ Others(i)[k].on = Worker)
           => \A k \in DOMAIN calls' : calls'[k].at = "compared" /\ calls'[k].on = Worker
      /\ ~(Len(s.ids) < 2) => /\ calls' # <<>>
                              /\ calls'[Len(calls')].sel = Compare!Comparison(s.type, s.ids)
  <2>1. CallsOK(Others(i))
    BY OthersOK DEF PageOK
  <2>2. QED
    BY <1>1, <2>1, rerenderKeeps
<1>7. PageOK'
  BY <1>1, <1>4, <1>6, CompareShape DEF PageOK
<1>8. SelectionOK'
  <2>1. Listed(state.type)' = Listed(state'.type) /\ Compare!Types' = Compare!Types
    BY DEF Listed, Compare!Types, Compare!ToSet
  <2>2. state'.selected \in Listed(state'.type)
    BY <1>2, <1>3
  <2>3. QED
    BY <1>1, <1>2, <1>3, <2>1, <2>2 DEF CompareInv, SelectionOK
<1> SUFFICES ASSUME error = "none" PROVE CompareInv'
  BY <1>1, <1>7, <1>8 DEF CompareInv
<1>9. Len(calls) = 1
  BY <1>1 DEF CompareInv, Resumes
<1>10. DOMAIN Others(i) = {}
  BY <1>9, OthersShape DEF PageOK, CallsOK
<1>11. \A k \in DOMAIN calls' : calls'[k].at = "compared" /\ calls'[k].on = Worker
  BY <1>6, <1>10
<1>12. Compare!Selection(url)' = Compare!Selection(url)
  BY <1>1 DEF Compare!Selection, Compare!First, Compare!Known, Compare!Keeping, Compare!Comparison,
              Compare!ToSet
<1>13. Selected' = Compare!Comparison(s.type, s.ids)
  BY <1>3 DEF Selected, Compare!Comparison
<1>14. Len(s.ids) >= 2 => ~(Len(s.ids) < 2)
  BY <1>5
<1>15. QED
  BY <1>1, <1>2, <1>3, <1>6, <1>8, <1>11, <1>12, <1>13, <1>14 DEF CompareInv, Quiet, Worker

\* A comparison has arrived: the last one is of what is selected.
LEMMA ComparedDraws ==
    ASSUME PageOK, page = "compare", NEW i \in DOMAIN calls, Compare!Compared(i)
    PROVE  /\ DOMAIN shown' = DOMAIN shown
           /\ error' \in {"none", "panel", "console"} /\ status' \in {"hidden", "busy", "prompt"}
           /\ error' = "none" =>
                /\ error = "none"
                /\ calls[i].sel = Selected => shown' = [e \in Compare!Elements |-> Selected]
<1> DEFINE sel == calls[i].sel
           drill == IF state.type = "operator" THEN Compare!renderDistRoutes
                                               ELSE Compare!renderDistOps
           ws == <<Compare!renderInsights, Compare!renderRadar, Compare!renderKpiTable,
                   Compare!renderDistOutput, drill, Compare!renderDistKpiBar,
                   Compare!Text("header-snapshot")>>
           nameless == sel.type = "highway" /\ state.type = "operator"
           drawn == IF nameless THEN SubSeq(ws, 1, 4) ELSE ws
           v == [sel EXCEPT !.type = IF @ = state.type THEN @ ELSE "mixed"]
<1>1. \/ showError /\ UNCHANGED shown
      \/ /\ shown' = Draw(drawn, shown, v)
         /\ IF nameless \/ Throws(ws, shown)
            THEN showError ELSE status' = "hidden" /\ UNCHANGED error
  BY CompareNames DEF Compare!Compared
<1>2. DOMAIN ws = 1..7
  OBVIOUS
<1>3. /\ ws[1].el = "insight-grid" /\ ws[2].el = "chart-radar" /\ ws[3].el = "compare-table"
      /\ ws[4].el = "chart-dist-1" /\ ws[5].el = "chart-dist-2" /\ ws[6].el = "chart-dist-3"
      /\ ws[7].el = "header-snapshot"
  BY DEF Compare!renderInsights, Compare!renderRadar, Compare!renderKpiTable,
         Compare!renderDistOutput, Compare!renderDistRoutes, Compare!renderDistOps,
         Compare!renderDistKpiBar, Compare!Text, Compare!NewChart
<1>4. sel = Selected => v = Selected
  <2>1. Selected.type = state.type /\ [Selected EXCEPT !.type = Selected.type] = Selected
    BY DEF Selected, Compare!Comparison
  <2>2. QED
    BY <2>1
<1>10. ~nameless => drawn = ws
  OBVIOUS
<1> HIDE DEF ws, v, drill, nameless, drawn
<1>5. \A e \in DOMAIN shown : \E k \in DOMAIN ws : ws[k].el = e
  BY <1>2, <1>3, CompareShape
<1>6. CASE showError /\ UNCHANGED shown
  BY <1>6 DEF showError
<1>7. CASE showError /\ shown' = Draw(drawn, shown, v)
  BY <1>7, Drawn DEF showError
<1>8. CASE /\ ~Throws(ws, shown) /\ shown' = Draw(ws, shown, v)
           /\ status' = "hidden" /\ UNCHANGED error
  <2>1. shown' = [e \in DOMAIN shown |-> v]
    <3>1. shown' = [e \in DOMAIN shown |-> IF \E k \in DOMAIN ws : ws[k].el = e THEN v ELSE shown[e]]
      BY <1>8, AllDrawn
    <3>2. QED
      BY <1>5, <3>1
  <2>2. QED
    BY <1>4, <1>8, <2>1, CompareShape DEF PageOK
<1>9. QED
  BY <1>1, <1>6, <1>7, <1>8, <1>10

LEMMA CompareCompared ==
    ASSUME PageOK, page = "compare", UNCHANGED page, CompareInv,
           NEW i \in DOMAIN calls, Compare!Compared(i)
    PROVE  PageOK' /\ CompareInv'
<1>1. /\ Resumes(i, "compared") /\ calls' = Others(i)
      /\ UNCHANGED <<url, empty, state, inputs>>
  BY CompareNames DEF Compare!Compared
<1>2. /\ DOMAIN shown' = DOMAIN shown
      /\ error' \in {"none", "panel", "console"} /\ status' \in {"hidden", "busy", "prompt"}
      /\ error' = "none" =>
           /\ error = "none"
           /\ calls[i].sel = Selected => shown' = [e \in Compare!Elements |-> Selected]
  BY ComparedDraws
<1>3. PageOK'
  BY <1>1, <1>2, OthersOK DEF PageOK
<1>4. SelectionOK'
  BY <1>1 DEF CompareInv, SelectionOK, Listed, Compare!ToSet, Compare!Types
<1> SUFFICES ASSUME error' = "none" PROVE CompareInv'
  BY <1>3, <1>4 DEF CompareInv
<1>5. error = "none"
  BY <1>2
<1>6. \A k \in DOMAIN calls : calls[k].at = "compared" /\ calls[k].on = Worker
  <2> SUFFICES ASSUME NEW k \in DOMAIN calls, calls[k].at # "compared" PROVE FALSE
    BY <1>5 DEF CompareInv
  <2>1. Len(calls) = 1 /\ DOMAIN calls = 1..1
    BY <1>5, OthersShape DEF CompareInv, PageOK, CallsOK, IsSequence
  <2>2. QED
    BY <1>1, <2>1 DEF Resumes
<1>7. /\ i = 1 /\ Len(calls) \in Nat /\ DOMAIN calls = 1..Len(calls)
      /\ (Others(i) = <<>>) <=> (Len(calls) = 1)
      /\ Others(i) # <<>> => Others(i)[Len(Others(i))] = calls[Len(calls)]
  BY <1>1, <1>6, FirstEnds DEF PageOK, CallsOK
<1>8. \A k \in DOMAIN calls' : calls'[k].at = "compared" /\ calls'[k].on = Worker
  BY <1>1, <1>6, OthersAmong DEF PageOK, CallsOK
<1>9. calls # <<>>
  BY <1>7
<1>10. state.listening
  BY <1>1, <1>5 DEF CompareInv, Resumes
<1> SUFFICES ASSUME Len(state.selected) >= 2
             PROVE  /\ Compare!Selection(url) = Selected
                    /\ calls' # <<>> => calls'[Len(calls')].sel = Selected
                    /\ calls' = <<>> => shown' = [e \in Compare!Elements |-> Selected]
  <2>1. Compare!Selection(url)' = Compare!Selection(url)
    BY <1>1 DEF Compare!Selection, Compare!First, Compare!Known, Compare!Keeping,
                Compare!Comparison, Compare!ToSet
  <2>2. Selected' = Selected
    BY <1>1 DEF Selected, Compare!Comparison
  <2>3. QED
    BY <1>1, <1>4, <1>8, <1>10, <2>1, <2>2 DEF CompareInv, Quiet, Worker
<1>11. Compare!Selection(url) = Selected /\ calls[Len(calls)].sel = Selected
  BY <1>5, <1>9, <1>10 DEF CompareInv
<1>12. calls' # <<>> => calls'[Len(calls')].sel = Selected
  BY <1>1, <1>7, <1>11
<1>13. calls' = <<>> => shown' = [e \in Compare!Elements |-> Selected]
  BY <1>1, <1>2, <1>7, <1>11
<1>14. QED
  BY <1>11, <1>12, <1>13

LEMMA CompareKeeps ==
    ASSUME PageOK, page = "compare", UNCHANGED page, CompareInv,
           (\E i \in DOMAIN calls : Compare!Resume(i)) \/ Compare!UserEvent
    PROVE  PageOK' /\ CompareInv'
<1>1. ASSUME NEW i \in DOMAIN calls, Compare!Resume(i)
      PROVE  \/ OpenEngine(i) \/ AskData(i, "fetch") \/ Compare!ListsLoaded(i)
             \/ Compare!TotalsLoaded(i) \/ Compare!Compared(i)
  BY <1>1 DEF Compare!Resume, Compare!main, Compare!initDuckDB, Compare!AskLists,
         Compare!OpenEngine, OpenEngine, Compare!AskData, AskData, Compare!Resumes, Resumes,
         Compare!IsTurn, IsTurn,
         Compare!WaitsNext, WaitsNext, Compare!Others, Others, Compare!Call, Call
<1>2. QED
  BY <1>1, CompareOpens, CompareTotals, CompareCompared, CompareUser

-----------------------------------------------------------------------------
(* The trends page.  What it draws, and which of its calls are of main       *)

\* The calls of main, those of a difference.
Rest == Trends!Elements \ {"diff-cards"}
MainCall(c) == c.at # "diff" /\ IF c.at \in WithJob THEN c.sel.fn = "main" ELSE c.sel = None
DiffCall(c) == c.at \in WithJob \ {"trend"} /\ c.sel.fn = "lazyDiff"

\* Main is under way, alone, or has drawn everything but the difference.
DrawnInv ==
    error = "none" =>
      \/ /\ \A e \in Rest : shown[e] = None
         /\ \A i \in DOMAIN calls : DiffCall(calls[i])
      \/ /\ \A e \in Rest : shown[e] = Blank
         /\ Len(calls) = 1 /\ MainCall(calls[1]) /\ state.from = None

\* Who has a connection, or is about to, has a worker.
DbOK ==
    state.conn # None \/ (\E i \in DOMAIN calls : calls[i].at \in WithConn) => state.db \in Engines

LEMMA TrendsNames ==
    /\ \A ws, sh, v : Trends!Draw(ws, sh, v) = Draw(ws, sh, v)
    /\ \A i : Trends!Others(i) = Others(i)
    /\ \A at, sel, on, caught : Trends!Call(at, sel, on, caught) = Call(at, sel, on, caught)
    /\ \A i, at : Trends!Resumes(i, at) <=> Resumes(i, at)
    /\ Trends!Input <=> Input
    /\ Trends!showError <=> showError
BY DEF Trends!Draw, Draw, Trends!Throwing, Throwing, Trends!Others, Others, Trends!Call, Call,
       Trends!Resumes, Resumes, Trends!IsTurn, IsTurn, Trends!Input, Input, Trends!showError, showError

LEMMA TrendsShape ==
    ASSUME PageOK, page = "trends", TrendsInv
    PROVE  /\ DOMAIN shown = Trends!Elements /\ Elements(page) = Trends!Elements
           /\ "diff-cards" \in Trends!Elements
           /\ DOMAIN state = DOMAIN Fresh(page) /\ state \in TrendsStates
           /\ DOMAIN state = {"from", "to", "db", "conn", "registered", "started", "files", "view"}
BY DEF PageOK, Fresh, Trends!Fresh, Elements, Trends!Elements, TrendsInv

LEMMA Appended ==
    ASSUME NEW others, CallsOK(others), NEW at, NEW sel, NEW on \in Awaited, NEW caught \in BOOLEAN,
           calls' = Append(others, Call(at, sel, on, caught))
    PROVE  /\ CallsOK(calls')
           /\ \A k \in DOMAIN calls' : \/ calls'[k].at = at /\ calls'[k].sel = sel
                                       \/ \E j \in DOMAIN others : calls'[k] = others[j]
           /\ Len(others) = 0 => Len(calls') = 1 /\ calls'[1].at = at /\ calls'[1].sel = sel
<1> DEFINE c == Call(at, sel, on, caught)
<1>1. CallsOK(Append(others, c))
  BY AppendOK
<1>2. c.at = at /\ c.sel = sel
  BY DEF Call
<1>3. IsSequence(others) /\ calls' = Append(others, c)
  BY DEF CallsOK
<1> HIDE DEF c
<1>4. /\ Len(others) \in Nat
      /\ Append(others, c)[Len(others) + 1] = c /\ Len(Append(others, c)) = Len(others) + 1
  BY <1>3, AppendShape
<1>5. \A k \in DOMAIN Append(others, c) :
          Append(others, c)[k] = c \/ \E j \in DOMAIN others : Append(others, c)[k] = others[j]
  BY <1>3, AppendAmong
<1>6. QED
  BY <1>1, <1>2, <1>3, <1>4, <1>5

\* The call i goes on with its job, with a worker.
LEMMA GoesOn ==
    ASSUME PageOK, page = "trends", UNCHANGED page, TrendsInv, DrawnInv,
           NEW i \in DOMAIN calls, calls[i].at \in WithJob,
           NEW at \in WithJob, NEW job, job.fn = calls[i].sel.fn,
           at = "trend" => job.fn = "main", at = "diff" => job.fn # "main",
           NEW on \in Awaited, NEW caught \in BOOLEAN,
           calls' = Append(Others(i), Call(at, job, on, caught)),
           DOMAIN state' = DOMAIN state, state'.from = state.from, state'.db \in Engines,
           UNCHANGED <<empty, shown, status, error, inputs>>
    PROVE  PageOK' /\ DbOK' /\ DrawnInv'
<1>1. CallsOK(Others(i)) /\ IsSequence(Others(i))
  BY OthersOK DEF PageOK
<1>2. /\ CallsOK(calls')
      /\ \A k \in DOMAIN calls' : \/ calls'[k].at = at /\ calls'[k].sel = job
                                  \/ \E j \in DOMAIN Others(i) : calls'[k] = Others(i)[j]
      /\ Len(Others(i)) = 0 => Len(calls') = 1 /\ calls'[1].at = at /\ calls'[1].sel = job
  BY <1>1, Appended
<1>3. PageOK'
  BY <1>2, TrendsShape DEF PageOK
<1>4. DbOK'
  BY DEF DbOK
<1>5. ASSUME error = "none", \A e \in Rest : shown[e] = None,
             \A k \in DOMAIN calls : DiffCall(calls[k])
      PROVE  \A k \in DOMAIN calls' : DiffCall(calls'[k])
  <2>1. at # "trend" /\ job.fn = "lazyDiff"
    BY <1>5 DEF DiffCall
  <2>2. \A k \in DOMAIN Others(i) : \E j \in DOMAIN calls : Others(i)[k] = calls[j]
    BY OthersAmong DEF PageOK, CallsOK
  <2>3. QED
    BY <1>2, <1>5, <2>1, <2>2 DEF DiffCall
<1>6. ASSUME error = "none", Len(calls) = 1, MainCall(calls[1])
      PROVE  Len(calls') = 1 /\ MainCall(calls'[1])
  <2>1. Len(Others(i)) = 0 /\ i = 1
    BY <1>6, OthersShape DEF PageOK, CallsOK
  <2>2. job.fn = "main"
    BY <1>6, <2>1 DEF MainCall
  <2>3. QED
    BY <1>2, <2>1, <2>2 DEF MainCall
<1>7. DrawnInv'
  BY <1>5, <1>6 DEF DrawnInv, Rest, Trends!Elements, DiffCall, MainCall
<1>8. QED
  BY <1>3, <1>4, <1>7

\* The call i ends: with an exception, or as a difference.
LEMMA Ends ==
    ASSUME PageOK, page = "trends", UNCHANGED page, TrendsInv, DbOK, DrawnInv,
           NEW i \in DOMAIN calls, calls' = Others(i), UNCHANGED <<empty, state, inputs>>,
           NEW cards, shown' = shown \/ shown' = Trends!Cards(cards, shown),
           \/ showError
           \/ UNCHANGED <<status, error>> /\ ~MainCall(calls[i])
    PROVE  PageOK' /\ DbOK' /\ DrawnInv'
<1>1. CallsOK(calls') /\ \A k \in DOMAIN calls' : \E j \in DOMAIN calls : calls'[k] = calls[j]
  BY OthersOK, OthersAmong DEF PageOK, CallsOK
<1>2. DOMAIN shown' = DOMAIN shown /\ \A e \in Rest : shown'[e] = shown[e]
  BY TrendsShape DEF Trends!Cards, Rest
<1>3. PageOK'
  BY <1>1, <1>2 DEF PageOK, showError
<1>4. DbOK'
  BY <1>1 DEF DbOK
<1>5. CASE showError
  BY <1>3, <1>4, <1>5 DEF DrawnInv, showError
<1>6. CASE UNCHANGED <<status, error>> /\ ~MainCall(calls[i])
  <2> SUFFICES ASSUME error = "none"
               PROVE  /\ \A e \in Rest : shown'[e] = None
                      /\ \A k \in DOMAIN calls' : DiffCall(calls'[k])
    BY <1>3, <1>4, <1>6 DEF DrawnInv, Rest, Trends!Elements, DiffCall
  <2>1. ~(Len(calls) = 1 /\ MainCall(calls[1]))
    <3>1. Len(calls) = 1 => i = 1
      BY OthersShape DEF PageOK, CallsOK
    <3>2. QED
      BY <1>6, <3>1
  <2>2. (\A e \in Rest : shown[e] = None) /\ \A k \in DOMAIN calls : DiffCall(calls[k])
    BY <2>1 DEF DrawnInv
  <2>3. QED
    BY <1>1, <1>2, <2>2
<1>7. QED
  BY <1>5, <1>6

\* A call begins to wait at one of the awaits, with a job of fn.
Asks(ats, fn, others) ==
    \E at \in ats, on \in Awaited, caught \in BOOLEAN : \E j :
        calls' = Append(others, Call(at, j, on, caught)) /\ j.fn = fn

\* The loop over the dates asks for a snapshot or for the view.
LEMMA LoopShape ==
    ASSUME NEW others, NEW job \in Jobs, NEW registered, job.conn \in Engines,
           Trends!LoopOn(others, job, registered, TRUE)
    PROVE  Asks({"view", "snapshot"}, job.fn, others)
<1>1. CASE Trends!AskView(others, job, registered, TRUE)
  <2> DEFINE j == [job EXCEPT !.over = registered]
  <2>1. j.fn = job.fn
    BY DEF Jobs
  <2>2. calls' = Append(others, Call("view", j, job.conn, TRUE))
    BY <1>1, TrendsNames DEF Trends!AskView
  <2> HIDE DEF j
  <2>3. job.conn \in Awaited
    BY DEF Awaited
  <2>4. QED
    BY <2>1, <2>2, <2>3 DEF Asks
<1>2. CASE Trends!AskSnapshot(others, job, registered, TRUE)
  <2>1. PICK k : calls' = Append(others, Call("snapshot", [job EXCEPT !.next = k], "fetchT", TRUE))
    BY <1>2, TrendsNames DEF Trends!AskSnapshot
  <2> DEFINE j == [job EXCEPT !.next = k]
  <2>2. j.fn = job.fn
    BY DEF Jobs
  <2>3. calls' = Append(others, Call("snapshot", j, "fetchT", TRUE))
    BY <2>1
  <2> HIDE DEF j
  <2>4. QED
    BY <2>2, <2>3, WorkersAreAwaited DEF Asks
<1>3. QED
  BY <1>1, <1>2 DEF Trends!LoopOn

\* A job begins: with the connection there is, or by starting an engine.
LEMMA EnsureShape ==
    ASSUME TrendsInv, NEW others, NEW job \in Jobs, Trends!ensureDates(job, others)
    PROVE  \/ Asks({"engine"}, job.fn, others)
           \/ state.conn # None /\ Asks({"view", "snapshot"}, job.fn, others)
<1>1. CASE state.conn = None
  <2>1. calls' = Append(others, Call("engine", job, "cdn", TRUE))
    BY <1>1, TrendsNames DEF Trends!ensureDates
  <2>2. "cdn" \in Awaited
    BY WorkersAreAwaited
  <2>3. QED
    BY <2>1, <2>2 DEF Asks
<1>2. CASE state.conn # None
  <2> DEFINE j == [job EXCEPT !.conn = state.conn]
  <2>1. state.conn \in Engines
    BY <1>2 DEF TrendsInv, TrendsStates
  <2>2. j \in Jobs /\ j.conn = state.conn /\ j.fn = job.fn
    BY <2>1 DEF Jobs
  <2>3. Trends!LoopOn(others, j, state.registered, TRUE)
    BY <1>2 DEF Trends!ensureDates
  <2> HIDE DEF j
  <2>4. Asks({"view", "snapshot"}, j.fn, others)
    BY <2>1, <2>2, <2>3, LoopShape
  <2>5. QED
    BY <1>2, <2>2, <2>4
<1>3. QED
  BY <1>1, <1>2

\* A difference begins: a call of its own behind the others, or a note.
LEMMA DiffBegins ==
    ASSUME PageOK, page = "trends", TrendsInv, DbOK, NEW others, CallsOK(others),
           \A k \in DOMAIN others : \E j \in DOMAIN calls : others[k] = calls[j],
           NEW from \in Trends!DateSet, NEW to \in Trends!DateSet,
           NEW sh, DOMAIN sh = Trends!Elements, Trends!lazyDiff(from, to, others, sh)
    PROVE  /\ CallsOK(calls') /\ DOMAIN shown' = DOMAIN sh /\ \A e \in Rest : shown'[e] = sh[e]
           /\ (\A k \in DOMAIN others : DiffCall(others[k])) => \A k \in DOMAIN calls' : DiffCall(calls'[k])
           /\ (\E k \in DOMAIN calls' : calls'[k].at \in WithConn) => state.db \in Engines
<1>1. DOMAIN shown' = DOMAIN sh /\ \A e \in Rest : shown'[e] = sh[e]
  BY TrendsShape DEF Trends!lazyDiff, Trends!Cards, Rest
<1>2. CASE calls' = others
  BY <1>1, <1>2 DEF DbOK
<1>3. CASE calls' # others
  <2> DEFINE job == Trends!Job("lazyDiff", <<from, to>>)
  <2>1. Trends!ensureDates(job, others)
    BY <1>3 DEF Trends!lazyDiff
  <2>2. job \in Jobs /\ job.fn = "lazyDiff"
    BY DEF Trends!Job, Jobs, DateSets
  <2> HIDE DEF job
  <2>3. PICK at \in {"engine", "view", "snapshot"}, on \in Awaited, caught \in BOOLEAN : \E j :
               /\ calls' = Append(others, Call(at, j, on, caught)) /\ j.fn = "lazyDiff"
               /\ at = "engine" \/ state.conn # None
    <3>1. CASE Asks({"engine"}, job.fn, others)
      BY <2>2, <3>1 DEF Asks
    <3>2. CASE state.conn # None /\ Asks({"view", "snapshot"}, job.fn, others)
      BY <2>2, <3>2 DEF Asks
    <3>3. QED
      BY <2>1, <2>2, <3>1, <3>2, EnsureShape
  <2>a. PICK j : /\ calls' = Append(others, Call(at, j, on, caught)) /\ j.fn = "lazyDiff"
                 /\ at = "engine" \/ state.conn # None
    BY <2>3
  <2>4. /\ CallsOK(calls')
        /\ \A k \in DOMAIN calls' : \/ calls'[k].at = at /\ calls'[k].sel = j
                                    \/ \E m \in DOMAIN others : calls'[k] = others[m]
    BY <2>a, Appended
  <2>5. (\A k \in DOMAIN others : DiffCall(others[k])) => \A k \in DOMAIN calls' : DiffCall(calls'[k])
    BY <2>a, <2>4 DEF DiffCall, WithJob
  <2>6. (\E k \in DOMAIN calls' : calls'[k].at \in WithConn) => state.db \in Engines
    <3> SUFFICES ASSUME NEW k \in DOMAIN calls', calls'[k].at \in WithConn
                 PROVE  state.db \in Engines
      OBVIOUS
    <3>1. CASE calls'[k].at = at
      BY <2>a, <3>1 DEF DbOK, WithConn
    <3>2. CASE \E m \in DOMAIN others : calls'[k] = others[m]
      BY <3>2 DEF DbOK
    <3>3. QED
      BY <2>4, <3>1, <3>2
  <2>7. QED
    BY <1>1, <2>4, <2>5, <2>6
<1>4. QED
  BY <1>2, <1>3

\* Everything but the difference is drawn.
LEMMA TrendsDrawn ==
    ASSUME PageOK, page = "trends", UNCHANGED <<page, empty, inputs, error>>, TrendsInv, DbOK, DrawnInv,
           NEW i \in DOMAIN calls, ~DiffCall(calls[i]), Trends!RenderTrends(Others(i))
    PROVE  PageOK' /\ DbOK' /\ DrawnInv'
<1> DEFINE ws == <<Trends!renderKpi, Trends!renderTrend, Trends!renderHealth>>
           sh == Draw(ws, shown, None)
<1>1. /\ state' = [state EXCEPT !.from = Trends!DateOne, !.to = Trends!DateLast]
      /\ status' = "hidden" /\ Trends!lazyDiff(Trends!DateOne, Trends!DateLast, Others(i), sh)
  BY TrendsNames DEF Trends!RenderTrends
<1>2. DOMAIN sh = DOMAIN shown
  BY Drawn
<1>3. DOMAIN ws = 1..3
  OBVIOUS
<1>4. /\ ws[1].el = "kpi-grid" /\ ws[2].el = "chart-trend" /\ ws[3].el = "chart-health"
      /\ \A k \in 1..3 : ~ws[k].needsRow
  BY DEF Trends!renderKpi, Trends!renderTrend, Trends!renderHealth, Trends!Text, Trends!NewChart
<1> HIDE DEF ws, sh
<1>5. Rest = {"kpi-grid", "chart-trend", "chart-health"}
  BY DEF Rest, Trends!Elements
<1>6. CallsOK(Others(i)) /\ \A k \in DOMAIN Others(i) : \E j \in DOMAIN calls : Others(i)[k] = calls[j]
  BY OthersOK, OthersAmong DEF PageOK, CallsOK
<1>7. /\ CallsOK(calls') /\ DOMAIN shown' = DOMAIN sh /\ \A e \in Rest : shown'[e] = sh[e]
      /\ (\A k \in DOMAIN Others(i) : DiffCall(Others(i)[k]))
           => \A k \in DOMAIN calls' : DiffCall(calls'[k])
      /\ (\E k \in DOMAIN calls' : calls'[k].at \in WithConn) => state.db \in Engines
  BY <1>1, <1>2, <1>6, TrendsShape, DatesOfLists, DiffBegins
<1>8. DOMAIN state' = DOMAIN state /\ state'.conn = state.conn /\ state'.db = state.db
  BY <1>1, TrendsShape
<1>9. PageOK'
  BY <1>1, <1>2, <1>7, <1>8 DEF PageOK
<1>10. DbOK'
  BY <1>7, <1>8 DEF DbOK
<1> SUFFICES ASSUME error = "none"
             PROVE  /\ \A e \in Rest : shown'[e] = None
                    /\ \A k \in DOMAIN calls' : DiffCall(calls'[k])
  BY <1>9, <1>10 DEF DrawnInv, Rest, Trends!Elements, DiffCall
<1>11. Len(calls) = 1 /\ \A e \in Rest : shown[e] = Blank
  BY DEF DrawnInv
<1>12. DOMAIN Others(i) = {}
  BY <1>11, OthersShape DEF PageOK, CallsOK
<1>13. ~Throws(ws, shown)
  BY <1>3, <1>4, <1>5, <1>11 DEF Throws, Throwing
<1>14. \A e \in Rest : sh[e] = None
  <2>1. sh = [e \in DOMAIN shown |-> IF \E k \in DOMAIN ws : ws[k].el = e THEN None ELSE shown[e]]
    BY <1>13, AllDrawn DEF sh
  <2>2. \A e \in Rest : e \in DOMAIN shown /\ \E k \in DOMAIN ws : ws[k].el = e
    BY <1>3, <1>4, <1>5, TrendsShape DEF Trends!Elements
  <2>3. QED
    BY <2>1, <2>2
<1>15. QED
  BY <1>7, <1>12, <1>14

\* A job goes on at one of the awaits.
LEMMA JobGoesOn ==
    ASSUME PageOK, page = "trends", UNCHANGED page, TrendsInv, DrawnInv,
           NEW i \in DOMAIN calls, calls[i].at \in WithJob,
           Asks({"view", "snapshot"}, calls[i].sel.fn, Others(i)),
           DOMAIN state' = DOMAIN state, state'.from = state.from, state'.db \in Engines,
           UNCHANGED <<empty, shown, status, error, inputs>>
    PROVE  PageOK' /\ DbOK' /\ DrawnInv'
<1>1. PICK at \in {"view", "snapshot"}, on \in Awaited, caught \in BOOLEAN : \E j :
         calls' = Append(Others(i), Call(at, j, on, caught)) /\ j.fn = calls[i].sel.fn
  BY DEF Asks
<1>2. PICK j : calls' = Append(Others(i), Call(at, j, on, caught)) /\ j.fn = calls[i].sel.fn
  BY <1>1
<1>3. at \in WithJob /\ at # "trend" /\ at # "diff"
  BY DEF WithJob
<1>4. QED
  BY <1>2, <1>3, GoesOn

LEMMA ManifestKeeps ==
    ASSUME PageOK, page = "trends", UNCHANGED page, TrendsInv, DbOK, DrawnInv,
           NEW i \in DOMAIN calls, Trends!loadManifest(i)
    PROVE  PageOK' /\ DbOK' /\ DrawnInv'
<1>1. calls[i].at = "manifest" /\ UNCHANGED <<url, empty, state, shown, inputs>>
  BY DEF Trends!loadManifest, Trends!Resumes
<1>2. CASE showError /\ calls' = Others(i)
  BY <1>1, <1>2, Ends
<1>3. CASE Trends!WaitsNext(i, "summary", None, "fetchT") /\ UNCHANGED <<status, error>>
  <2> DEFINE caught == calls[i].caught
  <2>1. calls' = Append(Others(i), Call("summary", None, "fetchT", caught))
    BY <1>3, TrendsNames DEF Trends!WaitsNext
  <2>2. CallsOK(Others(i)) /\ caught \in BOOLEAN /\ "fetchT" \in Awaited
    BY OthersOK, WorkersAreAwaited DEF PageOK, CallOK
  <2> HIDE DEF caught
  <2>3. /\ CallsOK(calls')
        /\ \A k \in DOMAIN calls' : \/ calls'[k].at = "summary" /\ calls'[k].sel = None
                                    \/ \E j \in DOMAIN Others(i) : calls'[k] = Others(i)[j]
        /\ Len(Others(i)) = 0 => /\ Len(calls') = 1
                                 /\ calls'[1].at = "summary" /\ calls'[1].sel = None
    BY <2>1, <2>2, Appended
  <2>4. \A j \in DOMAIN Others(i) : \E k \in DOMAIN calls : Others(i)[j] = calls[k]
    BY OthersAmong DEF PageOK, CallsOK
  <2>5. PageOK'
    BY <1>1, <1>3, <2>3 DEF PageOK
  <2>6. DbOK'
    BY <1>1, <2>3, <2>4 DEF DbOK, WithConn, WithJob
  <2>7. ASSUME error = "none"
        PROVE  /\ \A e \in Rest : shown[e] = Blank
               /\ Len(calls') = 1 /\ MainCall(calls'[1]) /\ state.from = None
    <3>1. ~DiffCall(calls[i])
      BY <1>1 DEF DiffCall, WithJob
    <3>2. (\A e \in Rest : shown[e] = Blank) /\ Len(calls) = 1 /\ state.from = None
      BY <2>7, <3>1 DEF DrawnInv
    <3>3. Len(Others(i)) = 0
      BY <3>2, OthersShape DEF PageOK, CallsOK
    <3>4. QED
      BY <2>3, <3>2, <3>3 DEF MainCall, WithJob
  <2>8. DrawnInv'
    BY <1>1, <1>3, <2>7 DEF DrawnInv, Rest, Trends!Elements, MainCall
  <2>9. QED
    BY <2>5, <2>6, <2>8
<1>4. QED
  BY <1>2, <1>3, TrendsNames DEF Trends!loadManifest

LEMMA SummaryKeeps ==
    ASSUME PageOK, page = "trends", UNCHANGED page, TrendsInv, DbOK, DrawnInv,
           NEW i \in DOMAIN calls, Trends!loadSummary(i)
    PROVE  PageOK' /\ DbOK' /\ DrawnInv'
<1>1. calls[i].at = "summary" /\ UNCHANGED <<url, empty, error, inputs>>
  BY DEF Trends!loadSummary
<1>2. ~DiffCall(calls[i])
  BY <1>1 DEF DiffCall, WithJob
<1>3. CASE Trends!RenderTrends(Others(i))
  BY <1>1, <1>2, <1>3, TrendsDrawn
<1>4. CASE Trends!ensureDates(Trends!Job("main", Dates), Others(i)) /\ UNCHANGED <<state, shown, status>>
  <2> DEFINE job == Trends!Job("main", Dates)
  <2>1. job \in Jobs /\ job.fn = "main"
    BY PagesAssumption, NewJob DEF Trends!Job
  <2>2. Trends!ensureDates(job, Others(i))
    BY <1>4
  <2> HIDE DEF job
  <2>3. PICK at \in {"engine", "view", "snapshot"}, on \in Awaited, caught \in BOOLEAN : \E j :
               /\ calls' = Append(Others(i), Call(at, j, on, caught)) /\ j.fn = "main"
               /\ at = "engine" \/ state.conn # None
    <3>1. CASE Asks({"engine"}, job.fn, Others(i))
      BY <2>1, <3>1 DEF Asks
    <3>2. CASE state.conn # None /\ Asks({"view", "snapshot"}, job.fn, Others(i))
      BY <2>1, <3>2 DEF Asks
    <3>3. QED
      BY <2>1, <2>2, <3>1, <3>2, EnsureShape
  <2>4. PICK j : /\ calls' = Append(Others(i), Call(at, j, on, caught)) /\ j.fn = "main"
                 /\ at = "engine" \/ state.conn # None
    BY <2>3
  <2>5. CallsOK(Others(i))
    BY OthersOK DEF PageOK
  <2>6. /\ CallsOK(calls')
        /\ \A k \in DOMAIN calls' : \/ calls'[k].at = at /\ calls'[k].sel = j
                                    \/ \E m \in DOMAIN Others(i) : calls'[k] = Others(i)[m]
        /\ Len(Others(i)) = 0 => Len(calls') = 1 /\ calls'[1].at = at /\ calls'[1].sel = j
    BY <2>4, <2>5, Appended
  <2>7. \A m \in DOMAIN Others(i) : \E k \in DOMAIN calls : Others(i)[m] = calls[k]
    BY OthersAmong DEF PageOK, CallsOK
  <2>8. PageOK'
    BY <1>1, <1>4, <2>6 DEF PageOK
  <2>9. (\E k \in DOMAIN calls' : calls'[k].at \in WithConn) => state.db \in Engines
    <3> SUFFICES ASSUME NEW k \in DOMAIN calls', calls'[k].at \in WithConn
                 PROVE  state.db \in Engines
      OBVIOUS
    <3>1. CASE calls'[k].at = at
      BY <2>4, <3>1 DEF DbOK, WithConn
    <3>2. CASE \E m \in DOMAIN Others(i) : calls'[k] = Others(i)[m]
      BY <2>7, <3>2 DEF DbOK
    <3>3. QED
      BY <2>6, <3>1, <3>2
  <2>10. DbOK'
    BY <1>4, <2>9 DEF DbOK
  <2>11. ASSUME error = "none"
         PROVE  /\ \A e \in Rest : shown[e] = Blank
                /\ Len(calls') = 1 /\ MainCall(calls'[1]) /\ state.from = None
    <3>1. (\A e \in Rest : shown[e] = Blank) /\ Len(calls) = 1 /\ state.from = None
      BY <1>2, <2>11 DEF DrawnInv
    <3>2. Len(Others(i)) = 0
      BY <3>1, OthersShape DEF PageOK, CallsOK
    <3>3. QED
      BY <2>4, <2>6, <3>1, <3>2 DEF MainCall, WithJob
  <2>12. DrawnInv'
    BY <1>1, <1>4, <2>11 DEF DrawnInv, Rest, Trends!Elements, MainCall
  <2>13. QED
    BY <2>8, <2>10, <2>12
<1>5. QED
  BY <1>3, <1>4, TrendsNames DEF Trends!loadSummary

\* A job: the engine is open, connected to, a snapshot has arrived, is
\* registered, a view is made.
LEMMA JobKeeps ==
    ASSUME PageOK, page = "trends", UNCHANGED page, TrendsInv, DbOK, DrawnInv, NEW i \in DOMAIN calls,
           \/ Trends!initDuckDB(i) \/ Trends!ensureConn(i) \/ Trends!SnapshotFetched(i)
           \/ Trends!Registered(i) \/ Trends!ViewMade(i)
    PROVE  PageOK' /\ DbOK' /\ DrawnInv'
<1> DEFINE job == calls[i].sel
<1>1. calls[i].at \in {"engine", "connect", "snapshot", "register", "view"}
  BY DEF Trends!initDuckDB, Trends!ensureConn, Trends!SnapshotFetched, Trends!Registered,
         Trends!ViewMade, Trends!Resumes
<1>2. /\ calls[i].at \in WithJob /\ job \in Jobs /\ calls[i].caught \in BOOLEAN
      /\ calls[i].at # "engine" => job.conn \in Engines /\ state.db \in Engines
  BY <1>1, JobOfCall, OthersOK DEF WithJob, WithConn, DbOK, PageOK, CallOK
<1>3. Engines \subseteq Awaited
  BY DEF Awaited
<1>4. CASE Trends!initDuckDB(i)
  <2>1. PICK e \in Engines :
            /\ state' = [state EXCEPT !.started = @ \cup {e}, !.db = e]
            /\ calls' = Append(Others(i), Call("connect", [job EXCEPT !.conn = e], e, calls[i].caught))
    BY <1>4, TrendsNames DEF Trends!initDuckDB, Trends!WaitsNext
  <2> DEFINE j == [job EXCEPT !.conn = e]
  <2>2. j.fn = job.fn
    BY <1>2 DEF Jobs
  <2>3. calls' = Append(Others(i), Call("connect", j, e, calls[i].caught))
    BY <2>1
  <2>4. DOMAIN state' = DOMAIN state /\ state'.from = state.from /\ state'.db \in Engines
    BY <2>1, TrendsShape
  <2>5. "connect" \in WithJob /\ UNCHANGED <<empty, shown, status, error, inputs>> /\ e \in Awaited
    BY <1>3, <1>4 DEF WithJob, Trends!initDuckDB
  <2> HIDE DEF j
  <2>6. QED
    BY <1>2, <2>2, <2>3, <2>4, <2>5, GoesOn
<1>5. CASE Trends!ensureConn(i)
  <2>1. /\ state' = [state EXCEPT !.conn = job.conn]
        /\ Trends!LoopOn(Others(i), job, state.registered, TRUE)
        /\ calls[i].at = "connect" /\ UNCHANGED <<empty, shown, status, error, inputs>>
    BY <1>5, TrendsNames DEF Trends!ensureConn, Trends!Resumes
  <2>2. Asks({"view", "snapshot"}, job.fn, Others(i))
    BY <1>2, <2>1, LoopShape
  <2>3. DOMAIN state' = DOMAIN state /\ state'.from = state.from /\ state'.db \in Engines
    BY <1>2, <2>1, TrendsShape
  <2>4. QED
    BY <1>2, <2>1, <2>2, <2>3, JobGoesOn
<1>6. CASE Trends!SnapshotFetched(i)
  <2>1. /\ calls' = Append(Others(i), Call("register", job, state.db, calls[i].caught))
        /\ calls[i].at = "snapshot" /\ UNCHANGED <<empty, state, shown, status, error, inputs>>
    BY <1>6, TrendsNames DEF Trends!SnapshotFetched, Trends!WaitsNext, Trends!Resumes
  <2>2. "register" \in WithJob /\ state.db \in Awaited /\ state'.db \in Engines
    BY <1>2, <1>3, <2>1 DEF WithJob
  <2> HIDE DEF job
  <2>3. job.fn = calls[i].sel.fn
    BY DEF job
  <2>4. QED
    BY <1>2, <2>1, <2>2, <2>3, GoesOn
<1>7. CASE Trends!Registered(i)
  <2> DEFINE d == job.dates[job.next]
             r == state.registered \cup {d}
  <2>1. /\ state' = [state EXCEPT !.registered = r, !.files[calls[i].on] = @ \cup {d}]
        /\ Trends!LoopOn(Others(i), job, r, TRUE)
        /\ calls[i].at = "register" /\ UNCHANGED <<empty, shown, status, error, inputs>>
    BY <1>7, TrendsNames DEF Trends!Registered, Trends!Resumes
  <2>2. DOMAIN state' = DOMAIN state /\ state'.from = state.from /\ state'.db \in Engines
    BY <1>2, <2>1, TrendsShape
  <2> HIDE DEF r, d
  <2>3. Asks({"view", "snapshot"}, job.fn, Others(i))
    BY <1>2, <2>1, LoopShape
  <2>4. QED
    BY <1>2, <2>1, <2>2, <2>3, JobGoesOn
<1>8. CASE Trends!ViewMade(i)
  <2>1. calls[i].at = "view" /\ UNCHANGED <<empty, inputs>>
    BY <1>8 DEF Trends!ViewMade, Trends!Resumes
  <2>2. CASE Trends!Fails(i) /\ calls' = Others(i) /\ UNCHANGED state
    <3>1. CASE showError /\ UNCHANGED shown
      BY <2>1, <2>2, <3>1, Ends
    <3>2. CASE /\ job.fn = "lazyDiff" /\ shown' = Trends!Cards(Trends!Note("failed"), shown)
               /\ UNCHANGED <<status, error>>
      <4>1. ~MainCall(calls[i])
        BY <1>2, <3>2 DEF MainCall
      <4>2. QED
        BY <2>1, <2>2, <3>2, <4>1, Ends
    <3>3. QED
      BY <2>2, <3>1, <3>2, TrendsNames DEF Trends!Fails
  <2>3. CASE /\ state' = [state EXCEPT !.view[job.conn] = job.over]
             /\ Trends!WaitsNext(i, IF job.fn = "main" THEN "trend" ELSE "diff", job, job.conn)
             /\ UNCHANGED <<shown, status, error>>
    <3> DEFINE at == IF job.fn = "main" THEN "trend" ELSE "diff"
    <3>1. calls' = Append(Others(i), Call(at, job, job.conn, calls[i].caught))
      BY <2>3, TrendsNames DEF Trends!WaitsNext
    <3>2. DOMAIN state' = DOMAIN state /\ state'.from = state.from /\ state'.db \in Engines
      BY <1>2, <2>1, <2>3, TrendsShape
    <3>3. at \in WithJob /\ job.conn \in Awaited
          /\ (at = "trend" => job.fn = "main") /\ (at = "diff" => job.fn # "main")
      BY <1>2, <1>3, <2>1 DEF WithJob
    <3> HIDE DEF job, at
    <3>4. job.fn = calls[i].sel.fn
      BY DEF job
    <3>5. QED
      BY <1>2, <2>1, <2>3, <3>1, <3>2, <3>3, <3>4, GoesOn
  <2>4. QED
    BY <1>8, <2>2, <2>3, TrendsNames DEF Trends!ViewMade
<1>9. QED
  BY <1>4, <1>5, <1>6, <1>7, <1>8

LEMMA TrendsKeeps ==
    ASSUME PageOK, page = "trends", UNCHANGED page, TrendsInv, DbOK, DrawnInv,
           \/ \E i \in DOMAIN calls : Trends!Resume(i) \/ Trends!Failed(i)
           \/ Trends!UserEvent
    PROVE  PageOK' /\ DbOK' /\ DrawnInv'
<1>1. ASSUME NEW i \in DOMAIN calls, Trends!TrendsComputed(i)
      PROVE  PageOK' /\ DbOK' /\ DrawnInv'
  <2>1. /\ calls[i].at = "trend" /\ UNCHANGED <<empty, inputs, error>>
        /\ Trends!RenderTrends(Others(i))
    BY <1>1, TrendsNames DEF Trends!TrendsComputed, Trends!Resumes
  <2>2. ~DiffCall(calls[i])
    BY <2>1 DEF DiffCall
  <2>3. QED
    BY <2>1, <2>2, TrendsDrawn
<1>2. ASSUME NEW i \in DOMAIN calls, Trends!qDiff(i)
      PROVE  PageOK' /\ DbOK' /\ DrawnInv'
  <2>1. /\ calls[i].at = "diff" /\ calls' = Others(i)
        /\ UNCHANGED <<empty, state, status, error, inputs>>
        /\ \E cards : shown' = Trends!Cards(cards, shown)
    BY <1>2, TrendsNames DEF Trends!qDiff, Trends!Resumes
  <2>2. ~MainCall(calls[i])
    BY <2>1 DEF MainCall
  <2>3. QED
    BY <2>1, <2>2, Ends
<1>3. ASSUME NEW i \in DOMAIN calls, Trends!Failed(i)
      PROVE  PageOK' /\ DbOK' /\ DrawnInv'
  <2>1. Trends!Fails(i) /\ calls' = Others(i) /\ UNCHANGED <<empty, state, inputs>>
    BY <1>3, TrendsNames DEF Trends!Failed
  <2>2. CASE showError /\ UNCHANGED shown
    BY <2>1, <2>2, Ends
  <2>3. CASE /\ calls[i].sel # None /\ calls[i].sel.fn = "lazyDiff"
             /\ shown' = Trends!Cards(Trends!Note("failed"), shown)
             /\ UNCHANGED <<status, error>>
    <3>1. ~MainCall(calls[i])
      BY <2>3 DEF MainCall
    <3>2. QED
      BY <2>1, <2>3, <3>1, Ends
  <2>4. QED
    BY <2>1, <2>2, <2>3, TrendsNames DEF Trends!Fails
<1>4. ASSUME NEW from \in Trends!DateSet, NEW to \in Trends!DateSet, Trends!fillDateSelects(from, to)
      PROVE  PageOK' /\ DbOK' /\ DrawnInv'
  <2>1. /\ Input /\ state.from # None /\ Trends!lazyDiff(from, to, calls, shown)
        /\ state' = [state EXCEPT !.from = from, !.to = to]
        /\ UNCHANGED <<empty, status, error>>
    BY <1>4, TrendsNames DEF Trends!fillDateSelects
  <2>2. /\ CallsOK(calls') /\ DOMAIN shown' = DOMAIN shown /\ \A e \in Rest : shown'[e] = shown[e]
        /\ (\A k \in DOMAIN calls : DiffCall(calls[k])) => \A k \in DOMAIN calls' : DiffCall(calls'[k])
        /\ (\E k \in DOMAIN calls' : calls'[k].at \in WithConn) => state.db \in Engines
    BY <2>1, TrendsShape, DiffBegins DEF PageOK
  <2>3. DOMAIN state' = DOMAIN state /\ state'.db = state.db /\ state'.conn = state.conn
    BY <2>1, TrendsShape
  <2>4. PageOK'
    BY <2>1, <2>2, <2>3, Clicked DEF PageOK
  <2>5. DbOK'
    BY <2>2, <2>3 DEF DbOK
  <2>6. error = "none" => /\ \A e \in Rest : shown'[e] = None
                          /\ \A k \in DOMAIN calls' : DiffCall(calls'[k])
    BY <2>1, <2>2 DEF DrawnInv
  <2>7. DrawnInv'
    BY <2>1, <2>6 DEF DrawnInv, Rest, Trends!Elements, DiffCall
  <2>8. QED
    BY <2>4, <2>5, <2>7
<1>5. QED
  BY <1>1, <1>2, <1>3, <1>4, ManifestKeeps, SummaryKeeps, JobKeeps
     DEF Trends!Resume, Trends!main, Trends!UserEvent

-----------------------------------------------------------------------------
(* The specification                                                         *)

\* Of the page that is open.
PageInv ==
    CASE page = "national" -> NationalInv
      [] page = "route"    -> RouteInv
      [] page = "station"  -> StationInv
      [] page = "compare"  -> CompareInv
      [] page = "trends"   -> DbOK /\ DrawnInv
      [] page = "map"      -> MapInv
      [] OTHER             -> PlainInv

\* The inductive invariant: the types, the jobs of the trends page (IInv of
\* TrendsProofs) and the page's own part.
PagesInv == PageOK /\ IInv /\ PageInv

\* A script that begins, with whatever query string.
Begun ==
    /\ page \in PageNames /\ empty \in BOOLEAN /\ inputs \in 0..MaxInputs
    /\ page = "compare" => url.type \in Compare!Types /\ \E S : url.ids \in Seq(S)
    /\ state = Fresh(page) /\ calls = <<FirstCall(page)>>
    /\ shown = [e \in Elements(page) |-> Blank]
    /\ status = "busy" /\ error = "none"

\* It is alone and has drawn nothing.
LEMMA BegunIsSafe == Begun => PageOK /\ PageInv
<1> SUFFICES ASSUME Begun PROVE PageOK /\ PageInv
  OBVIOUS
<1>1. /\ Len(calls) = 1 /\ DOMAIN calls = {1} /\ calls[1] = FirstCall(page) /\ IsSequence(calls)
      /\ calls # <<>>
  <2> DEFINE c == FirstCall(page)
  <2>1. calls = <<c>>
    BY DEF Begun
  <2> HIDE DEF c
  <2>2. calls \in Seq({c}) /\ Len(calls) = 1 /\ DOMAIN calls = {1} /\ calls[1] = c
    BY <2>1
  <2>3. calls # <<>>
    BY <2>2
  <2>4. IsSequence(calls)
    BY <2>2 DEF IsSequence
  <2>5. QED
    BY <2>2, <2>3, <2>4 DEF c
<1>2. /\ calls[1].at = IF page = "trends" THEN "manifest" ELSE "engine"
      /\ calls[1].sel = None /\ CallOK(calls[1])
  BY <1>1, WorkersAreAwaited DEF FirstCall, Call, CallOK
<1>3. CallsOK(calls)
  BY <1>1, <1>2 DEF CallsOK
<1>4. PageOK
  BY <1>3 DEF PageOK, Begun
<1>5. \A e \in DOMAIN shown : shown[e] = Blank
  BY DEF Begun
<1>6. DOMAIN shown = Elements(page)
  BY DEF Begun
<1>7. ASSUME page = "national" PROVE NationalInv
  BY <1>1, <1>2, <1>5, <1>6, <1>7 DEF NationalInv, Filtering, Elements
<1>8. ASSUME page = "route" PROVE RouteInv
  BY <1>1, <1>2, <1>8 DEF RouteInv, Begun, Fresh, Route!Fresh, Quiet
<1>9. ASSUME page = "station" PROVE StationInv
  BY <1>1, <1>2, <1>9 DEF StationInv, Quiet
<1>10. ASSUME page = "compare" PROVE CompareInv
  <2>1. state = [type |-> "operator", selected |-> <<>>, listening |-> FALSE]
    BY <1>10 DEF Begun, Fresh, Compare!Fresh
  <2>2. state.type = "operator" /\ state.selected = <<>> /\ state.listening = FALSE
    BY <2>1
  <2>3. SelectionOK
    <3>1. <<>> \in Listed("operator")
      BY DEF Listed
    <3>2. "operator" \in Compare!Types
      BY DEF Compare!Types
    <3>3. url.type \in Compare!Types /\ \E S : url.ids \in Seq(S)
      BY <1>10 DEF Begun
    <3>4. QED
      BY <2>2, <3>1, <3>2, <3>3 DEF SelectionOK
  <2>4. QED
    BY <1>1, <1>2, <1>10, <2>2, <2>3 DEF CompareInv
<1>11. ASSUME page = "trends" PROVE DbOK /\ DrawnInv
  <2>1. state.from = None /\ state.conn = None
    BY <1>11 DEF Begun, Fresh, Trends!Fresh
  <2>2. DbOK
    BY <1>1, <1>2, <1>11, <2>1 DEF DbOK, WithConn, WithJob
  <2>3. \A e \in Rest : shown[e] = Blank
    BY <1>5, <1>6, <1>11 DEF Rest, Elements
  <2>4. DrawnInv
    BY <1>1, <1>2, <1>11, <2>1, <2>3 DEF DrawnInv, MainCall, WithJob
  <2>5. QED
    BY <2>2, <2>4
<1>12. ASSUME page = "map" PROVE MapInv
  <2>1. state.listening = FALSE
    BY <1>12 DEF Begun, Fresh, Map!Fresh
  <2>2. QED
    BY <1>1, <2>1 DEF MapInv, Quiet
<1>13. PlainInv
  BY <1>1 DEF PlainInv, Quiet
<1>14. PageInv
  BY <1>7, <1>8, <1>9, <1>10, <1>11, <1>12, <1>13 DEF PageInv
<1>15. QED
  BY <1>4, <1>14

\* The page is opened.
LEMMA BeginsSafely == Init => PagesInv
<1>1. Init => Begun
  <2> SUFFICES ASSUME Init PROVE Begun
    OBVIOUS
  <2>1. 0 \in 0..MaxInputs
    BY InstanceAssumption
  <2>2. ASSUME page = "compare"
        PROVE  url.type \in Compare!Types /\ \E S : url.ids \in Seq(S)
    BY <2>2, InstanceAssumption DEF Init
  <2>3. QED
    BY <2>1, <2>2 DEF Init, Begun
<1>2. QED
  BY <1>1, BegunIsSafe, Initially DEF PagesInv

\* A reload begins again, with the query string there is.
LEMMA ReloadIsSafe == ASSUME PagesInv, Reload PROVE PageOK' /\ PageInv'
<1>1. page = "compare" => url.type \in Compare!Types /\ \E S : url.ids \in Seq(S)
  BY DEF PagesInv, PageInv, CompareInv, SelectionOK
<1>2. inputs' \in 0..MaxInputs
  BY Clicked DEF PagesInv, Reload
<1>3. Begun'
  BY <1>1, <1>2 DEF PagesInv, PageOK, Reload, Begun, FirstCall, Fresh, Elements, Compare!Types,
     National!Fresh, Route!Fresh, Station!Fresh, Compare!Fresh, Trends!Fresh, Map!Fresh,
     HighwayAll!Fresh, Activity!Fresh, Operators!Fresh,
     National!Elements, Route!Elements, Station!Elements, Compare!Elements, Trends!Elements,
     Map!Elements, HighwayAll!Elements, Activity!Elements, Operators!Elements,
     Route!Canvases, Station!Canvases, Compare!Canvases, Call
<1>4. QED
  BY <1>3, BegunIsSafe, PTL

\* What a call waits for fails: the page keeps what it is, and shows an error.
LEMMA RejectIsSafe ==
    ASSUME PagesInv, page # "trends", UNCHANGED page, NEW i \in DOMAIN calls, Reject(i)
    PROVE  PageOK' /\ PageInv'
<1>1. PageOK' /\ error' # "none" /\ CallsOK(calls)
  BY RejectKeeps DEF PagesInv, PageOK
<1>2. UNCHANGED <<url, empty, state, shown, inputs>> /\ calls' = Others(i)
  BY DEF Reject
<1>3. ASSUME page = "national" PROVE NationalInv'
  BY <1>1 DEF NationalInv
<1>4. ASSUME page = "route" PROVE RouteInv'
  BY <1>1 DEF RouteInv
<1>5. ASSUME page = "station" PROVE StationInv'
  <2>1. \A k \in DOMAIN calls' : \E j \in DOMAIN calls : calls'[k] = calls[j]
    BY <1>1, <1>2, OthersAmong DEF CallsOK
  <2>2. \A j \in DOMAIN calls : calls[j].at = "neighbors" => calls[j].sel # None
    BY <1>5 DEF PagesInv, PageInv, StationInv
  <2>3. QED
    BY <1>1, <2>1, <2>2 DEF StationInv
<1>6. ASSUME page = "compare" PROVE CompareInv'
  <2>1. SelectionOK
    BY <1>6 DEF PagesInv, PageInv, CompareInv
  <2>2. SelectionOK'
    BY <1>2, <2>1 DEF SelectionOK, Listed, Compare!Types, Compare!ToSet
  <2>3. QED
    BY <1>1, <2>2 DEF CompareInv
<1>7. ASSUME page = "map" PROVE MapInv'
  <2>1. MapInv
    BY <1>7 DEF PagesInv, PageInv
  <2>2. QED
    BY <1>1, <1>2, <2>1 DEF MapInv, Map!Restored, Map!Elements
<1>8. PlainInv'
  BY <1>1 DEF PlainInv
<1>9. QED
  BY <1>1, <1>3, <1>4, <1>5, <1>6, <1>7, <1>8 DEF PageInv

\* A response begins: the calls are as many as before, where they were, of the
\* same selections, and what was asked of a worker is untouched.
LEMMA ResponseIsSafe ==
    ASSUME PagesInv, UNCHANGED page, NEW i \in DOMAIN calls, ResponseBegins(i)
    PROVE  PageOK' /\ PageInv'
<1> DEFINE c == [calls[i] EXCEPT !.on = "body"]
<1>1. UNCHANGED <<url, empty, state, shown, status, error, inputs>> /\ calls[i].on = "fetchT"
  BY DEF ResponseBegins
<1>2. CallsOK(calls) /\ IsSequence(calls)
  BY DEF PagesInv, PageOK, CallsOK
<1>3. PICK S : calls \in Seq(S)
  BY <1>2 DEF IsSequence
<1>4. /\ i \in 1..Len(calls) /\ DOMAIN calls = 1..Len(calls)
      /\ calls' \in Seq(S \cup {c})
      /\ Len(calls') = Len(calls) /\ DOMAIN calls' = DOMAIN calls
      /\ \A k \in DOMAIN calls : calls'[k] = IF k = i THEN c ELSE calls[k]
  BY <1>3, ResponseShape
<1>5. \A k \in DOMAIN calls :
          /\ calls'[k].at = calls[k].at /\ calls'[k].sel = calls[k].sel
          /\ k # i => calls'[k] = calls[k]
          /\ CallOK(calls'[k])
  <2>1. CallOK(calls[i])
    BY <1>2 DEF CallsOK
  <2>2. c.at = calls[i].at /\ c.sel = calls[i].sel /\ c.on = "body"
    BY <2>1 DEF CallOK
  <2>3. DOMAIN c = DOMAIN calls[i] /\ c.caught = calls[i].caught
    BY <2>1 DEF CallOK
  <2>4. CallOK(c)
    BY <2>1, <2>2, <2>3 DEF CallOK, Awaited, Untimed
  <2> HIDE DEF c
  <2>5. QED
    BY <1>2, <1>4, <2>2, <2>4 DEF CallsOK
<1> HIDE DEF c
<1>6. IsSequence(calls') /\ calls' # <<>> /\ calls # <<>>
  BY <1>4 DEF IsSequence
<1>7. Len(calls) \in DOMAIN calls
  BY <1>3, <1>4
<1>8. PageOK'
  <2>1. CallsOK(calls')
    BY <1>4, <1>5, <1>6 DEF CallsOK
  <2>2. QED
    BY <1>1, <2>1 DEF PagesInv, PageOK
<1>9. calls[i].on # Worker
  BY <1>1, WorkersAreAwaited
<1>10. ASSUME page = "national" PROVE NationalInv'
  <2>1. NationalInv
    BY <1>10 DEF PagesInv, PageInv
  <2>2. ~Filtering
    BY <1>9 DEF Filtering
  <2>3. error = "none" => /\ Len(calls) = 1 /\ calls[1].at # "filtered"
                          /\ \A e \in National!Elements : shown[e] = Blank
    BY <2>1, <2>2 DEF NationalInv
  <2>4. Len(calls) = 1 => calls'[1].at = calls[1].at /\ i = 1
    BY <1>4, <1>5
  <2>5. Len(calls) = 1 /\ calls[1].at # "filtered" => ~Filtering'
    BY <1>4, <2>4 DEF Filtering
  <2>6. QED
    BY <1>1, <1>4, <2>3, <2>4, <2>5 DEF NationalInv, National!Elements
<1>11. ASSUME page = "route" PROVE RouteInv'
  <2>1. RouteInv
    BY <1>11 DEF PagesInv, PageInv
  <2>2. calls'[Len(calls')].at = calls[Len(calls)].at /\ calls'[Len(calls')].sel = calls[Len(calls)].sel
    BY <1>4, <1>5, <1>7
  <2>3. error = "none" => calls[i].at # "route"
    BY <1>9, <2>1 DEF RouteInv
  <2>4. error = "none" => \A k \in DOMAIN calls' :
            IF calls'[k].at = "route"
            THEN calls'[k].on = Worker /\ (Chosen(calls'[k].sel) \/ calls'[k].sel = None)
            ELSE Len(calls') = 1 /\ ~state.listening
    BY <1>4, <1>5, <2>1, <2>3 DEF RouteInv
  <2>5. QED
    BY <1>1, <1>6, <2>1, <2>2, <2>4 DEF RouteInv, Chosen, Quiet, Worker, Route!IsRoute
<1>12. ASSUME page = "station" PROVE StationInv'
  <2>1. StationInv
    BY <1>12 DEF PagesInv, PageInv
  <2>2. QED
    BY <1>4, <1>5, <1>6, <2>1 DEF StationInv, Quiet
<1>13. ASSUME page = "compare" PROVE CompareInv'
  <2>1. CompareInv
    BY <1>13 DEF PagesInv, PageInv
  <2>2. SelectionOK'
    BY <1>1, <2>1 DEF CompareInv, SelectionOK, Listed, Compare!Types, Compare!ToSet
  <2>3. Selected' = Selected /\ Compare!Selection(url)' = Compare!Selection(url)
    BY <1>1 DEF Selected, Compare!Comparison, Compare!Selection, Compare!First, Compare!Known,
                Compare!Keeping, Compare!ToSet
  <2>4. calls'[Len(calls')].sel = calls[Len(calls)].sel
    BY <1>4, <1>5, <1>7
  <2>5. error = "none" => calls[i].at # "compared"
    BY <1>9, <2>1 DEF CompareInv
  <2>6. error = "none" => \A k \in DOMAIN calls' :
            IF calls'[k].at = "compared" THEN calls'[k].on = Worker /\ state.listening
                                         ELSE Len(calls') = 1 /\ ~state.listening
    BY <1>4, <1>5, <2>1, <2>5 DEF CompareInv
  <2>7. QED
    BY <1>1, <1>6, <2>1, <2>2, <2>3, <2>4, <2>6 DEF CompareInv, Quiet, Worker
<1>14. ASSUME page = "trends" PROVE DbOK' /\ DrawnInv'
  <2>1. DbOK /\ DrawnInv
    BY <1>14 DEF PagesInv, PageInv
  <2>2. DbOK'
    BY <1>1, <1>4, <1>5, <2>1 DEF DbOK
  <2>3. Len(calls) = 1 => calls'[1].at = calls[1].at /\ calls'[1].sel = calls[1].sel
    BY <1>4, <1>5
  <2>4. DrawnInv'
    BY <1>1, <1>4, <1>5, <2>1, <2>3 DEF DrawnInv, DiffCall, MainCall, Rest, Trends!Elements
  <2>5. QED
    BY <2>2, <2>4
<1>15. ASSUME page = "map" PROVE MapInv'
  <2>1. MapInv
    BY <1>15 DEF PagesInv, PageInv
  <2>2. QED
    BY <1>1, <1>6, <2>1 DEF MapInv, Quiet, Map!Restored, Map!Elements
<1>16. PlainInv'
  BY <1>6 DEF PlainInv, Quiet
<1>17. QED
  BY <1>8, <1>10, <1>11, <1>12, <1>13, <1>14, <1>15, <1>16 DEF PageInv

\* A call goes on.
LEMMA ResumeIsSafe ==
    ASSUME PagesInv, UNCHANGED page, NEW i \in DOMAIN calls, Resume(i)
    PROVE  PageOK' /\ PageInv'
<1>1. CASE page = "national" /\ National!Resume(i)
  BY <1>1, NationalKeeps DEF PagesInv, PageInv
<1>2. CASE page = "route" /\ Route!Resume(i)
  BY <1>2, RouteKeeps DEF PagesInv, PageInv
<1>3. CASE page = "station" /\ Station!Resume(i)
  BY <1>3, StationKeeps DEF PagesInv, PageInv
<1>4. CASE page = "compare" /\ Compare!Resume(i)
  BY <1>4, CompareKeeps DEF PagesInv, PageInv
<1>5. CASE page = "trends" /\ Trends!Resume(i)
  BY <1>5, TrendsKeeps DEF PagesInv, PageInv, IInv
<1>6. CASE page = "map" /\ Map!Resume(i)
  BY <1>6, MapKeeps DEF PagesInv, PageInv
<1>7. CASE page = "highway" /\ HighwayAll!Resume(i)
  BY <1>7, HighwayKeeps DEF PagesInv, PageInv
<1>8. CASE page = "activity" /\ Activity!Resume(i)
  BY <1>8, ActivityKeeps DEF PagesInv, PageInv
<1>9. CASE page = "operators" /\ Operators!Resume(i)
  BY <1>9, OperatorsKeeps DEF PagesInv, PageInv
<1>10. QED
  BY <1>1, <1>2, <1>3, <1>4, <1>5, <1>6, <1>7, <1>8, <1>9 DEF Resume

\* The user acts.
LEMMA EventIsSafe ==
    ASSUME PagesInv, UNCHANGED page, UserEvent
    PROVE  PageOK' /\ PageInv'
<1>1. CASE page = "national" /\ National!UserEvent
  BY <1>1, NationalKeeps DEF PagesInv, PageInv
<1>2. CASE page = "route" /\ Route!UserEvent
  BY <1>2, RouteKeeps DEF PagesInv, PageInv
<1>3. CASE page = "station" /\ Station!UserEvent
  BY <1>3, StationKeeps DEF PagesInv, PageInv
<1>4. CASE page = "compare" /\ Compare!UserEvent
  BY <1>4, CompareKeeps DEF PagesInv, PageInv
<1>5. CASE page = "trends" /\ Trends!UserEvent
  BY <1>5, TrendsKeeps DEF PagesInv, PageInv, IInv
<1>6. CASE page = "map" /\ Map!UserEvent
  BY <1>6, MapKeeps DEF PagesInv, PageInv
<1>7. QED
  BY <1>1, <1>2, <1>3, <1>4, <1>5, <1>6 DEF UserEvent

\* Nothing happens.
LEMMA RestIsSafe == ASSUME PagesInv, UNCHANGED vars PROVE PageOK' /\ PageInv'
<1>1. UNCHANGED <<page, url, empty, state, calls, shown, status, error, inputs>>
  BY DEF vars, browser
<1>2. PageOK'
  BY <1>1 DEF PagesInv, PageOK, CallsOK, CallOK, IsSequence
<1>3. ASSUME page = "national" PROVE NationalInv'
  <2>1. NationalInv
    BY <1>3 DEF PagesInv, PageInv
  <2>2. QED
    BY <1>1, <2>1 DEF NationalInv, Filtering, Quiet, Worker, National!Elements, National!Filter,
       National!Restored
<1>4. ASSUME page = "route" PROVE RouteInv'
  <2>1. RouteInv
    BY <1>4 DEF PagesInv, PageInv
  <2>2. QED
    BY <1>1, <2>1 DEF RouteInv, Chosen, Quiet, Worker, Route!Elements, Route!Canvases, Route!IsRoute
<1>5. ASSUME page = "station" PROVE StationInv'
  <2>1. StationInv
    BY <1>5 DEF PagesInv, PageInv
  <2>2. QED
    BY <1>1, <2>1 DEF StationInv, Quiet, Station!Elements, Station!Canvases
<1>6. ASSUME page = "compare" PROVE CompareInv'
  <2>1. CompareInv
    BY <1>6 DEF PagesInv, PageInv
  <2>2. SelectionOK'
    BY <1>1, <2>1 DEF CompareInv, SelectionOK, Listed, Compare!Types, Compare!ToSet
  <2>3. Selected' = Selected /\ Compare!Selection(url)' = Compare!Selection(url)
    BY <1>1 DEF Selected, Compare!Comparison, Compare!Selection, Compare!First, Compare!Known,
       Compare!Keeping, Compare!ToSet
  <2>4. QED
    BY <1>1, <2>1, <2>2, <2>3 DEF CompareInv, Quiet, Worker, Compare!Elements, Compare!Canvases
<1>7. ASSUME page = "trends" PROVE DbOK' /\ DrawnInv'
  <2>1. DbOK /\ DrawnInv
    BY <1>7 DEF PagesInv, PageInv
  <2>2. QED
    BY <1>1, <2>1 DEF DbOK, DrawnInv, DiffCall, MainCall, Rest, WithJob, WithConn, Trends!Elements
<1>8. ASSUME page = "map" PROVE MapInv'
  <2>1. MapInv
    BY <1>8 DEF PagesInv, PageInv
  <2>2. QED
    BY <1>1, <2>1 DEF MapInv, Quiet, Map!Restored, Map!Elements
<1>9. ASSUME page \notin {"national", "route", "station", "compare", "trends", "map"}
      PROVE  PlainInv'
  <2>1. PlainInv
    BY <1>9 DEF PagesInv, PageInv
  <2>2. QED
    BY <1>1, <2>1 DEF PlainInv, Quiet, Elements, HighwayAll!Elements, Activity!Elements, Operators!Elements,
       National!Elements, Route!Elements, Station!Elements, Compare!Elements, Trends!Elements, Map!Elements
<1>10. QED
  BY <1>1, <1>2, <1>3, <1>4, <1>5, <1>6, <1>7, <1>8, <1>9 DEF PageInv

\* Every step of every page keeps the invariant.
LEMMA PagesKeep == PagesInv /\ [Next]_vars => PagesInv'
<1> SUFFICES ASSUME PagesInv, [Next]_vars PROVE PagesInv'
  OBVIOUS
<1>1. IInv'
  BY StepKeeps DEF PagesInv
<1>2. PageOK' /\ PageInv'
  <2>1. CASE UNCHANGED vars
    BY <2>1, RestIsSafe
  <2>2. CASE Reload
    BY <2>2, ReloadIsSafe
  <2>3. CASE UserEvent /\ UNCHANGED page
    BY <2>3, EventIsSafe
  <2>4. ASSUME NEW i \in DOMAIN calls, Resume(i), UNCHANGED page PROVE PageOK' /\ PageInv'
    BY <2>4, ResumeIsSafe
  <2>5. ASSUME NEW i \in DOMAIN calls, Fail(i), UNCHANGED page PROVE PageOK' /\ PageInv'
    <3>1. CASE page = "trends" /\ Trends!Failed(i)
      BY <2>5, <3>1, TrendsKeeps DEF PagesInv, PageInv, IInv
    <3>2. CASE page # "trends" /\ Reject(i)
      BY <2>5, <3>2, RejectIsSafe
    <3>3. QED
      BY <2>5, <3>1, <3>2 DEF Fail
  <2>6. ASSUME NEW i \in DOMAIN calls, ResponseBegins(i), UNCHANGED page PROVE PageOK' /\ PageInv'
    BY <2>6, ResponseIsSafe
  <2>7. QED
    BY <2>1, <2>2, <2>3, <2>4, <2>5, <2>6 DEF Next
<1>3. QED
  BY <1>1, <1>2 DEF PagesInv

-----------------------------------------------------------------------------
(* The theorems                                                              *)

\* The variables have their types: a page keeps the shape of its script's
\* variables and of its elements whatever answers, fails or is clicked, every
\* call waits for something there is, and the counter of events is bounded.
THEOREM TypeCorrect == Spec => []TypeOK
<1>1. PagesInv => TypeOK
  BY DEF PagesInv, PageOK, CallsOK, CallOK, TypeOK
<1>2. QED
  BY <1>1, BeginsSafely, PagesKeep, PTL DEF Spec

\* A page at rest without an error shows what its query string names.
LEMMA RestShows == ASSUME PagesInv, Quiet, error = "none" PROVE ShowsSelection
<1>1. PageOK /\ IInv /\ PageInv /\ calls = <<>>
  BY DEF PagesInv, Quiet
<1>2. CASE page = "national"
  <2>1. \A i \in DOMAIN calls : FALSE
    BY <1>1
  <2>2. Filtering
    BY <2>1 DEF Filtering
  <2>3. QED
    BY <1>1, <1>2, <2>2 DEF PageInv, NationalInv, ShowsSelection
<1>3. CASE page = "route"
  <2>1. shown = [e \in Route!Elements |-> url] /\ Chosen(url)
    BY <1>1, <1>3 DEF PageInv, RouteInv
  <2>2. QED
    BY <1>3, <2>1 DEF ShowsSelection, Route!Restored, Chosen
<1>4. CASE page = "station"
  <2>1. shown = [e \in Station!Elements |-> url] /\ url # None
    BY <1>1, <1>4 DEF PageInv, StationInv
  <2>2. QED
    BY <1>4, <2>1 DEF ShowsSelection, Station!Restored
<1>5. CASE page = "compare"
  <2> SUFFICES ASSUME Len(state.selected) >= 2 PROVE shown = Compare!Restored(url)
    BY <1>5 DEF ShowsSelection
  <2>1. CompareInv
    BY <1>1, <1>5 DEF PageInv
  <2>2. state.listening
    BY <2>1 DEF CompareInv, SelectionOK
  <2>3. Compare!Selection(url) = Selected /\ shown = [e \in Compare!Elements |-> Selected]
    BY <2>1, <2>2 DEF CompareInv
  <2>4. QED
    BY <2>3 DEF Compare!Restored
<1>6. CASE page = "trends"
  <2>1. Len(calls) # 1
    BY <1>1
  <2>2. \A e \in Rest : shown[e] = None
    BY <1>1, <1>6, <2>1 DEF PageInv, DrawnInv
  <2>3. QED
    BY <1>6, <2>2 DEF ShowsSelection, Rest, Trends!Restored
<1>7. CASE page = "map"
  BY <1>1, <1>7 DEF PageInv, MapInv, ShowsSelection
<1>8. CASE page \in {"highway", "activity", "operators"}
  <2>1. shown = [e \in Elements(page) |-> None]
    BY <1>1, <1>8 DEF PageInv, PlainInv
  <2>2. QED
    BY <1>8, <2>1 DEF ShowsSelection, Elements, HighwayAll!Restored, Activity!Restored, Operators!Restored
<1>9. page \in AllPages
  BY <1>1, InstanceAssumption DEF PageOK
<1>10. QED
  BY <1>2, <1>3, <1>4, <1>5, <1>6, <1>7, <1>8, <1>9 DEF AllPages

\* Once nothing is under way and no exception was shown, all parts of a page
\* belong to one selection, that of its URL: clicks, answers that arrive late
\* or fail, and reloads, in any order, leave no mixture on any of the pages.
THEOREM SelectionCorrect == Spec => []OneSelectionShown
<1>1. PagesInv => OneSelectionShown
  BY RestShows DEF OneSelectionShown
<1>2. QED
  BY <1>1, BeginsSafely, PagesKeep, PTL DEF Spec
================================================================================
