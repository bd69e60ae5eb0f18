-------------------------------- MODULE Pages --------------------------------
(* The pages under web/ in one tab: each starts from a bookmark, answers     *)
(* come, fail or (without a deadline) never come, the user acts and reloads. *)
EXTENDS Browser

CONSTANTS
    Sidos, Bars,                                     \* NationalPage
    Routes, Unplaced,                                \* RoutePage
    Stations, OnHighway,                             \* StationPage
    EntityList, Newcomers, Incumbents, MaxSelected,  \* ComparePage
    Dates,                                           \* TrendsPage
    Highways,                                        \* MapPage
    PageNames,  \* the pages of this instance
    Bookmarks,  \* per page the query strings it may start with
    Faulty      \* whether requests and queries may fail

VARIABLE page

vars == <<page, browser>>

National == INSTANCE NationalPage
Route == INSTANCE RoutePage
Station == INSTANCE StationPage
Compare == INSTANCE ComparePage
Trends == INSTANCE TrendsPage
Map == INSTANCE MapPage
HighwayAll == INSTANCE HighwayPage
Activity == INSTANCE ActivityPage
Operators == INSTANCE OperatorsPage

\* A manifest without a date is an error (empty); an element without content
\* does not show a difference.
ASSUME PagesAssumption ==
    /\ Dates \in Seq(Trends!DateSet) /\ Dates # <<>>
    /\ \A d, e \in Trends!DateSet, over \in SUBSET Trends!DateSet :
          Blank # Trends!Diff(<<d, e>>, over)

AllPages == {"national", "route", "station", "compare", "trends", "map",
             "highway", "activity", "operators"}

\* A page has a worker, which is neither a server nor the CDN; an id is not
\* null; the presets choose from the list; the query string of a comparison
\* stands for a type and for its ids, <<>> without any.
ASSUME InstanceAssumption ==
    /\ PageNames \subseteq AllPages
    /\ Engines # {} /\ Engines \cap (Untimed \cup {"fetchT"}) = {}
    /\ MaxInputs \in Nat /\ MaxSelected \in Nat
    /\ \A k \in DOMAIN Stations : Stations[k] # None
    /\ \A t \in Compare!Types :
          {EntityList[t], Newcomers[t], Incumbents[t]}
              \subseteq Seq(Compare!ToSet(EntityList[t]))
    /\ "compare" \in PageNames => \A u \in Bookmarks["compare"] :
          u.type \in Compare!Types /\ u.ids \in Seq(Compare!ToSet(u.ids))

Fresh(p) ==
    CASE p = "national" -> National!Fresh   [] p = "route"     -> Route!Fresh
      [] p = "station"  -> Station!Fresh    [] p = "compare"   -> Compare!Fresh
      [] p = "trends"   -> Trends!Fresh     [] p = "map"       -> Map!Fresh
      [] p = "highway"  -> HighwayAll!Fresh [] p = "activity"  -> Activity!Fresh
      [] p = "operators" -> Operators!Fresh

Elements(p) ==
    CASE p = "national" -> National!Elements   [] p = "route"    -> Route!Elements
      [] p = "station"  -> Station!Elements    [] p = "compare"  -> Compare!Elements
      [] p = "trends"   -> Trends!Elements     [] p = "map"      -> Map!Elements
      [] p = "highway"  -> HighwayAll!Elements [] p = "activity" -> Activity!Elements
      [] p = "operators" -> Operators!Elements

\* What a page waits for first: the manifest, or the engine from the CDN.
FirstCall(p) ==
    IF p = "trends" THEN Call("manifest", None, "fetchT", TRUE)
                    ELSE Call("engine", None, "cdn", TRUE)

\* A script that begins: by opening the page or by reloading it.
Init ==
    /\ page \in PageNames
    /\ url \in Bookmarks[page]
    /\ empty \in BOOLEAN
    /\ state = Fresh(page)
    /\ calls = <<FirstCall(page)>>
    /\ shown = [e \in Elements(page) |-> Blank]
    /\ status = "busy"
    /\ error = "none"
    /\ inputs = 0

\* The user reloads, or switches the theme, which reloads.
Reload ==
    /\ Input
    /\ state' = Fresh(page)
    /\ calls' = <<FirstCall(page)>>
    /\ shown' = [e \in Elements(page) |-> Blank]
    /\ status' = "busy"
    /\ error' = "none"
    /\ UNCHANGED <<page, url, empty>>

-----------------------------------------------------------------------------
\* The call i goes on.
Resume(i) ==
    \/ page = "national"  /\ National!Resume(i)
    \/ page = "route"     /\ Route!Resume(i)
    \/ page = "station"   /\ Station!Resume(i)
    \/ page = "compare"   /\ Compare!Resume(i)
    \/ page = "trends"    /\ Trends!Resume(i)
    \/ page = "map"       /\ Map!Resume(i)
    \/ page = "highway"   /\ HighwayAll!Resume(i)
    \/ page = "activity"  /\ Activity!Resume(i)
    \/ page = "operators" /\ Operators!Resume(i)

\* What the call i waits for fails.
Fail(i) ==
    /\ Faulty
    /\ IF page = "trends" THEN Trends!Failed(i) ELSE Reject(i)

UserEvent ==
    \/ page = "national" /\ National!UserEvent
    \/ page = "route"    /\ Route!UserEvent
    \/ page = "station"  /\ Station!UserEvent
    \/ page = "compare"  /\ Compare!UserEvent
    \/ page = "trends"   /\ Trends!UserEvent
    \/ page = "map"      /\ Map!UserEvent

Next ==
    \/ \E i \in DOMAIN calls : Resume(i) /\ UNCHANGED page
    \/ \E i \in DOMAIN calls : ResponseBegins(i) /\ UNCHANGED page
    \/ \E i \in DOMAIN calls : Fail(i) /\ UNCHANGED page
    \/ UserEvent /\ UNCHANGED page
    \/ Reload

\* fetchT gets a response or aborts, and a DuckDB worker answers; nothing else
\* has to, and no body has to end.
Progress == \E i \in DOMAIN calls :
    /\ calls[i].on \notin Untimed
    /\ Resume(i) \/ ResponseBegins(i) \/ Fail(i)
    /\ UNCHANGED page

Spec == Init /\ [][Next]_vars /\ WF_vars(Progress)

-----------------------------------------------------------------------------
(* Properties                                                                *)

\* The variables have their types; a job of the trends page is a record.
TypeOK ==
    /\ page \in PageNames
    /\ empty \in BOOLEAN
    /\ DOMAIN state = DOMAIN Fresh(page)
    /\ DOMAIN shown = Elements(page)
    /\ \A i \in DOMAIN calls : calls[i].on \in Awaited /\ calls[i].caught \in BOOLEAN
    /\ status \in {"hidden", "busy", "prompt"}
    /\ error \in {"none", "panel", "console"}
    /\ inputs \in 0..MaxInputs

\* The page shows what its query string names: every element the same
\* selection, whatever was asked for in between.
ShowsSelection ==
    CASE page = "national"  -> shown = National!Restored(url)
      [] page = "route"     -> shown = Route!Restored(url)
      [] page = "station"   -> shown = Station!Restored(url)
      [] page = "compare"   -> Len(state.selected) >= 2 => shown = Compare!Restored(url)
      [] page = "trends"    -> \A e \in Trends!Elements \ {"diff-cards"} :
                                  shown[e] = Trends!Restored(url)[e]
      [] page = "map"       -> shown = Map!Restored(shown["visible-count"])
      [] page = "highway"   -> shown = HighwayAll!Restored(url)
      [] page = "activity"  -> shown = Activity!Restored(url)
      [] page = "operators" -> shown = Operators!Restored(url)

\* Once nothing is under way and no exception was shown, all parts of a page
\* (cards, charts, chip, URL) belong to one selection, that of its URL, so a
\* reload shows the same: filters and loads that overlap leave no mixture.
OneSelectionShown == Quiet /\ error = "none" => ShowsSelection

\* A difference is only shown when the view it was computed in (v_all) covers
\* both its dates, though other differences add files and replace the view.
DiffCoversDates ==
    page = "trends" =>
        LET cards == shown["diff-cards"]
        IN  \A d \in Trends!DateSet, over \in SUBSET Trends!DateSet, e \in Trends!DateSet :
                cards = Trends!Diff(<<d, e>>, over) => {d, e} \subseteq over

\* The spinner stops, by the page, by a request or by the error panel: if it
\* turns for ever, then something that has no deadline is waited for for ever,
\* the engine from the CDN, a plain fetch, or the body of a response.
SpinnerStops ==
    <>[](status = "busy") => <>[](\E i \in DOMAIN calls : calls[i].on \in Untimed)

\* "Hardened loading: a timeout ... (prevents a spinner that turns for ever)"
\* (web/app.js:7, of fetchT): if it turns for ever, then for what does not use
\* fetchT, the engine from the CDN or a plain fetch.  False, as the timer stops
\* with the headers, and in no run.
FetchTStopsSpinner ==
    <>[](status = "busy") =>
        <>[](\E i \in DOMAIN calls : calls[i].on \in {"cdn", "fetch"})

\* "On a change of the highway all charts are drawn again", "on a change of
\* the order only the chart of the stations" (web/highway/route.js): once both
\* are done, each chart is there and of the highway in the title.
AllChartsRedrawn ==
    page = "route" /\ Quiet /\ ~Faulty /\ ~empty =>
        \A id \in Route!Canvases : shown[id] = shown["page-title"]
=============================================================================
