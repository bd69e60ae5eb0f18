------------------------------ MODULE ComparePage ------------------------------
(* web/highway/compare.js: two to four operators or highways side by side.   *)
EXTENDS Browser, SequencesExt

CONSTANTS
    EntityList,  \* per type the entities of its list, the largest first
    Newcomers,   \* per type the entities the preset "newcomers" picks from
    Incumbents,  \* per type those of "incumbents"
    MaxSelected  \* how many may be compared (four in the code)

Types == {"operator", "highway"}
IsEntity(type, id) == id \in ToSet(EntityList[type])

Canvases == {"chart-radar", "chart-dist-1", "chart-dist-2", "chart-dist-3"}
Elements == Canvases \cup {"insight-grid", "compare-table", "header-snapshot"}
Fresh == [type |-> "operator", selected |-> <<>>, listening |-> FALSE]

renderInsights == Text("insight-grid")
renderRadar == NewChart("chart-radar")
renderKpiTable == Text("compare-table")
renderDistOutput == NewChart("chart-dist-1")
renderDistRoutes == NewChart("chart-dist-2")
renderDistOps == NewChart("chart-dist-2")
renderDistKpiBar == NewChart("chart-dist-3")

destroyAll(sh) == Clear(Canvases, sh)

Comparison(type, ids) == [type |-> type, ids |-> ids]

\* Chips and the list follow the selection; so does the URL.
updateUrl(type, ids) == url' = Comparison(type, ids)

\* Up to its await: with less than two a request, else the old charts go.
rerender(type, ids, others) ==
    IF Len(ids) < 2
    THEN /\ status' = "prompt"
         /\ calls' = others /\ UNCHANGED shown
    ELSE /\ status' = "busy"
         /\ shown' = destroyAll(shown)
         /\ calls' = Append(others, Call("compared", Comparison(type, ids), Worker, TRUE))

\* rerender goes on: what was asked for is drawn the way the type of this
\* moment is drawn.  An address that names two highways counts for the first,
\* so some may have no row left; less than two is an exception.  So is a row
\* of a highway in renderDistRoutes: it has no name of a route.
Compared(i) ==
    LET sel == calls[i].sel
        drill == IF state.type = "operator" THEN renderDistRoutes ELSE renderDistOps
        ws == <<renderInsights, renderRadar, renderKpiTable, renderDistOutput,
                drill, renderDistKpiBar, Text("header-snapshot")>>
        nameless == sel.type = "highway" /\ state.type = "operator"
        v == [sel EXCEPT !.type = IF @ = state.type THEN @ ELSE "mixed"]
    IN  /\ Resumes(i, "compared")
        /\ calls' = Others(i)
        /\ \/ /\ sel.type = "highway"
              /\ showError /\ UNCHANGED shown
           \/ /\ shown' = Draw(IF nameless THEN SubSeq(ws, 1, 4) ELSE ws, shown, v)
              /\ IF nameless \/ Throws(ws, shown)
                 THEN showError
                 ELSE status' = "hidden" /\ UNCHANGED error
        /\ UNCHANGED <<url, empty, state, inputs>>

initDuckDB(i) == OpenEngine(i)
AskLists(i) == AskData(i, "fetch")

First(ids) == SubSeq(ids, 1, IF Len(ids) < MaxSelected THEN Len(ids) ELSE MaxSelected)

\* Array.filter: those of the ids that are in S, in their order.
Keeping(ids, S) ==
    LET kept[n \in 0..Len(ids)] ==
            IF n = 0 THEN <<>>
            ELSE IF ids[n] \in S THEN Append(kept[n - 1], ids[n]) ELSE kept[n - 1]
    IN  kept[Len(ids)]

Known(type, ids) == Keeping(ids, ToSet(EntityList[type]))

\* What main selects for a query string: its type ("operator" unless it says
\* "highway") and its ids.  Without any, be the parameter absent or empty, as
\* updateUrl leaves it after the last chip, the largest of the type.
Selection(u) ==
    Comparison(u.type, IF u.ids = <<>> THEN First(EntityList[u.type])
                                       ELSE Known(u.type, u.ids))

\* main goes on: the header's totals are one more query, and it listens.
ListsLoaded(i) ==
    /\ Resumes(i, "data")
    /\ WaitsNext(i, "totals", None, Worker)
    /\ UNCHANGED <<url, empty, state, shown, status, error, inputs>>

TotalsLoaded(i) ==
    LET s == IF empty THEN Comparison(Selection(url).type, <<>>) ELSE Selection(url)
    IN  /\ Resumes(i, "totals")
        /\ state' = [type |-> s.type, selected |-> s.ids, listening |-> TRUE]
        /\ rerender(s.type, s.ids, Others(i))
        /\ UNCHANGED <<url, empty, error, inputs>>

\* The selection is ids from now on.
Select(type, ids) ==
    /\ state' = [state EXCEPT !.type = type, !.selected = ids]
    /\ updateUrl(type, ids)
    /\ UNCHANGED <<empty, error>>

\* The chip of id is closed.  With one left, what is shown stays.
RemoveChip(id) ==
    LET ids == Keeping(state.selected, ToSet(state.selected) \ {id})
    IN  /\ Input
        /\ id \in ToSet(state.selected)
        /\ Select(state.type, ids)
        /\ IF Len(ids) >= 2 THEN rerender(state.type, ids, calls)
                            ELSE UNCHANGED <<calls, shown, status>>

addEntity(id) ==
    LET ids == Append(state.selected, id)
    IN  /\ Input
        /\ state.listening /\ ~empty
        /\ Len(state.selected) < MaxSelected
        /\ IsEntity(state.type, id) /\ id \notin ToSet(state.selected)
        /\ Select(state.type, ids)
        /\ IF Len(ids) >= 2 THEN rerender(state.type, ids, calls)
                            ELSE UNCHANGED <<calls, shown, status>>

Preset(type, name) ==
    IF empty THEN <<>>
    ELSE CASE name = "top4"       -> First(EntityList[type])
           [] name = "newcomers"  -> First(Newcomers[type])
           [] name = "incumbents" -> First(Incumbents[type])

ApplyPreset(type, name) ==
    /\ Select(type, Preset(type, name))
    /\ rerender(type, Preset(type, name), calls)

applyPreset(name) == Input /\ state.listening /\ ApplyPreset(state.type, name)

switchType(type) ==
    Input /\ state.listening /\ type # state.type /\ ApplyPreset(type, "top4")

main(i) == initDuckDB(i) \/ AskLists(i) \/ ListsLoaded(i) \/ TotalsLoaded(i)

Resume(i) == main(i) \/ Compared(i)
UserEvent ==
    \/ \E t \in Types : switchType(t) \/ (\E k \in DOMAIN EntityList[t] :
           addEntity(EntityList[t][k]) \/ RemoveChip(EntityList[t][k]))
    \/ \E name \in {"top4", "newcomers", "incumbents"} : applyPreset(name)

\* What the page shows for a query string of two or more entities.
Restored(u) == [e \in Elements |-> Selection(u)]
=============================================================================
