------------------------------- MODULE RoutePage -------------------------------
(* web/highway/route.js: one highway, chosen in a list, and the order of its *)
(* stations in the first chart.                                              *)
EXTENDS Browser

CONSTANTS
    Routes,    \* the highways of the list (Q_HW_LIST), the largest first
    Unplaced   \* those of which no station has usable coordinates

SortKeys == {"corridor", "chargers-desc"}  \* two of the orders of #station-sort

IsRoute(hw) == \E k \in DOMAIN Routes : Routes[k] = hw

Canvases == {"chart-stations", "chart-output", "chart-ops", "chart-spacing"}
Elements == Canvases \cup {"page-title", "kpi-grid", "insight-grid", "header-snapshot"}
Fresh == [stations |-> Blank, sortKey |-> "corridor", listening |-> FALSE]

renderKpi == Text("kpi-grid")
renderInsights == Text("insight-grid")
renderStations == NewChart("chart-stations")
renderOutputCompare == NewChart("chart-output")
renderOps == NewChart("chart-ops")
renderSpacing == NewChart("chart-spacing")

\* (Slip: all else on the page goes with the charts.)
destroyCharts_slipRest(sh) == [e \in Canvases |-> Blank]
destroyCharts(sh) == Clear(Canvases, sh)

\* Up to its await: the charts are gone, the title is the new one.
loadRoute(hw, others, caught) ==
    /\ shown' = Draw(<<Text("page-title")>>, destroyCharts(shown), hw)
    /\ calls' = Append(others, Call("route", hw, Worker, caught))

initDuckDB(i) == OpenEngine(i)
loadCodes(i) == AskData(i, "fetch")

\* main goes on: the list, the highway of the URL or the first, its load.
\* Without any highway there is no first one, and none that the URL can name.
Started(i) ==
    /\ Resumes(i, "data")
    /\ IF empty /\ url = None
       THEN showError /\ calls' = Others(i) /\ UNCHANGED shown
       ELSE /\ loadRoute(CASE empty -> None [] IsRoute(url) -> url [] OTHER -> Routes[1],
                         Others(i), TRUE)
            /\ UNCHANGED <<status, error>>
    /\ UNCHANGED <<url, empty, state, inputs>>

\* loadRoute goes on: the stations are kept for the sort, everything is drawn,
\* the URL names the highway.  The first load also starts to listen.
RouteLoaded(i) ==
    LET hw == calls[i].sel
        ws == <<renderKpi, renderInsights, renderStations, renderOutputCompare,
                renderOps, renderSpacing>>
        done == <<Text("header-snapshot")>>
    IN  /\ Resumes(i, "route")
        /\ calls' = Others(i)
        /\ IF hw \in Unplaced \cup {None}
           THEN showError /\ UNCHANGED <<url, state, shown>>
           ELSE IF Throws(ws, shown)
           THEN /\ showError
                /\ state' = [state EXCEPT !.stations = hw]
                /\ shown' = Draw(ws, shown, hw)
                /\ UNCHANGED url
           ELSE /\ state' = [state EXCEPT !.stations = hw, !.listening = TRUE]
                /\ shown' = Draw(ws \o done, shown, hw)
                /\ url' = hw
                /\ status' = "hidden" /\ UNCHANGED error
        /\ UNCHANGED <<empty, inputs>>

\* Another one is chosen in the list: the spinner shows while it loads.
SelectRoute(hw) ==
    /\ Input
    /\ state.listening /\ hw # shown["page-title"]
    /\ status' = "busy"
    /\ loadRoute(hw, calls, TRUE)
    /\ UNCHANGED <<url, empty, state, error>>

\* The order changes: the stations kept are drawn again.
rerenderStations(key) ==
    /\ Input
    /\ state.listening /\ key # state.sortKey
    /\ state' = [state EXCEPT !.sortKey = key]
    /\ shown' = Draw(<<renderStations>>, Clear({"chart-stations"}, shown), state.stations)
    /\ UNCHANGED <<url, empty, calls, status, error>>

main(i) == initDuckDB(i) \/ loadCodes(i) \/ Started(i)

Resume(i) == main(i) \/ RouteLoaded(i)
UserEvent ==
    \/ \E k \in DOMAIN Routes : SelectRoute(Routes[k])
    \/ \E key \in SortKeys : rerenderStations(key)

\* What the page shows for a query string.
Restored(u) == [e \in Elements |-> IF IsRoute(u) THEN u ELSE Routes[1]]
=============================================================================
