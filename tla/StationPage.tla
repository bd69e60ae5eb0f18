------------------------------ MODULE StationPage ------------------------------
(* web/highway/station.js: one rest area, its neighbours and its chargers.   *)
EXTENDS Browser

CONSTANTS
    Stations,  \* the rest areas of the list, the one with most chargers first
    OnHighway  \* those whose address names a highway: neighbours are asked for

SortKeys == {"id", "kw-desc"}  \* two of the orders of #charger-sort

IsStation(id) == \E k \in DOMAIN Stations : Stations[k] = id

Canvases == {"chart-status", "chart-output"}
Elements == Canvases \cup {"page-title", "kpi-grid", "map-mini", "chargers-tbody",
                           "station-input"}
Fresh == [currentStatId |-> None, chargers |-> Blank, sortKey |-> "id",
          listening |-> FALSE]

renderInfo == Text("page-title")
renderKpi == Text("kpi-grid")
renderStatusChart == NewChart("chart-status")
renderOutputChart == NewChart("chart-output")
renderMap == Text("map-mini")   \* the old map is removed first
renderChargersTable == Text("chargers-tbody")

destroyCharts(sh) == Clear(Canvases, sh)

\* Up to its first await.
loadStation(id, others, caught) ==
    /\ calls' = Append(others, Call("station", id, Worker, caught))
    /\ status' = "busy"

initDuckDB(i) == OpenEngine(i)
loadCodes(i) == AskData(i, "fetch")

\* main goes on: the rest area of the URL, or the largest one if there is any.
Started(i) ==
    /\ Resumes(i, "data")
    /\ IF url = None /\ empty
       THEN showError /\ calls' = Others(i)
       ELSE loadStation(IF url = None THEN Stations[1] ELSE url, Others(i), TRUE)
            /\ UNCHANGED error
    /\ UNCHANGED <<url, empty, state, shown, inputs>>

\* Everything is drawn; the input and the URL name the rest area.
Render(i) ==
    LET id == calls[i].sel
        ws == <<renderInfo, renderKpi, renderStatusChart, renderOutputChart,
                renderMap, renderChargersTable>>
        loaded == [state EXCEPT !.currentStatId = id, !.chargers = id]
    IN  /\ calls' = Others(i)
        /\ IF Throws(ws, shown)
           THEN /\ showError
                /\ state' = loaded
                /\ shown' = Draw(ws, shown, id)
                /\ UNCHANGED url
           ELSE /\ state' = [loaded EXCEPT !.listening = TRUE]
                /\ shown' = Draw(Append(ws, Text("station-input")), shown, id)
                /\ url' = id
                /\ status' = "hidden" /\ UNCHANGED error

\* loadStation goes on: an unknown rest area, one on a highway, one that is not.
DetailLoaded(i) ==
    LET id == calls[i].sel
    IN  /\ Resumes(i, "station")
        /\ \/ /\ ~IsStation(id) \/ empty
              /\ showError /\ calls' = Others(i)
              /\ UNCHANGED <<url, state, shown>>
           \/ /\ IsStation(id) /\ ~empty /\ id \in OnHighway
              /\ WaitsNext(i, "neighbors", id, Worker)
              /\ UNCHANGED <<url, state, shown, status, error>>
           \/ /\ IsStation(id) /\ ~empty /\ id \notin OnHighway
              /\ Render(i)
        /\ UNCHANGED <<empty, inputs>>

NeighborsLoaded(i) ==
    /\ Resumes(i, "neighbors")
    /\ Render(i)
    /\ UNCHANGED <<empty, inputs>>

\* The input changes to the name of a rest area that is not the current one.
SelectStation(id) ==
    /\ Input
    /\ state.listening /\ id # state.currentStatId
    /\ shown' = destroyCharts(shown)
    /\ loadStation(id, calls, TRUE)
    /\ UNCHANGED <<url, empty, state, error>>

\* The order changes: the chargers kept are listed again.
SortChargers(key) ==
    /\ Input
    /\ state.listening /\ key # state.sortKey
    /\ state' = [state EXCEPT !.sortKey = key]
    /\ shown' = Draw(<<renderChargersTable>>, shown, state.chargers)
    /\ UNCHANGED <<url, empty, calls, status, error>>

main(i) == initDuckDB(i) \/ loadCodes(i) \/ Started(i)

Resume(i) == main(i) \/ DetailLoaded(i) \/ NeighborsLoaded(i)
UserEvent ==
    \/ \E k \in DOMAIN Stations : SelectStation(Stations[k])
    \/ \E key \in SortKeys : SortChargers(key)

\* What the page shows for a query string it can restore.
Restored(u) == [e \in Elements |-> IF u = None THEN Stations[1] ELSE u]
=============================================================================
