------------------------------- MODULE MapPage -------------------------------
(* web/highway/map.js: the rest areas on a map, filtered by highway.         *)
EXTENDS Browser

CONSTANT Highways  \* of the rest areas, UNKNOWN_HW for an address without one

Elements == {"map", "visible-count", "highway-select"}

\* layers: what each layer of markers on the map was plotted for.
Fresh == [layers |-> {}, listening |-> FALSE]

plotMarkers(hw, layers) == layers \cup {hw}
\* (Slip: the layer of the highway chosen before stays on the map.)
removeLayer_slipStays(hw, layers) == layers
removeLayer(hw, layers) == layers \ {hw}
updateStats == Text("visible-count")
populateHighwayFilter == Text("highway-select")

\* The layers and the figures of the stations of one highway, or of all.
Plot(hw, layers, ws) ==
    /\ state' = [layers |-> layers, listening |-> TRUE]
    /\ shown' = Draw(ws, [shown EXCEPT !["map"] = layers], hw)

initDuckDB(i) == OpenEngine(i)
loadCodes(i) == AskData(i, "fetch")

\* main goes on: revealed, plotted, and it listens.
Started(i) ==
    /\ Resumes(i, "data")
    /\ calls' = Others(i)
    /\ status' = "hidden"
    /\ Plot(None, plotMarkers(None, {}), <<updateStats, populateHighwayFilter>>)
    /\ UNCHANGED <<url, empty, error, inputs>>

\* Another highway is chosen, or all: no query, the rows are kept.
SelectHighway(hw) ==
    LET old == shown["visible-count"]
    IN  /\ Input
        /\ state.listening /\ ~empty /\ hw # old
        /\ Plot(hw, plotMarkers(hw, removeLayer(old, state.layers)), <<updateStats>>)
        /\ UNCHANGED <<url, empty, calls, status, error>>

main(i) == initDuckDB(i) \/ loadCodes(i) \/ Started(i)

Resume(i) == main(i)
UserEvent == \E hw \in Highways \cup {None} : SelectHighway(hw)

\* What the page shows when hw is chosen.
Restored(hw) ==
    [e \in Elements |-> CASE e = "map" -> {hw}
                          [] e = "visible-count" -> hw
                          [] OTHER -> None]
=============================================================================
