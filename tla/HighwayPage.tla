------------------------------- MODULE HighwayPage -------------------------------
(* web/highway/app.js: the dashboard of all highways; it takes no input.     *)
EXTENDS Browser

Elements == {"kpi-grid", "insight-grid", "chart-operators", "chart-sido",
             "chart-output", "chart-stations"}

\* No variable outlives main.
Fresh == [sel |-> None]

renderKpi == Text("kpi-grid")
renderInsights == TextOfRow("insight-grid")  \* of the largest operator
renderOperators == NewChart("chart-operators")
renderSido == NewChart("chart-sido")
renderOutput == NewChart("chart-output")
renderStations == NewChart("chart-stations")

initDuckDB(i) == OpenEngine(i)
loadCodes(i) == AskData(i, "fetchT")

main(i) ==
    \/ initDuckDB(i)
    \/ loadCodes(i)
    \/ DrawPage(i, <<renderKpi, renderInsights, renderOperators, renderSido,
                      renderOutput, renderStations>>)

Resume(i) == main(i)

\* What the page shows, whatever its query string.
Restored(u) == [e \in Elements |-> None]
=============================================================================
