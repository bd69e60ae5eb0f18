------------------------------- MODULE OperatorsPage -------------------------------
(* web/highway/operators.js: the operators on highways side by side.        *)
EXTENDS Browser

Elements == {"header-snapshot", "insight-grid", "ranking-body", "heatmap-wrap",
             "chart-year", "chart-scatter"}

\* No variable outlives main.
Fresh == [sel |-> None]

renderInsights == TextOfRow("insight-grid")  \* of the largest operator
renderRanking == Text("ranking-body")
renderHeatmap == Text("heatmap-wrap")
renderYear == NewChart("chart-year")
renderScatter == NewChart("chart-scatter")

initDuckDB(i) == OpenEngine(i)
loadCodes(i) == AskData(i, "fetchT")

main(i) ==
    \/ initDuckDB(i)
    \/ loadCodes(i)
    \/ DrawPage(i, <<Text("header-snapshot"), renderInsights, renderRanking,
                      renderHeatmap, renderYear, renderScatter>>)

Resume(i) == main(i)

\* What the page shows, whatever its query string.
Restored(u) == [e \in Elements |-> None]
=============================================================================
