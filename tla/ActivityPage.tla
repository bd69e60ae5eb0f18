------------------------------- MODULE ActivityPage -------------------------------
(* web/highway/activity.js: when the chargers on highways were last used.   *)
EXTENDS Browser

Elements == {"kpi-grid", "insight-grid", "chart-hour", "chart-turnover",
             "chart-highway", "chart-dormant-buckets", "chart-dormant-highway"}

\* No variable outlives main.
Fresh == [sel |-> None]

renderKpi == Text("kpi-grid")
renderInsights == TextOfRow("insight-grid")  \* of the busiest hour
renderHour == NewChart("chart-hour")
renderTurnover == NewChart("chart-turnover")
renderHighwayActivity == NewChart("chart-highway")
renderDormantBuckets == NewChart("chart-dormant-buckets")
renderDormantByHighway == NewChart("chart-dormant-highway")

initDuckDB(i) == OpenEngine(i)
loadCodes(i) == AskData(i, "fetchT")

main(i) ==
    \/ initDuckDB(i)
    \/ loadCodes(i)
    \/ DrawPage(i, <<renderKpi, renderInsights, renderHour, renderTurnover,
                      renderHighwayActivity, renderDormantBuckets,
                      renderDormantByHighway>>)

Resume(i) == main(i)

\* What the page shows, whatever its query string.
Restored(u) == [e \in Elements |-> None]
=============================================================================
