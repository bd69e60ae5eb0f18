----------------------------- MODULE NationalPage -----------------------------
(* web/app.js: the national dashboard and its filter by province (sido).     *)
EXTENDS Browser

CONSTANTS
    Sidos,  \* the provinces of the snapshot (rows of Q_SIDO_DC)
    Bars    \* those the bar chart shows (its first twelve)

Elements == {"region-filter", "kpi-grid", "chart-operators", "chart-density",
             "chart-dc-ratio", "chart-types", "chart-output", "chart-year",
             "chart-kind", "insights"}
Fresh == [sido |-> None]

\* The old chart of the canvas is destroyed first: drawing never throws.
mountChart(id) == Text(id)

renderKpi == Text("kpi-grid")
renderOperators == mountChart("chart-operators")
renderDensity == mountChart("chart-density")
renderDcRatio == mountChart("chart-dc-ratio")
renderChgerType == mountChart("chart-types")
renderOutput == mountChart("chart-output")
renderYear == mountChart("chart-year")
renderKind == mountChart("chart-kind")
renderInsights == TextOfRow("insights")
renderRegionChip(sido, sh) ==
    [sh EXCEPT !["region-filter"] = IF sido = None THEN Blank ELSE sido]

\* A province the snapshot does not have counts as none.
Filter(sido) == IF sido \in Sidos /\ ~empty THEN sido ELSE None

\* Up to its await: filter, URL and chip, and the seven queries of this filter.
applyFilter(sido, others, caught, sh) ==
    /\ state' = [state EXCEPT !.sido = Filter(sido)]
    /\ url' = Filter(sido)
    /\ calls' = Append(others, Call("filtered", Filter(sido), Worker, caught))
    /\ shown' = renderRegionChip(Filter(sido), sh)

initDuckDB(i) == OpenEngine(i)
loadCodes(i) == AskData(i, "fetchT")

\* main goes on to the selector, reveals the page and restores the filter.
Started(i) ==
    /\ Resumes(i, "data")
    /\ status' = "hidden"
    /\ applyFilter(url, Others(i), TRUE, Draw(<<renderDcRatio>>, shown, None))
    /\ UNCHANGED <<empty, error, inputs>>

\* applyFilter goes on: the results are those of its own filter, the insights
\* are shown or hidden by the filter of this moment.
Filtered(i) ==
    LET sel == calls[i].sel
        charts == <<renderKpi, renderOperators, renderDensity, renderChgerType,
                    renderOutput, renderYear, renderKind>>
        ws == IF state.sido = None THEN Append(charts, renderInsights) ELSE charts
        sh == IF state.sido = None THEN shown ELSE Clear({"insights"}, shown)
    IN  /\ Resumes(i, "filtered")
        /\ calls' = Others(i)
        /\ shown' = Draw(ws, sh, sel)
        /\ IF Throws(ws, sh) THEN Raise(i) ELSE UNCHANGED <<status, error>>
        /\ UNCHANGED <<url, empty, state, inputs>>

\* A click on a bar filters by its province, a second one removes the filter.
ClickBar(z) ==
    /\ Input
    /\ shown["chart-dc-ratio"] # Blank /\ ~empty
    /\ applyFilter(IF state.sido = z THEN None ELSE z, calls, FALSE, shown)
    /\ UNCHANGED <<empty, status, error>>

ClickChip ==
    /\ Input
    /\ shown["region-filter"] # Blank
    /\ applyFilter(None, calls, FALSE, shown)
    /\ UNCHANGED <<empty, status, error>>

main(i) == initDuckDB(i) \/ loadCodes(i) \/ Started(i)

Resume(i) == main(i) \/ Filtered(i)
UserEvent == ClickChip \/ \E z \in Bars : ClickBar(z)

\* What the page shows for a query string.
Restored(u) ==
    [e \in Elements |->
        CASE e = "region-filter"  -> IF Filter(u) = None THEN Blank ELSE Filter(u)
          [] e = "insights"       -> IF Filter(u) = None THEN None ELSE Blank
          [] e = "chart-dc-ratio" -> None
          [] OTHER                -> Filter(u)]
=============================================================================
