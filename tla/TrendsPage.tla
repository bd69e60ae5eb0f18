------------------------------- MODULE TrendsPage -------------------------------
(* web/trends.js: trends over the dated snapshots and the difference of two, *)
(* for which a DuckDB worker is started and only those two files are loaded. *)
EXTENDS Browser, SequencesExt

CONSTANT Dates  \* the dates of the manifest, in order

DateSet == ToSet(Dates)
DateOne == Dates[1]
DateLast == Dates[Len(Dates)]

Elements == {"kpi-grid", "chart-trend", "chart-health", "diff-cards"}

\* from, to: the two lists; _db, _conn, _registered: as in the source.  Of the
\* workers: those started, their files, the files of their view v_all.
Fresh == [from |-> None, to |-> None, db |-> None, conn |-> None,
          registered |-> {}, started |-> {},
          files |-> [e \in Engines |-> {}], view |-> [e \in Engines |-> {}]]

renderKpi == Text("kpi-grid")
renderTrend == NewChart("chart-trend")
renderHealth == NewChart("chart-health")
Note(text) == [note |-> text]
Diff(pair, over) == [pair |-> pair, over |-> over]
Cards(v, sh) == [sh EXCEPT !["diff-cards"] = v]

\* What ensureDates and its caller still have to do: the caller, the dates,
\* the next one to look at, the connection, the files of the view asked for.
Job(fn, dates) == [fn |-> fn, dates |-> dates, next |-> 1, conn |-> None, over |-> {}]

\* The loop over the dates: the next one not registered is fetched, after the
\* last one the view is made over all that are registered.
Left(job, registered) == {k \in job.next..Len(job.dates) : job.dates[k] \notin registered}
AskView(others, job, over, caught) ==
    calls' = Append(others, Call("view", [job EXCEPT !.over = over], job.conn, caught))
AskSnapshot(others, job, registered, caught) ==
    \E k \in Left(job, registered) :
        /\ \A j \in Left(job, registered) : k <= j
        /\ calls' = Append(others, Call("snapshot", [job EXCEPT !.next = k], "fetchT", caught))

\* (Slip: the view is made over the dates of this job only.)
LoopOn_slipOwnDates(others, job, registered, caught) ==
    IF Left(job, registered) = {} THEN AskView(others, job, ToSet(job.dates), caught)
                                  ELSE AskSnapshot(others, job, registered, caught)
LoopOn(others, job, registered, caught) ==
    IF Left(job, registered) = {} THEN AskView(others, job, registered, caught)
                                  ELSE AskSnapshot(others, job, registered, caught)

\* ensureDates up to its first await: the connection, if there is none yet.
ensureDates(job, others) ==
    IF state.conn = None
    THEN calls' = Append(others, Call("engine", job, "cdn", TRUE))
    ELSE LoopOn(others, [job EXCEPT !.conn = state.conn], state.registered, TRUE)

\* lazyDiff up to its await.
lazyDiff(from, to, others, sh) ==
    IF from = to
    THEN shown' = Cards(Note("choose two dates"), sh) /\ calls' = others
    ELSE /\ shown' = Cards(Note("computing"), sh)
         /\ ensureDates(Job("lazyDiff", <<from, to>>), others)

\* An exception in lazyDiff shows in its cards, in main in the panel.
Fails(i) ==
    IF calls[i].sel # None /\ calls[i].sel.fn = "lazyDiff"
    THEN shown' = Cards(Note("failed"), shown) /\ UNCHANGED <<status, error>>
    ELSE showError /\ UNCHANGED shown

-----------------------------------------------------------------------------
(* main                                                                      *)

\* The manifest arrives; with less than two dates that is an error.
loadManifest(i) ==
    /\ Resumes(i, "manifest")
    /\ \/ empty /\ showError /\ calls' = Others(i)
       \/ ~empty /\ WaitsNext(i, "summary", None, "fetchT") /\ UNCHANGED <<status, error>>
    /\ UNCHANGED <<url, empty, state, shown, inputs>>

\* Everything but the difference is drawn, which then starts on its own.
RenderTrends(others) ==
    /\ state' = [state EXCEPT !.from = DateOne, !.to = DateLast]
    /\ status' = "hidden"
    /\ lazyDiff(DateOne, DateLast, others,
                Draw(<<renderKpi, renderTrend, renderHealth>>, shown, None))

\* The summary arrives, or does not, at the first or the last of its bytes:
\* then all snapshots are loaded.
loadSummary(i) ==
    /\ calls[i].at = "summary"
    /\ \/ Resumes(i, "summary") /\ RenderTrends(Others(i))
       \/ /\ ensureDates(Job("main", Dates), Others(i))
          /\ UNCHANGED <<state, shown, status>>
    /\ UNCHANGED <<url, empty, error, inputs>>

TrendsComputed(i) ==
    /\ Resumes(i, "trend")
    /\ RenderTrends(Others(i))
    /\ UNCHANGED <<url, empty, error, inputs>>

-----------------------------------------------------------------------------
(* ensureConn and ensureDates                                                *)

\* initDuckDB returns: its worker is _db from now on, and is connected to.
initDuckDB(i) ==
    LET unused == Engines \ state.started
        e == CHOOSE x \in unused : TRUE
    IN  /\ Resumes(i, "engine")
        /\ unused # {}
        /\ state' = [state EXCEPT !.started = @ \cup {e}, !.db = e]
        /\ WaitsNext(i, "connect", [calls[i].sel EXCEPT !.conn = e], e)
        /\ UNCHANGED <<url, empty, shown, status, error, inputs>>

\* The connection is _conn from now on, whoever else has set it before.
ensureConn(i) ==
    /\ Resumes(i, "connect")
    /\ state' = [state EXCEPT !.conn = calls[i].sel.conn]
    /\ LoopOn(Others(i), calls[i].sel, state.registered, TRUE)
    /\ UNCHANGED <<url, empty, shown, status, error, inputs>>

\* A snapshot has arrived: it is registered with what _db is now.
SnapshotFetched(i) ==
    /\ Resumes(i, "snapshot")
    /\ WaitsNext(i, "register", calls[i].sel, state.db)
    /\ UNCHANGED <<url, empty, state, shown, status, error, inputs>>

Registered(i) ==
    LET d == calls[i].sel.dates[calls[i].sel.next]
        r == state.registered \cup {d}
    IN  /\ Resumes(i, "register")
        /\ state' = [state EXCEPT !.registered = r, !.files[calls[i].on] = @ \cup {d}]
        /\ LoopOn(Others(i), calls[i].sel, r, TRUE)
        /\ UNCHANGED <<url, empty, shown, status, error, inputs>>

\* The view is made on the job's connection; it needs its files there.
ViewMade(i) ==
    LET job == calls[i].sel
    IN  /\ Resumes(i, "view")
        /\ IF job.over \subseteq state.files[job.conn]
           THEN /\ state' = [state EXCEPT !.view[job.conn] = job.over]
                /\ WaitsNext(i, IF job.fn = "main" THEN "trend" ELSE "diff", job, job.conn)
                /\ UNCHANGED <<shown, status, error>>
           ELSE Fails(i) /\ calls' = Others(i) /\ UNCHANGED state
        /\ UNCHANGED <<url, empty, inputs>>

\* The difference of the two dates in what the view covers now.
qDiff(i) ==
    LET job == calls[i].sel
    IN  /\ Resumes(i, "diff")
        /\ shown' = Cards(Diff(job.dates, state.view[job.conn]), shown)
        /\ calls' = Others(i)
        /\ UNCHANGED <<url, empty, state, status, error, inputs>>

\* A file, the engine or a query fails.  Without a summary main falls back.
Failed(i) ==
    /\ IsTurn(i)
    /\ calls[i].at # "summary"
    /\ Fails(i)
    /\ calls' = Others(i)
    /\ UNCHANGED <<url, empty, state, inputs>>

\* One of the two lists changes.
fillDateSelects(from, to) ==
    /\ Input
    /\ state.from # None
    /\ <<from, to>> # <<state.from, state.to>>
    /\ from = state.from \/ to = state.to
    /\ state' = [state EXCEPT !.from = from, !.to = to]
    /\ lazyDiff(from, to, calls, shown)
    /\ UNCHANGED <<url, empty, status, error>>

\* What the page shows but the difference, whatever its query string.
Restored(u) == [e \in Elements |-> None]

main(i) == loadManifest(i) \/ loadSummary(i) \/ TrendsComputed(i)

Resume(i) ==
    \/ main(i) \/ initDuckDB(i) \/ ensureConn(i) \/ SnapshotFetched(i)
    \/ Registered(i) \/ ViewMade(i) \/ qDiff(i)
UserEvent == \E from, to \in DateSet : fillDateSelects(from, to)
=============================================================================
