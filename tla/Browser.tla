------------------------------- MODULE Browser -------------------------------
(* What the pages under web/ have in common.  A page is one script in one    *)
(* tab: its handlers and the stretches of its async functions between two    *)
(* awaits run alone, so each is one action, and the calls that wait are the  *)
(* interleaving.  A result is abstracted to the selection it was asked for,  *)
(* a chart or a text to the selection it was drawn from.                     *)
EXTENDS Naturals, Sequences

CONSTANTS
    None,      \* null: no filter, no parameter in the URL
    Blank,     \* an element that shows nothing, a canvas without a chart
    Engines,   \* DuckDB workers (bound: as many as a page may start)
    MaxInputs  \* bound: events of the user in one behaviour

VARIABLES
    url,     \* the selection in the query string of the page
    empty,   \* whether the snapshot on the server has no row
    state,   \* the module-level variables of the page's script
    calls,   \* the async functions that wait, in the order they began to
    shown,   \* what each element of the page was drawn from
    status,  \* #status: "hidden", "busy" (the spinner), "prompt" (a request)
    error,   \* what became of an exception: "none", "panel", "console"
    inputs   \* events of the user so far

browser == <<url, empty, state, calls, shown, status, error, inputs>>

-----------------------------------------------------------------------------
(* Calls that wait.  on: what the call waits for.  fetchT aborts after 45 s, *)
(* but only until the headers of the response are there: its finally clears  *)
(* the timer, and the body is read without a deadline.  The body, a plain    *)
(* fetch and the download of the engine may wait for ever.  A query waits    *)
(* for a DuckDB worker, which answers in the order it was asked; all queries *)
(* of one Promise.all are asked at once and count as one.                    *)
(* caught: an exception after the wait reaches showError.                    *)
Worker == CHOOSE e \in Engines : TRUE
Untimed == {"cdn", "fetch", "body"}
Awaited == Engines \cup Untimed \cup {"fetchT"}

Call(at, sel, on, caught) == [at |-> at, sel |-> sel, on |-> on, caught |-> caught]

Others(i) == SubSeq(calls, 1, i - 1) \o SubSeq(calls, i + 1, Len(calls))

\* It is the turn of the call i: no other waits before it for its worker.
IsTurn(i) ==
    \A j \in 1..(i - 1) : calls[i].on \in Engines => calls[j].on # calls[i].on

\* The call i waits at the named await, and all it waits for is there.
Resumes(i, at) == calls[i].at = at /\ calls[i].on # "fetchT" /\ IsTurn(i)

\* fetchT returns a response to the call i, which goes on to read its body.
ResponseBegins(i) ==
    /\ calls[i].on = "fetchT"
    /\ calls' = [calls EXCEPT ![i].on = "body"]
    /\ UNCHANGED <<url, empty, state, shown, status, error, inputs>>

\* The call i goes on to its next await.
WaitsNext(i, at, sel, on) ==
    calls' = Append(Others(i), Call(at, sel, on, calls[i].caught))

Quiet == calls = <<>>

-----------------------------------------------------------------------------
(* Elements.  new Chart throws on a canvas that has a chart ("Canvas is      *)
(* already in use"); some texts are composed from the first row of a result  *)
(* and throw when there is none.                                             *)
Text(el) == [el |-> el, chart |-> FALSE, needsRow |-> FALSE]
TextOfRow(el) == [el |-> el, chart |-> FALSE, needsRow |-> TRUE]
NewChart(el) == [el |-> el, chart |-> TRUE, needsRow |-> FALSE]

\* The steps of the rendering ws that throw.
Throwing(ws, sh) ==
    {k \in DOMAIN ws : \/ ws[k].chart /\ sh[ws[k].el] # Blank
                       \/ ws[k].needsRow /\ empty}

Throws(ws, sh) == Throwing(ws, sh) # {}

\* What is shown after ws drew v, up to the first step that throws.
Draw(ws, sh, v) ==
    [e \in DOMAIN sh |->
        IF \E k \in DOMAIN ws : ws[k].el = e /\ \A t \in Throwing(ws, sh) : k < t
        THEN v ELSE sh[e]]

Clear(els, sh) == [e \in DOMAIN sh |-> IF e \in els THEN Blank ELSE sh[e]]

-----------------------------------------------------------------------------
\* (Slip: the panel appears, the spinner stays.)
showError_slipSpinner == UNCHANGED status /\ error' = "panel"
showError == status' = "hidden" /\ error' = "panel"

\* An exception of the call i: its catch block, or the console.
Raise(i) ==
    IF calls[i].caught THEN showError
                       ELSE error' = "console" /\ UNCHANGED status

\* What the call i waits for fails: no answer, an HTTP error, a body that
\* breaks off, a failed query.
Reject(i) ==
    /\ IsTurn(i)
    /\ calls' = Others(i)
    /\ Raise(i)
    /\ UNCHANGED <<url, empty, state, shown, inputs>>

\* An event of the user.
Input == inputs < MaxInputs /\ inputs' = inputs + 1

\* The engine is loaded: the page asks for the snapshot.
OpenEngine(i) ==
    /\ Resumes(i, "engine")
    /\ WaitsNext(i, "parquet", None, "fetchT")
    /\ UNCHANGED <<url, empty, state, shown, status, error, inputs>>

\* The snapshot has arrived: the page asks for its code tables, with fetchT
\* or with a plain fetch, and for its first queries.
AskData(i, on) ==
    /\ Resumes(i, "parquet")
    /\ WaitsNext(i, "data", None, on)
    /\ UNCHANGED <<url, empty, state, shown, status, error, inputs>>

\* All of a page without a selection is drawn, then it is revealed.
DrawPage(i, ws) ==
    /\ Resumes(i, "data")
    /\ calls' = Others(i)
    /\ shown' = Draw(ws, shown, None)
    /\ IF Throws(ws, shown) THEN Raise(i)
                             ELSE status' = "hidden" /\ UNCHANGED error
    /\ UNCHANGED <<url, empty, state, inputs>>
=============================================================================
