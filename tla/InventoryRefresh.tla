------------------------- MODULE InventoryRefresh --------------------------
(***************************************************************************)
(* What the paginated sync promises of a refresh of the inventory, however *)
(* it is cut into pages and ticks: rows are collected a batch at a time,   *)
(* the resume point only moves over owed rows that have been collected,    *)
(* and a refresh is only called finished when every row owed when it began *)
(* has been.  A refresh may be given up at any time and a new one begun.   *)
(***************************************************************************)
EXTENDS Naturals

VARIABLES
    owed,                \* the refresh must collect rows 1..owed
    collected,           \* the rows it has collected
    resume,              \* rows 1..resume will not be asked for again
    synced               \* when a refresh was last called finished

refreshVars == <<owed, collected, resume, synced>>

InitRefresh ==
    /\ owed \in Nat
    /\ collected = {}
    /\ resume = 0
    /\ synced = 0

BeginRefresh ==
    /\ owed' \in Nat
    /\ collected' = {}
    /\ resume' = 0
    /\ UNCHANGED synced

Collect ==
    /\ collected \subseteq collected'
    /\ UNCHANGED <<owed, resume, synced>>

MoveResumePoint ==
    /\ resume' > resume
    /\ 1..resume' \cap 1..owed \subseteq collected
    /\ UNCHANGED <<owed, collected, synced>>

CallFinished ==
    /\ 1..owed \subseteq collected
    /\ synced' > synced
    /\ UNCHANGED <<owed, collected, resume>>

NextRefresh == BeginRefresh \/ Collect \/ MoveResumePoint \/ CallFinished

RefreshSpec == InitRefresh /\ [][NextRefresh]_refreshVars
============================================================================
