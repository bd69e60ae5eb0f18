--------------------------------- MODULE Lists ---------------------------------
(* Rows in an order, as ORDER BY, sort and sorted give them.                 *)
EXTENDS Integers, FiniteSets, Functions

\* The members of S as a list, those of a smaller key first.  Rows of equal
\* key are in some order: the callers sort what the store returned in any.
Sorted(S, Key(_)) ==
    CHOOSE s \in [1..Cardinality(S) -> S] :
        /\ IsInjective(s)
        /\ \A i, j \in DOMAIN s : i < j => Key(s[i]) <= Key(s[j])
=============================================================================
