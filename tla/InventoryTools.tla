----------------------------- MODULE InventoryTools -----------------------------
(* workers/src/tools/inventory.ts over the read methods of InventoryStore,   *)
(* as operators on the rows of the store (deleted ones included).            *)
EXTENDS Lists, Integers, FiniteSetsExt, SequencesExt

CONSTANTS
    None,       \* null: a code that is not resolved, a filter not given
    Overfetch,  \* candidates asked for per result wanted (8)
    Sido,       \* code tables: per entry its code, its name, and what else a
    Sigungu,    \* query may say that is part of the name
    BusiId

-----------------------------------------------------------------------------
(* codes/index.ts: a code stands for itself.  A province or an operator is   *)
(* the first entry the query is part of, a district the only one so named.   *)
IsCode(q, table) == \E k \in DOMAIN table : table[k].code = q
FirstMatch(q, table) ==
    LET hits == {k \in DOMAIN table : q = table[k].name \/ q \in table[k].parts}
    IN  CASE IsCode(q, table) -> q
          [] ~IsCode(q, table) /\ hits # {} -> table[Min(hits)].code
          [] OTHER -> None

resolveSido(q) == FirstMatch(q, Sido)
resolveBusiId(q) == FirstMatch(q, BusiId)
resolveSigungu(q) ==
    LET hits == {k \in DOMAIN Sigungu : Sigungu[k].name = q}
    IN  CASE IsCode(q, Sigungu) -> q
          [] ~IsCode(q, Sigungu) /\ Cardinality(hits) = 1 -> Sigungu[Min(hits)].code
          [] OTHER -> None

-----------------------------------------------------------------------------
(* The read methods of inventory_store.ts.                                   *)
FirstOf(s, limit) == SubSeq(s, 1, IF Len(s) < limit THEN Len(s) ELSE limit)
InOrder(rows) == Sorted(rows, LAMBDA r : r.id)

byStatId(rows, stat) == InOrder({r \in rows : r.stat_id = stat})
byZcode(rows, z, limit) == FirstOf(InOrder({r \in rows : r.zcode = z}), limit)
byZscode(rows, zs, limit) == FirstOf(InOrder({r \in rows : r.zscode = zs}), limit)
byBusiId(rows, b, limit) == FirstOf(InOrder({r \in rows : r.busi_id = b}), limit)
byBusiIdAndZcode(rows, b, z, limit) ==
    FirstOf(InOrder({r \in rows : r.busi_id = b /\ r.zcode = z}), limit)

\* The box around a place, and what a SELECT ... LIMIT without an order may
\* return of it: any rows.
Dist(n, m) == IF n < m THEN m - n ELSE n - m
Box(rows, at, radius) ==
    {r \in rows : /\ r.pos # None
                  /\ Dist(r.pos[1], at[1]) <= radius /\ Dist(r.pos[2], at[2]) <= radius}
nearLatLng(rows, at, radius, limit) ==
    LET box == Box(rows, at, radius)
    IN  kSubset(IF Cardinality(box) < limit THEN Cardinality(box) ELSE limit, box)

-----------------------------------------------------------------------------
(* The tools.  None: an error to the client, nothing was resolved.           *)
listChargersByOperator(rows, operator, region, limit) ==
    LET b == resolveBusiId(operator)
        z == IF region = None THEN None ELSE resolveSido(region)
    IN  CASE b = None \/ (region # None /\ z = None) -> None
          [] b # None /\ region = None -> byBusiId(rows, b, limit)
          [] b # None /\ z # None -> byBusiIdAndZcode(rows, b, z, limit)

searchChargersByRegion(rows, region, district, limit) ==
    LET z == resolveSido(region)
        zs == IF district = None THEN None ELSE resolveSigungu(district)
    IN  CASE z = None \/ (district # None /\ zs = None) -> None
          [] z # None /\ district = None -> byZcode(rows, z, limit)
          [] z # None /\ zs # None -> byZscode(rows, zs, limit)

getStationDetails(rows, stat) == byStatId(rows, stat)

haversineKm(at, r) ==   \* squared, on the grid of the model
    Dist(at[1], r.pos[1]) * Dist(at[1], r.pos[1]) + Dist(at[2], r.pos[2]) * Dist(at[2], r.pos[2])

Wanted(rows, at, radius, availableOnly) ==
    {r \in rows : (availableOnly => r.stat = "2") /\ haversineKm(at, r) <= radius * radius}

\* (Slip: the candidates are cut before they are filtered.)
findChargersNearby_slipCutFirst(candidates, at, radius, availableOnly, limit) ==
    LET cut == ToSet(FirstOf(Sorted(candidates, LAMBDA r : haversineKm(at, r)), limit))
    IN  Sorted(Wanted(cut, at, radius, availableOnly), LAMBDA r : haversineKm(at, r))
\* Of the candidates the store returned: those wanted, the nearest first.
findChargersNearby(candidates, at, radius, availableOnly, limit) ==
    FirstOf(Sorted(Wanted(candidates, at, radius, availableOnly),
                   LAMBDA r : haversineKm(at, r)), limit)
=============================================================================
