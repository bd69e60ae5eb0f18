-------------------------------- MODULE PyTools --------------------------------
(* Tools of the Python server (src/ev_mcp/tools), as operators on rows.  The *)
(* read methods of its store and the look-up of codes are the Worker's: the  *)
(* same SELECTs, the same rules.  v_all is the rows of every dated snapshot, *)
(* the n-th of the sequence that of the n-th date; a date without a row is   *)
(* not there.                                                                *)
EXTENDS InventoryTools

CONSTANT RegionFetch  \* rows read by a region: times the limit, at least, at most

\* The two filters that follow a query; types is None or a set of them.
Passes(r, types, available_only) ==
    /\ types = None \/ r.dc \in types
    /\ available_only => r.stat = "2"

fetch_limit(limit) ==
    Min({Max({limit * RegionFetch.times, RegionFetch.least}), RegionFetch.most})

\* (Slip: as many rows are read as are wanted, then filtered.)
search_chargers_by_region_slipNoOverfetch(rows, sido, sigungu, types, available_only, limit) ==
    LET z == resolveSido(sido)
        zs == IF sigungu = None THEN None ELSE resolveSigungu(sigungu)
        Kept(read) == InOrder({r \in ToSet(read) : Passes(r, types, available_only)})
    IN  CASE z = None \/ (sigungu # None /\ zs = None) -> None
          [] z # None /\ sigungu = None -> Kept(byZcode(rows, z, limit))
          [] z # None /\ zs # None -> Kept(byZscode(rows, zs, limit))
search_chargers_by_region(rows, sido, sigungu, types, available_only, limit) ==
    LET z == resolveSido(sido)
        zs == IF sigungu = None THEN None ELSE resolveSigungu(sigungu)
        Kept(read) ==
            FirstOf(InOrder({r \in ToSet(read) : Passes(r, types, available_only)}), limit)
    IN  CASE z = None \/ (sigungu # None /\ zs = None) -> None
          [] z # None /\ sigungu = None -> Kept(byZcode(rows, z, fetch_limit(limit)))
          [] z # None /\ zs # None -> Kept(byZscode(rows, zs, fetch_limit(limit)))

\* Of the candidates in the box, at most NEARBY_FETCH_FACTOR per one wanted.
find_chargers_nearby(candidates, at, radius_km, types, available_only, limit) ==
    FirstOf(Sorted({r \in candidates : /\ Passes(r, types, available_only)
                                       /\ haversineKm(at, r) <= radius_km * radius_km},
                   LAMBDA r : haversineKm(at, r)), limit)

-----------------------------------------------------------------------------
(* Analytics over the snapshots.                                             *)
Undeleted(rows) == {r \in rows : ~r.deleted}
Dated(v_all, Has(_)) == Sorted({d \in DOMAIN v_all : Has(v_all[d])}, LAMBDA d : d)

\* The last two dates when none are named.  None: less than two, or no such date.
snapshot_diff(v_all, from_date, to_date) ==
    LET dates == Dated(v_all, LAMBDA rows : rows # {})
        n == Len(dates)
        resolved_from == IF from_date = None THEN dates[n - 1] ELSE from_date
        resolved_to == IF to_date = None THEN dates[n] ELSE to_date
        f == Undeleted(v_all[resolved_from])
        t == Undeleted(v_all[resolved_to])
        ids(rows) == {r.id : r \in rows}
    IN  IF n < 2 \/ ~({resolved_from, resolved_to} \subseteq ToSet(dates)) THEN None
        ELSE [appeared     |-> Cardinality(ids(t) \ ids(f)),
              disappeared  |-> Cardinality(ids(f) \ ids(t)),
              stat_changed |-> Cardinality({r \in t :
                                   \E x \in f : x.id = r.id /\ x.stat # r.stat}),
              net_change   |-> Cardinality(ids(t) \ ids(f)) - Cardinality(ids(f) \ ids(t))]

\* The latest dates with a charger, each with what it has more than the one before.
inventory_trend(v_all, limit) ==
    LET dates == Dated(v_all, LAMBDA rows : Undeleted(rows) # {})
        latest == SubSeq(dates, Max({1, Len(dates) - limit + 1}), Len(dates))
        total(k) == Cardinality(Undeleted(v_all[latest[k]]))
    IN  [k \in DOMAIN latest |->
            [snapshot_date  |-> latest[k],
             total_chargers |-> total(k),
             dc_count       |-> Cardinality({r \in Undeleted(v_all[latest[k]]) : r.dc}),
             delta_total    |-> IF k = 1 THEN None ELSE total(k) - total(k - 1)]]

\* v_latest by province, or by district of a province, before the answer is
\* cut to the largest.
Density(rows, Key(_)) ==
    [k \in {Key(r) : r \in rows} |->
        [total_chargers   |-> Cardinality({r \in rows : Key(r) = k}),
         dc_charger_count |-> Cardinality({r \in rows : Key(r) = k /\ r.dc})]]
regional_density(v_latest, group_by) ==
    IF group_by = "sido"
    THEN Density(Undeleted(v_latest), LAMBDA r : <<r.zcode, None>>)
    ELSE Density({r \in Undeleted(v_latest) : r.zscode # None},
                 LAMBDA r : <<r.zcode, r.zscode>>)

\* v_latest by operator.  Not monitored is not the same as out of service.
Downtime == {"1", "4", "5"}
analyze_operator_health(v_latest, min_chargers) ==
    LET Of(b, stats) == Cardinality({r \in Undeleted(v_latest) : r.busi_id = b /\ r.stat \in stats})
        all == {r.stat : r \in v_latest}
    IN  [b \in {r.busi_id : r \in {x \in Undeleted(v_latest) :
                                      Of(x.busi_id, all) >= min_chargers}} |->
            [total_chargers    |-> Of(b, all),
             available_now     |-> Of(b, {"2"}),
             downtime_count    |-> Of(b, Downtime),
             unmonitored_count |-> Of(b, {"9"})]]
=============================================================================
