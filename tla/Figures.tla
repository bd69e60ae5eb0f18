-------------------------------- MODULE Figures --------------------------------
(* The figures the pages under web/ compute from a snapshot in SQL, as       *)
(* operators on its set of rows.  A row is a charger: its key id, stat_id,   *)
(* busi_id, zcode, output, whether it is a DC type (dc), deleted (del_yn) or *)
(* at a motorway rest area (c001, kind_detail C001), its stat, its address   *)
(* as the motorways it names, its position in km (None: no usable one), and  *)
(* the hours at which it was last used (last_tsdt) and updated (stat_upd_dt).*)
EXTENDS Lists, Integers, FiniteSetsExt, SequencesExt

CONSTANTS
    None,    \* NULL
    Garbled  \* an output that is no number

TryCast(output) == IF output = Garbled THEN None ELSE output

Count(rows) == Cardinality(rows)
CountBy(rows, Key(_)) ==
    [k \in {Key(r) : r \in rows} |-> Count({r \in rows : Key(r) = k})]
Total(f) == MapThenSumSet(LAMBDA k : f[k], DOMAIN f)

\* A CASE over upper bounds: the number of the first kw does not exceed;
\* the ELSE branch takes the rest, NULL too.
Bucket(kw, bounds) ==
    1 + Cardinality({k \in DOMAIN bounds : kw = None \/ kw > bounds[k]})

-----------------------------------------------------------------------------
(* web/app.js                                                                *)

\* WHERE del_yn = 'N', with the filter of the page put into it.
sidoSql(rows, sido) ==
    {r \in rows : ~r.deleted /\ (sido = None \/ r.zcode = sido)}

NationalKpi(rows) == [total |-> Count(rows), dc |-> Count({r \in rows : r.dc})]

\* (Slip: chargers of unknown output are left out, as on the highway pages.)
NationalOutput_slipKnownOnly(rows) ==
    CountBy({r \in rows : TryCast(r.output) # None},
            LAMBDA r : Bucket(r.output, <<7, 14, 30, 50, 100, 200>>))
\* Bucket 0 is the one called unknown: no output, or one that is no number.
NationalOutput(rows) ==
    CountBy(rows, LAMBDA r : IF TryCast(r.output) = None THEN 0
                             ELSE Bucket(r.output, <<7, 14, 30, 50, 100, 200>>))

\* The bars a click on which sets the filter.
SidoDc(rows) ==
    LET live == {r \in rows : ~r.deleted}
    IN  [z \in {r.zcode : r \in live} |->
            [total |-> Count({r \in live : r.zcode = z}),
             dc    |-> Count({r \in live : r.zcode = z /\ r.dc})]]

-----------------------------------------------------------------------------
(* web/highway/*.js                                                          *)

HW_FILTER(rows) == {r \in rows : ~r.deleted /\ r.c001}

\* regexp_extract takes the first motorway an address names, LIKE any.
Extracted(r) == IF r.addr = <<>> THEN None ELSE Head(r.addr)
Like(r, hw) == hw \in ToSet(r.addr)

HighwayBucket(r) == Bucket(TryCast(r.output), <<50, 100, 200, 350>>)

\* The lists of route.js and compare.js: highways of at least atLeast chargers.
HighwayList(rows, atLeast) ==
    LET all == CountBy({r \in HW_FILTER(rows) : Extracted(r) # None}, Extracted)
    IN  [hw \in {h \in DOMAIN all : all[h] >= atLeast} |-> all[hw]]

\* route.js: the stations of a motorway that have a position, its operators.
qStations(rows, hw) ==
    CountBy({r \in HW_FILTER(rows) : Like(r, hw) /\ r.pos # None},
            LAMBDA r : [stat_id |-> r.stat_id, pos |-> r.pos])
qOpsThisRoute(rows, hw) ==
    CountBy({r \in HW_FILTER(rows) : Like(r, hw)}, LAMBDA r : r.busi_id)

\* Stations in order along the axis on which they spread more.
sortStationsByCorridor(stations) ==
    LET Spread(n) == Max({s.pos[n] : s \in stations}) - Min({s.pos[n] : s \in stations})
        axis == IF Spread(1) >= Spread(2) THEN 1 ELSE 2
    IN  Sorted(stations, LAMBDA s : s.pos[axis])

\* The square of the distance of neighbours, which is as good to compare.
KmSquared(p, q) == (p[1] - q[1]) * (p[1] - q[1]) + (p[2] - q[2]) * (p[2] - q[2])
computeAdjacentDistances(sorted) ==
    [i \in 1..(Len(sorted) - 1) |-> KmSquared(sorted[i].pos, sorted[i + 1].pos)]

\* The six bars, from ..] to ..]; the first one has both its ends.
SpacingBounds == <<0, 10, 20, 40, 60, 100>>
inBucket(km2, k) ==
    LET lo == SpacingBounds[k] * SpacingBounds[k]
    IN  /\ IF k = 1 THEN km2 >= lo ELSE km2 > lo
        /\ k < 6 => km2 <= SpacingBounds[k + 1] * SpacingBounds[k + 1]
renderSpacing(distances) ==
    [k \in 1..6 |-> Cardinality({i \in DOMAIN distances : inBucket(distances[i], k)})]

\* compare.js: the first selected motorway an address names takes the row.
EntityOf(r, ids) ==
    LET named == {k \in DOMAIN ids : Like(r, ids[k])}
    IN  IF named = {} THEN None ELSE ids[Min(named)]
Compared(rows, ids) == {r \in HW_FILTER(rows) : EntityOf(r, ids) # None}
qHwKpis(rows, ids) == CountBy(Compared(rows, ids), LAMBDA r : EntityOf(r, ids))
qHwOps(rows, ids) ==
    CountBy(Compared(rows, ids), LAMBDA r : <<EntityOf(r, ids), r.busi_id>>)
qOutputDist(rows, ids) ==
    CountBy({r \in Compared(rows, ids) : r.output # None},
            LAMBDA r : <<EntityOf(r, ids), HighwayBucket(r)>>)
OfEntity(f, e) == [k \in {p \in DOMAIN f : p[1] = e} |-> f[k]]

\* map.js: stations with a position, by the motorway of their address; those
\* without one have an entry of their own (UNKNOWN_HW).
MapStations(rows) ==
    {[stat_id |-> r.stat_id, highway |-> Extracted(r)] :
        r \in {x \in HW_FILTER(rows) : x.pos # None}}
populateHighwayFilter(stations) == CountBy(stations, LAMBDA s : s.highway)
SelectHighway(stations, hw) == {s \in stations : s.highway = hw}

\* operators.js: stations, and pairs of a station and one of its operators.
Q_MONOPOLY(rows) ==
    LET sb == {<<r.stat_id, r.busi_id>> : r \in HW_FILTER(rows)}
    IN  [total_stations |-> Cardinality({p[1] : p \in sb}), pairs |-> Cardinality(sb)]

-----------------------------------------------------------------------------
(* web/highway/activity.js.  Now is the latest update of the snapshot.  The  *)
(* KPI and the ranking compare an interval of 60 times 24 hours, the bars    *)
(* the number of midnights in between.                                       *)
NowTs(rows) ==
    LET stamps == {r.stat_upd_dt : r \in HW_FILTER(rows)} \ {None}
    IN  IF stamps = {} THEN None ELSE Max(stamps)
\* Of the others the age is NULL, and no comparison is true.
Aged(rows) == {r \in HW_FILTER(rows) : r.last_tsdt # None /\ NowTs(rows) # None}
Overdue(rows) == {r \in Aged(rows) : NowTs(rows) - r.last_tsdt > 60 * 24}
DaysSince(rows, r) == (NowTs(rows) \div 24) - (r.last_tsdt \div 24)

DormantKpi(rows) == Count(Overdue(rows))
DormantBuckets(rows) ==
    CountBy({r \in Aged(rows) : DaysSince(rows, r) > 60},
            LAMBDA r : Bucket(DaysSince(rows, r), <<90, 180, 365>>))
DormantByHighway(rows) ==
    CountBy({r \in Overdue(rows) : Extracted(r) # None}, Extracted)

-----------------------------------------------------------------------------
(* web/trends.js: one row per snapshot, and the difference of two.           *)
Live(rows) == {r \in rows : ~r.deleted}
Q_TREND(rows) == [total |-> Count(Live(rows)), dc |-> Count({r \in Live(rows) : r.dc})]

\* (Slip: the earlier snapshot is read with its deleted rows.)
qDiff_slipDeletedFrom(from, to) ==
    LET ids(rows) == {r.id : r \in rows}
        t == Live(to)
    IN  [appeared     |-> Cardinality(ids(t) \ ids(from)),
         disappeared  |-> Cardinality(ids(from) \ ids(t)),
         stat_changed |-> Cardinality({r.id : r \in {x \in t :
                              \E y \in from : y.id = x.id /\ y.stat # x.stat}})]
qDiff(from, to) ==
    LET f == Live(from)
        t == Live(to)
        ids(rows) == {r.id : r \in rows}
    IN  [appeared     |-> Cardinality(ids(t) \ ids(f)),
         disappeared  |-> Cardinality(ids(f) \ ids(t)),
         stat_changed |-> Cardinality({r.id : r \in {x \in t :
                              \E y \in f : y.id = x.id /\ y.stat # x.stat}})]
=============================================================================
