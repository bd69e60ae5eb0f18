-------------------------------- MODULE Queries --------------------------------
(* The rows behind the pages under web/, the tools of the Worker and those   *)
(* of the Python server, and what their queries promise of each other on     *)
(* whatever rows there are.                                                  *)
EXTENDS Integers, Sequences, FiniteSets

CONSTANTS
    None, Garbled,                     \* as in Figures
    MinChargers,                       \* of a highway in the lists (five)
    Overfetch, Sido, Sigungu, BusiId,  \* as in InventoryTools
    RegionFetch,                       \* as in PyTools
    Chargers,                          \* per id the rows it may come with
    Places, Radii, Limits,             \* what the tools that search are asked
    Asked                              \* operators, regions, districts asked for

\* The codes of a status; any other one is read as "0", unknown.
CHARGER_STATUS_CODES == {"0", "1", "2", "3", "4", "5", "6", "9"}

\* What the schema and the parsers admit: the key, the operator, the province
\* and the status are not NULL; ids are numbered in the order of the keys.
IsCharger(r) ==
    /\ {r.deleted, r.c001, r.dc} \subseteq BOOLEAN
    /\ r.output \in Int \cup {None, Garbled}
    /\ r.stat \in CHARGER_STATUS_CODES
    /\ DOMAIN r.addr = 1..Len(r.addr) /\ \A k \in DOMAIN r.addr : r.addr[k] # None
    /\ r.pos = None \/ r.pos \in Int \X Int
    /\ {r.last_tsdt, r.stat_upd_dt} \subseteq Int \cup {None}

ASSUME ChargersAssumption ==
    \A id \in DOMAIN Chargers :
        id \in Int /\ \A r \in Chargers[id] : r.id = id /\ IsCharger(r)

ASSUME AskedAssumption ==
    /\ Overfetch \in Nat /\ Limits \subseteq Nat /\ Radii \subseteq Nat
    /\ Places \subseteq Int \X Int
    /\ RegionFetch \in [times : Nat, least : Nat, most : Nat]

\* NULL is no set of types, and no difference.
ASSUME NullAssumption ==
    /\ None # {TRUE}
    /\ None \notin [appeared : Nat, disappeared : Nat, stat_changed : Nat, net_change : Int]

VARIABLES
    rows,  \* the chargers, one row per id
    old    \* those of an earlier snapshot

vars == <<rows, old>>

Web == INSTANCE Figures
Tools == INSTANCE InventoryTools
Py == INSTANCE PyTools

Init == rows = {} /\ old = {}

\* INSERT OR REPLACE: the row of an id replaces the one before.
Upsert(r) ==
    /\ rows' = {x \in rows : x.id # r.id} \cup {r}
    /\ UNCHANGED old

\* The rows of now are kept as a dated snapshot.
Publish == old' = rows /\ UNCHANGED rows

Next == Publish \/ \E id \in DOMAIN Chargers : \E r \in Chargers[id] : Upsert(r)

Spec == Init /\ [][Next]_vars

-----------------------------------------------------------------------------
(* Properties                                                                *)

Named == UNION {{r.addr[k] : k \in DOMAIN r.addr} : r \in rows}
OnHighways == Web!HW_FILTER(rows)

\* The bars of the national page add up to its KPI under every filter, and
\* the bar one clicks to set the filter had the KPI that is then shown.
NationalAddsUp ==
    \A z \in {None} \cup {r.zcode : r \in rows} :
        LET kept == Web!sidoSql(rows, z)
        IN  /\ Web!Total(Web!NationalOutput(kept)) = Web!NationalKpi(kept).total
            /\ z # None /\ kept # {} => Web!SidoDc(rows)[z] = Web!NationalKpi(kept)

\* Every pair of neighbours on a route falls into one bar of the spacing
\* chart, every charger the list counts for a highway and every station the
\* map files under it belong to its route.
RouteAddsUp ==
    \A hw \in Named :
        LET stations == DOMAIN Web!qStations(rows, hw)
            listed == Web!HighwayList(rows, MinChargers)
            spacing == Web!renderSpacing(
                Web!computeAdjacentDistances(Web!sortStationsByCorridor(stations)))
        IN  /\ stations # {} =>
                 Web!Total(spacing) = Web!Count(stations) - 1
            /\ hw \in DOMAIN listed => listed[hw] <= Web!Total(Web!qOpsThisRoute(rows, hw))
            /\ {s.stat_id : s \in Web!SelectHighway(Web!MapStations(rows), hw)}
                 \subseteq {s.stat_id : s \in stations}

\* Compared highways share the rows between them: none is counted twice, none
\* lost, and the operators of each add up to its total.
CompareAddsUp ==
    \A h1, h2 \in Named :
        h1 # h2 =>
            LET kpis == Web!qHwKpis(rows, <<h1, h2>>)
                ops == Web!qHwOps(rows, <<h1, h2>>)
                kw == Web!qOutputDist(rows, <<h1, h2>>)
            IN  /\ Web!Total(kpis) =
                     Web!Count({r \in OnHighways : Web!Like(r, h1) \/ Web!Like(r, h2)})
                /\ \A e \in DOMAIN kpis :
                     /\ Web!Total(Web!OfEntity(ops, e)) = kpis[e]
                     /\ Web!Total(Web!OfEntity(kw, e)) <= kpis[e]

\* A station has one operator exactly if the pairs are as many as the stations.
MonopolyAddsUp ==
    LET q == Web!Q_MONOPOLY(rows)
    IN  q.pairs = q.total_stations <=>
            \A r, s \in OnHighways : r.stat_id = s.stat_id => r.busi_id = s.busi_id

\* The bars and the ranking of dormant chargers stay within the KPI, and only
\* chargers on their sixtieth day are missing from the bars.
DormantAddsUp ==
    LET bars == Web!Total(Web!DormantBuckets(rows))
        kpi == Web!DormantKpi(rows)
    IN  /\ bars <= kpi
        /\ kpi - bars = Web!Count({r \in Web!Overdue(rows) : Web!DaysSince(rows, r) = 60})
        /\ Web!Total(Web!DormantByHighway(rows)) <= kpi

\* The Python server counts a province as the national page does, and its
\* districts never exceed it: a charger without a district is in neither.
DensityAddsUp ==
    LET bars == Web!SidoDc(rows)
        sido == Py!regional_density(rows, "sido")
        sigungu == Py!regional_density(rows, "sigungu")
        Within(z) == [k \in {p \in DOMAIN sigungu : p[1] = z} |-> sigungu[k].total_chargers]
    IN  /\ {k[1] : k \in DOMAIN sido} = DOMAIN bars
        /\ \A z \in DOMAIN bars :
             /\ sido[<<z, None>>].total_chargers = bars[z].total
             /\ sido[<<z, None>>].dc_charger_count = bars[z].dc
             /\ Web!Total(Within(z)) + Web!Count({r \in Web!Live(rows) :
                    r.zcode = z /\ r.zscode = None}) = bars[z].total

\* The operators share the chargers of the national page, and each charger is
\* available, out of service, not monitored, or none of these: in use,
\* reserved or unknown, for which the tool has no figure.
HealthAddsUp ==
    LET health == Py!analyze_operator_health(rows, 1)
        rest(b) == Web!Count({r \in Web!Live(rows) : /\ r.busi_id = b
                                                     /\ r.stat \in {"0", "3", "6"}})
    IN  /\ Web!Total([b \in DOMAIN health |-> health[b].total_chargers]) =
             Web!NationalKpi(Web!sidoSql(rows, None)).total
        /\ \A b \in DOMAIN health :
             health[b].available_now + health[b].downtime_count
                 + health[b].unmonitored_count + rest(b) = health[b].total_chargers
        /\ \A b \in DOMAIN Py!analyze_operator_health(rows, MinChargers) :
             health[b].total_chargers >= MinChargers

\* Figures that a reader adds up or carries from one part of a page to another
\* agree, though each comes from a query of its own (web/app.js, web/highway),
\* as do those of the tools regional_density and analyze_operator_health.
FiguresAgree ==
    /\ NationalAddsUp /\ RouteAddsUp /\ CompareAddsUp
    /\ MonopolyAddsUp /\ DormantAddsUp /\ DensityAddsUp /\ HealthAddsUp

\* The tool snapshot_diff, left to choose its dates, explains the last step of
\* inventory_trend, whose totals are those of the trends page.
TrendExplained ==
    LET v_all == <<old, rows>>
        diff == Py!snapshot_diff(v_all, None, None)
        trend == Py!inventory_trend(v_all, 2)
    IN  /\ \A k \in DOMAIN trend :
             /\ trend[k].total_chargers = Web!Q_TREND(v_all[trend[k].snapshot_date]).total
             /\ trend[k].dc_count = Web!Q_TREND(v_all[trend[k].snapshot_date]).dc
        /\ Len(trend) = 2 => diff # None /\ diff.net_change = trend[2].delta_total

\* The cards of a difference explain the change of the total between its two
\* dates, and the difference read backwards is the same one mirrored, also
\* when chargers are marked deleted or come back (web/trends.js); the tools
\* snapshot_diff and inventory_trend agree with each other and with the page.
DiffBalances ==
    LET d == Web!qDiff(old, rows)
        back == Web!qDiff(rows, old)
    IN  /\ d.appeared - d.disappeared =
             Web!Q_TREND(rows).total - Web!Q_TREND(old).total
        /\ back = [d EXCEPT !.appeared = d.disappeared, !.disappeared = d.appeared]
        /\ TrendExplained

\* The answer to a search near a place: chargers that are wanted, the nearest
\* of them if all that are near were looked at.
Nearest(found, wanted, at, limit, lookedAtAll) ==
    LET in == {found[k] : k \in DOMAIN found}
    IN  /\ in \subseteq wanted
        /\ lookedAtAll =>
             /\ Len(found) = limit \/ in = wanted
             /\ \A r \in in, s \in wanted \ in :
                  Tools!haversineKm(at, r) <= Tools!haversineKm(at, s)

\* Both searches answer with the nearest chargers within the radius, with
\* available ones or some types only if asked so, as long as the box around
\* the place has no more chargers than the candidates they read.
NearestFound ==
    \A at \in Places, radius \in Radii, limit \in Limits, only \in BOOLEAN :
        LET wanted == Tools!Wanted({r \in rows : r.pos # None}, at, radius, only)
            all == Web!Count(Tools!Box(rows, at, radius)) <= limit * Overfetch
        IN  \A candidates \in Tools!nearLatLng(rows, at, radius, limit * Overfetch) :
                /\ Nearest(Tools!findChargersNearby(candidates, at, radius, only, limit),
                           wanted, at, limit, all)
                /\ Nearest(Py!find_chargers_nearby(candidates, at, radius, {TRUE}, only, limit),
                           {r \in wanted : r.dc}, at, limit, all)

\* All of a list is of those asked for, and all of them are in it unless it is
\* as long as allowed.
Complete(list, all, limit) ==
    LET in == {list[k] : k \in DOMAIN list}
    IN  in \subseteq all /\ (Len(list) = limit \/ in = all)

\* A list by operator or by region has only rows of what was asked for (of the
\* district, when one was), and all of them unless it is as long as allowed.
\* The Python server filters after it has read: it can promise the same only
\* if the region has no more chargers than it reads.
ListsComplete ==
    \A limit \in Limits, region \in Asked \cup {None} :
        LET z == Tools!resolveSido(region)
        IN  /\ \A operator \in Asked :
                 LET list == Tools!listChargersByOperator(rows, operator, region, limit)
                     b == Tools!resolveBusiId(operator)
                 IN  list # None =>
                       Complete(list, {r \in rows : /\ r.busi_id = b
                                                    /\ region # None => r.zcode = z}, limit)
            /\ \A district \in Asked \cup {None} :
                 LET zs == Tools!resolveSigungu(district)
                     there == {r \in rows : IF district = None THEN r.zcode = z
                                                              ELSE r.zscode = zs}
                     list == Tools!searchChargersByRegion(rows, region, district, limit)
                 IN  /\ list # None => Complete(list, there, limit)
                     /\ list # None => \A types \in {None, {TRUE}} :
                          LET found == Py!search_chargers_by_region(
                                           rows, region, district, types, TRUE, limit)
                              wanted == {r \in there : Py!Passes(r, types, TRUE)}
                          IN  /\ {found[k] : k \in DOMAIN found} \subseteq wanted
                              /\ Web!Count(there) <= Py!fetch_limit(limit) =>
                                   Complete(found, wanted, limit)

\* What any list names is found again among the details of its station.
DetailsFound ==
    \A r \in rows : \E k \in DOMAIN Tools!getStationDetails(rows, r.stat_id) :
        Tools!getStationDetails(rows, r.stat_id)[k] = r

\* The tools answer what they were asked (workers/src/tools/inventory.ts,
\* src/ev_mcp/tools).
ToolsAnswer == NearestFound /\ ListsComplete /\ DetailsFound
=============================================================================
