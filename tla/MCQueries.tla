------------------------------ MODULE MCQueries ------------------------------
(* Four chargers of three stations, each with rows that meet the conditions  *)
(* of the queries from both sides.  A day is 24 hours: the latest update is  *)
(* in hour 2010, sixty days before it are hours 569 and 570.                 *)
EXTENDS Queries

Base == [id |-> 1, stat_id |-> "s1", busi_id |-> "ME", zcode |-> "11",
         zscode |-> "11110", output |-> 50, dc |-> FALSE, deleted |-> FALSE,
         c001 |-> TRUE, stat |-> "2", addr |-> <<"gyeongbu">>, pos |-> <<0, 0>>,
         last_tsdt |-> None, stat_upd_dt |-> 2000]

\* One and Two are at the same station, Three and Four each at another one.
One == {Base,
        [Base EXCEPT !.output = None, !.stat = "1", !.last_tsdt = 569, !.stat_upd_dt = 2010],
        [Base EXCEPT !.c001 = FALSE, !.stat = "0", !.output = Garbled, !.last_tsdt = 300]}
Two == {[r EXCEPT !.id = 2] :
          r \in {[Base EXCEPT !.pos = None, !.stat = "9", !.addr = <<>>, !.zscode = None,
                              !.last_tsdt = 551],
                 [Base EXCEPT !.busi_id = "KP", !.dc = TRUE, !.output = 201],
                 [Base EXCEPT !.deleted = TRUE],
                 [Base EXCEPT !.output = Garbled, !.stat = "5", !.last_tsdt = 200]}}
Three == {[r EXCEPT !.id = 3, !.stat_id = "s2", !.pos = <<10, 3>>] :
          r \in {[Base EXCEPT !.addr = <<"busanulsan", "gyeongbu">>, !.zcode = "26",
                              !.zscode = "26110"],
                 [Base EXCEPT !.busi_id = "KP", !.output = 7, !.stat = "1",
                              !.addr = <<"gyeongbu", "busanulsan">>],
                 [Base EXCEPT !.dc = TRUE, !.stat = "3", !.output = 350, !.last_tsdt = 571],
                 [Base EXCEPT !.zcode = "26", !.zscode = "26110", !.deleted = TRUE]}}
Four == {[r EXCEPT !.id = 4, !.stat_id = "s3"] :
          r \in {[Base EXCEPT !.stat = "3", !.zcode = "26", !.zscode = "26110",
                              !.pos = <<0, 100>>],
                 [Base EXCEPT !.addr = <<"busanulsan">>, !.output = 100, !.stat = "6",
                              !.stat_upd_dt = None, !.pos = <<0, 10>>]}}
MCChargers == <<One, Two, Three, Four>>

MCSido == <<[code |-> "11", name |-> "seoul", parts |-> {"s"}],
            [code |-> "26", name |-> "busan", parts |-> {"s", "b"}]>>
MCSigungu == <<[code |-> "11110", name |-> "jongno", parts |-> {}],
               [code |-> "11140", name |-> "jung", parts |-> {}],
               [code |-> "26110", name |-> "jung", parts |-> {}]>>
MCBusiId == <<[code |-> "ME", name |-> "ministry", parts |-> {"min"}],
              [code |-> "KP", name |-> "kepco", parts |-> {"kep"}]>>
MCAsked == {"11", "s", "busan", "jongno", "jung", "26110", "ME", "kep"}
MCRegionFetch == [times |-> 2, least |-> 3, most |-> 3]
MCPlaces == {<<0, 0>>, <<9, 3>>}
=============================================================================
