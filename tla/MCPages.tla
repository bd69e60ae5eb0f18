------------------------------- MODULE MCPages -------------------------------
(* Small pages: two or three members of every list, and bookmarks that name  *)
(* one of them, none, or something the snapshot does not have.  The list of  *)
(* highways is too short to have newcomers: that preset selects none.        *)
EXTENDS Pages

CONSTANTS a, b, c, gone, db1, db2, db3

MCSidos == {a, b, c}
MCBars == {a, b}
MCRoutes == <<a, b, c>>
MCUnplaced == {c}
MCStations == <<a, b>>
MCOnHighway == {a}
MCEntityList == [operator |-> <<a, b, c>>, highway |-> <<a, b>>]
MCNewcomers == [operator |-> <<b, c>>, highway |-> <<>>]
MCIncumbents == [operator |-> <<a>>, highway |-> <<a, b>>]
MCDates == <<1, 2, 3>>
MCBookmarks == [
    national  |-> {None, a, c, gone},
    route     |-> {None, b, gone},
    station   |-> {None, b, gone},
    compare   |-> {Compare!Comparison("operator", <<>>),
                   Compare!Comparison("operator", <<a, b>>),
                   Compare!Comparison("highway", <<>>),
                   Compare!Comparison("highway", <<b, gone, a>>)},
    trends    |-> {None}, map |-> {None}, highway |-> {None},
    activity  |-> {None}, operators |-> {None}]
=============================================================================
