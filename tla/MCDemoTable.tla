----------------------------- MODULE MCDemoTable -----------------------------
(* The archive, the calls and the schemas given to TLC for DemoTable. *)
EXTENDS DemoTable

Rec(tile, n, date, box, t) ==
    [id |-> tile \o <<Dot, n>>, datetime |-> date, box |-> box, transform |-> t]

\* Two tiles, the name of one a prefix of the other's; dates before, at and after
\* the floor and out of the hash's extent; boxes in one region, in another and
\* across the border; an old and a recent record without transform, and one
\* without a box.
FirstRecords ==
    { Rec(<<1>>, 1, 0, <<0, 0, 1, 1>>, FALSE),   Rec(<<1>>, 2, 1, <<0, 0, 2, 2>>, TRUE),
      Rec(<<1, 2>>, 1, 2, <<2, 2, 3, 3>>, TRUE), Rec(<<1, 2>>, 2, 3, <<3, 0, 6, 1>>, TRUE),
      Rec(<<1, 2>>, 3, 9, <<6, 6, 8, 8>>, TRUE), Rec(<<1, 2>>, 4, 2, <<2, 0, 2, 1>>, FALSE),
      Rec(<<1>>, 3, 3, << >>, TRUE),             Rec(<<1>>, 4, -1, <<2, 5, 3, 7>>, TRUE) }

LaterRecords == { Rec(<<1>>, 5, 2, <<0, 2, 1, 3>>, TRUE) }

FirstArchives == kSubset(3, FirstRecords)

Call(bbox, tile, range, limit, floor) ==
    [bbox |-> bbox, tile |-> tile, datetime |-> range, limit |-> limit, floor |-> floor]

\* Boxes that hold, cut, touch or miss a record's; ranges that reach below the
\* floor and end on a record's date; a floor before all records.
SomeQueries ==
    { Call(b, t, d, n, DATETIME_FLOOR) :
        b \in {Nil, <<2, 2, 2, 2>>, <<4, 1, 5, 4>>},
        t \in {Nil, <<1>>}, d \in {Nil, <<0, 3>>}, n \in {1, 2, 75} }
    \cup { Call(Nil, Nil, Nil, 75, -2) }

\* Highest ids below, at and above array_path's.
SourceIds == {{1, 2}, {1, 9}, {1, 10}, {1, 12}}
=============================================================================
