---------------------------- MODULE MCDemoGranule ----------------------------
(* The records, COGs and headers given to TLC for DemoGranule. *)
EXTENDS DemoGranule

CONSTANTS band1, band2

BandOrder == <<band1, band2>>

Level(size, n) == [shape |-> size, vars |-> n]

\* Pyramids of one to three levels, one whose overview holds two variables, one
\* of another shape with as many pixels, and a COG without levels.
Cogs == { <<Level(<<4, 6>>, 1)>>,
          <<Level(<<4, 6>>, 1), Level(<<2, 3>>, 1), Level(<<1, 2>>, 1)>>,
          <<Level(<<4, 6>>, 1), Level(<<2, 3>>, 2)>>,
          <<Level(<<6, 4>>, 1), Level(<<3, 2>>, 1)>>,
          << >> }

RecordShapes == {<<4, 6>>}

\* North-up, with different pixel sizes and origins.
Affines == { <<3, 0, 10, 0, -3, 20, 0, 0, 1>>, <<1, 0, -5, 0, -2, 0, 0, 0, 1>> }

Entry(tag, kind, v) == [tag |-> tag, kind |-> kind, value |-> v]
Image(o, kind, w, h) ==
    [at |-> o, entries |-> <<Entry(IMAGE_WIDTH, kind, w), Entry(IMAGE_LENGTH, kind, h)>>]

\* An IFD that is not an image.
Other(o) == [at |-> o, entries |-> <<Entry(IMAGE_WIDTH, TYPE_SHORT, 1), Entry(339, 3, 1)>>]

Tiff(order, ifds) == [order |-> order, version |-> 42, ifds |-> ifds]

\* In both byte orders: a pyramid in order, one whose full image comes last in
\* the file, one with another IFD in its chain, and no image at all.
Chains == { <<Image(8, 4, 70000, 300), Image(38, 3, 35000, 150), Image(68, 3, 300, 75)>>,
            <<Image(68, 3, 300, 256), Image(8, 3, 150, 128)>>,
            <<Image(8, 3, 600, 600), Other(38), Image(68, 3, 300, 300)>>,
            << >> }

SomeFiles == { Tiff(o, c) : o \in {"II", "MM"}, c \in Chains }
             \cup { [order |-> "PK", version |-> 42, ifds |-> << >>],
                    [order |-> "II", version |-> 43, ifds |-> << >>] }

\* The files end at byte 98.
HeaderLengths == 0..100
=============================================================================
