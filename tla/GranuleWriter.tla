----------------------------- MODULE GranuleWriter -----------------------------
(***************************************************************************)
(* virtualize.py's write_granule on one granule, with the attributes of    *)
(* conventions.py: every band's pyramid is opened, then the levels and the *)
(* attributes of each band are staged in the transaction's session.        *)
(*                                                                         *)
(* Ingest has this as one step that stages some or all parts of a granule. *)
(* Here the parts are arrays at paths, and the attributes name them.       *)
(***************************************************************************)
EXTENDS Naturals, Integers, Sequences, SequencesExt, FiniteSets, FiniteSetsExt, Subsequences

CONSTANTS
    Bands,      \* the bands asked for, in order
    Pyramids,   \* what opening a COG may yield: <<levels, finest first>>
    Shapes,     \* the proj:shape a record may carry, <<rows, columns>>
    Transforms, \* the proj:transform a record may carry, nine numbers
    Nil

\* asset_urls returns a dict: a band asked for twice counts once.
ASSUME BandsAssumption == Bands \in Seq(ToSet(Bands)) /\ IsInjective(Bands)

\* A level: its shape and the number of variables its dataset holds.
ASSUME PyramidAssumption ==
    /\ Pyramids \subseteq Seq([shape : Nat \X Nat, vars : Nat])
    /\ Nil \notin Nat \X Nat

\* North-up: no rotation, x grows with the column and y falls with the row.
NorthUp(t) == t \in Seq(Int) /\ Len(t) = 9 /\ t[1] > 0 /\ t[2] = 0 /\ t[4] = 0 /\ t[5] < 0

\* The archive's rasters, as granule_attrs takes them to be.
ASSUME TransformAssumption == \A t \in Transforms : NorthUp(t)

VARIABLES
    row,       \* the record: its bands, those outside the bucket, shape, transform
    phase,     \* opening pyramids, writing, returned or raised
    datasets,  \* virtual_granule's locals: band -> pyramid,
    shape,     \* and the shape of the first band's level 0
    at,        \* the part to write next: band and level, counted from 1
    staged,    \* the session: path -> shape of the array there
    attrs      \* and band group -> its attributes

writeVars == <<row, phase, datasets, shape, at, staged, attrs>>

\* asset_urls: the bands the record has, in the order asked for.
Urls == Among(Bands, row.bands)

(***************************************************************************)
(* conventions.py                                                          *)
(***************************************************************************)

MULTISCALES_GROUP == "multiscales"

\* A path below a band group.
LevelPath(level, name) == <<MULTISCALES_GROUP, level, name>>

\* A fault for the checks to catch: one level too many.
LayoutPastEnd(levels, name) ==
    [i \in 1..levels + 1 |->
        [asset |-> LevelPath(i - 1, name),
         derived |-> IF i = 1 THEN Nil ELSE LevelPath(i - 2, name)]]

\* multiscale_layout: each level's array, and the one it is derived from, by a
\* factor of two.
MultiscaleLayout(levels, name) ==
    [i \in 1..Max({1, levels}) |->
        [asset |-> LevelPath(i - 1, name),
         derived |-> IF i = 1 THEN Nil ELSE LevelPath(i - 2, name)]]

\* A fault for the checks to catch: rows and columns are taken for each other.
BoxTransposed(size, affine) ==
    <<affine[3], affine[6] + size[2] * affine[5], affine[3] + size[1] * affine[1], affine[6]>>

\* The projected bounds of a raster of that size: xmin, ymin, xmax, ymax.
Box(size, affine) ==
    <<affine[3], affine[6] + size[1] * affine[5], affine[3] + size[2] * affine[1], affine[6]>>

GranuleAttrs(levels, name) ==
    LET affine == SubSeq(row.transform, 1, 6) IN
    [shape |-> row.shape, transform |-> affine, bbox |-> Box(row.shape, affine),
     layout |-> MultiscaleLayout(levels, name)]

(***************************************************************************)
(* virtual_granule: read only.                                             *)
(***************************************************************************)

Raise ==
    /\ phase' = "raised"
    /\ UNCHANGED <<row, datasets, shape, at, staged, attrs>>

\* An href outside the bucket (asset_key), or no asset at all: GranuleError.
RefuseRow ==
    /\ phase = "start"
    /\ Urls = << >> \/ \E b \in ToSet(Urls) : b \in row.outside
    /\ Raise

AcceptRow ==
    /\ phase = "start"
    /\ Urls # << >> /\ \A b \in ToSet(Urls) : b \notin row.outside
    /\ phase' = "open"
    /\ UNCHANGED <<row, datasets, shape, at, staged, attrs>>

Opening   == phase = "open" /\ Cardinality(DOMAIN datasets) < Len(Urls)
NextBand  == Urls[Cardinality(DOMAIN datasets) + 1]
AllOpened == phase = "open" /\ Cardinality(DOMAIN datasets) = Len(Urls)

\* A fault for the checks to catch: a level is staged as soon as it is opened.
OpenAndStage(p) ==
    /\ Opening /\ p # << >>
    /\ datasets' = [b \in DOMAIN datasets \cup {NextBand} |->
                       IF b = NextBand THEN p ELSE datasets[b]]
    /\ shape' = IF shape = Nil THEN p[1].shape ELSE shape
    /\ staged' = [x \in DOMAIN staged \cup {<<NextBand>> \o LevelPath(0, NextBand)} |->
                     IF x \in DOMAIN staged THEN staged[x] ELSE p[1].shape]
    /\ UNCHANGED <<row, phase, at, attrs>>

\* open_pyramid on the next band yields p, whose finest level gives the shape
\* if this is the first band.
OpenPyramid(p) ==
    /\ Opening /\ p # << >>
    /\ datasets' = [b \in DOMAIN datasets \cup {NextBand} |->
                       IF b = NextBand THEN p ELSE datasets[b]]
    /\ shape' = IF shape = Nil THEN p[1].shape ELSE shape
    /\ UNCHANGED <<row, phase, at, staged, attrs>>

\* The COG has no level: GranuleError.
NoLevels(p) == Opening /\ p = << >> /\ Raise

\* The COG cannot be read: open_pyramid raises.
OpenFails == Opening /\ Raise

\* A fault for the checks to catch: the areas are compared, not the shapes.
AreaAgrees == shape[1] * shape[2] = row.shape[1] * row.shape[2]

\* shape = expected
ShapeAgrees == shape = row.shape

StartWriting ==
    /\ AllOpened /\ ShapeAgrees
    /\ phase' = "write"
    /\ UNCHANGED <<row, datasets, shape, at, staged, attrs>>

RefuseShape == AllOpened /\ ~ShapeAgrees /\ Raise

(***************************************************************************)
(* write_granule_to_store: band by band, its levels and then its attributes. *)
(***************************************************************************)

Writing   == phase = "write" /\ at.band <= Len(Urls)
Band      == Urls[at.band]
LevelLeft == Writing /\ at.level <= Len(datasets[Band])
Dataset   == datasets[Band][at.level]

\* A fault for the checks to catch: the variable keeps the name of its IFD.
NamedAfterIfd == <<Band, MULTISCALES_GROUP, at.level - 1, at.level - 1>>

\* The path of the array written: the level's group, the variable renamed.
ArrayPath == <<Band>> \o LevelPath(at.level - 1, Band)

WriteLevel ==
    /\ LevelLeft /\ Dataset.vars = 1
    /\ staged' = [x \in DOMAIN staged \cup {ArrayPath} |->
                     IF x = ArrayPath THEN Dataset.shape ELSE staged[x]]
    /\ at' = [at EXCEPT !.level = @ + 1]
    /\ UNCHANGED <<row, phase, datasets, shape, attrs>>

\* A level of several variables: GranuleError, with earlier parts staged.
RefuseLevel == LevelLeft /\ Dataset.vars # 1 /\ Raise

\* The attributes go on the band group, with the count of this band's levels.
WriteAttrs ==
    /\ Writing /\ ~LevelLeft
    /\ attrs' = [b \in DOMAIN attrs \cup {Band} |->
                    IF b = Band THEN GranuleAttrs(Len(datasets[Band]), Band) ELSE attrs[b]]
    /\ at' = [band |-> at.band + 1, level |-> 1]
    /\ UNCHANGED <<row, phase, datasets, shape, staged>>

\* The session's store raises.
StoreFails == Writing /\ Raise

Return ==
    /\ phase = "write" /\ ~Writing
    /\ phase' = "returned"
    /\ UNCHANGED <<row, datasets, shape, at, staged, attrs>>

WriteInit ==
    /\ row = Nil
    /\ phase = "idle"
    /\ datasets = << >> /\ staged = << >> /\ attrs = << >>
    /\ shape = Nil
    /\ at = [band |-> 1, level |-> 1]

\* write_granule is called on a record.
CallWriteGranule ==
    /\ phase = "idle"
    /\ phase' = "start"
    /\ row' \in { r \in [bands : SUBSET ToSet(Bands), outside : SUBSET ToSet(Bands),
                         shape : Shapes, transform : Transforms] :
                  r.outside \subseteq r.bands }
    /\ UNCHANGED <<datasets, shape, at, staged, attrs>>

\* The steps of the call.
WriteGranule ==
    \/ RefuseRow \/ AcceptRow
    \/ \E p \in Pyramids : OpenPyramid(p) \/ NoLevels(p)
    \/ OpenFails \/ StartWriting \/ RefuseShape
    \/ WriteLevel \/ RefuseLevel \/ WriteAttrs \/ StoreFails \/ Return

(***************************************************************************)
(* Properties.                                                             *)
(***************************************************************************)

\* The arrays below a band group.
ArraysOf(b) == {Tail(x) : x \in {x \in DOMAIN staged : Head(x) = b}}

\* Every layout entry of a band resolves, what it is derived from too, and every
\* array staged below the band has its entry, whatever the depth of the other
\* bands' pyramids (multiscale_layout and the paths write_granule_to_store uses).
LayoutResolves ==
    \A b \in DOMAIN attrs :
        LET layout == attrs[b].layout IN
        /\ {layout[i].asset : i \in DOMAIN layout} = ArraysOf(b)
        /\ \A i \in DOMAIN layout : layout[i].derived \in ArraysOf(b) \cup {Nil}

\* Nothing is staged before the whole granule was found readable: a row that is
\* refused, a COG that cannot be opened or a wrong shape leaves the session
\* untouched, so ingest_batch sees no trace of it.
NothingStagedUnread ==
    staged # << >> => /\ row.outside \cap ToSet(Urls) = {}
                      /\ DOMAIN datasets = ToSet(Urls)
                      /\ datasets[Urls[1]][1].shape = row.shape

\* write_granule returns only if all levels of all the bands the record has are
\* staged and each band group carries its attributes.
ReturnedIsWhole ==
    phase = "returned" =>
        /\ DOMAIN attrs = ToSet(Urls)
        /\ \A b \in ToSet(Urls) :
              ArraysOf(b) = {LevelPath(l - 1, b) : l \in DOMAIN datasets[b]}

\* Where a pixel corner of the raster lies: row-major affine, no rotation.
Corner(t, r, c) == <<t[3] + c * t[1] + r * t[2], t[6] + c * t[4] + r * t[5]>>

\* The extreme coordinates of the pixel corners: xmin, ymin, xmax, ymax.
Extent(t, size) ==
    LET corners == {Corner(t, r, c) : r \in 0..size[1], c \in 0..size[2]}
        xs      == {x[1] : x \in corners}
        ys      == {x[2] : x \in corners}
    IN  <<Min(xs), Min(ys), Max(xs), Max(ys)>>

\* The bounds a band declares are the extreme coordinates of its pixel corners
\* (granule_attrs), for the band whose shape was compared with the record.
BoundsAreThePixels ==
    \A b \in DOMAIN attrs :
        b = Urls[1] => attrs[b].bbox = Extent(row.transform, staged[<<b>> \o LevelPath(0, b)])
=============================================================================
