------------------------------- MODULE Selection -------------------------------
(***************************************************************************)
(* source.py: selecting granule records from the archive.                  *)
(*                                                                         *)
(* The archive publishes new metadata under one name; open_archive reads   *)
(* it once.  select_granules pushes a filter and a limit into the scan and *)
(* drops records without a transform from what comes back.                 *)
(*                                                                         *)
(* An id is the sequence of its characters after "HLS.L30.": the tile's, a *)
(* dot, written 0, and the rest.  A box is <<xmin, ymin, xmax, ymax>>, or  *)
(* empty for a record that has none.                                       *)
(***************************************************************************)
EXTENDS Integers, Sequences, SequencesExt, FiniteSets, FiniteSetsExt

CONSTANTS
    Archives, \* the sets of records the archive may hold at first
    Later,    \* the records its owner may publish later
    Queries,  \* the arguments select_granules may be called with
    DATETIME_FLOOR,
    MaxCalls, \* bound: calls of select_granules
    Nil

Dot    == 0
Boxes  == {b \in Nat \X Nat \X Nat \X Nat : b[1] <= b[3] /\ b[2] <= b[4]}
Record == [id : Seq(Nat), datetime : Int, box : {<< >>} \cup Boxes, transform : BOOLEAN]

\* An archive holds finitely many records, whose ids have the form above.
ASSUME RecordAssumption ==
    /\ (UNION Archives) \cup Later \subseteq Record
    /\ \A a \in Archives : IsFiniteSet(a)
    /\ \A r \in (UNION Archives) \cup Later : \E i \in DOMAIN r.id : r.id[i] = Dot

\* A tile's name has no dot.
ASSUME QueryAssumption ==
    \A q \in Queries :
        /\ q.limit \in Nat /\ q.floor \in Int
        /\ q.bbox = Nil \/ q.bbox \in Boxes
        /\ q.tile = Nil \/ q.tile \in Seq(Nat \ {Dot})
        /\ q.datetime = Nil \/ q.datetime \in Int \X Int

VARIABLES
    archive,   \* the records the archive's latest metadata resolves to
    table,     \* the StaticTable: the records as they were when it was opened
    query,     \* the arguments of the call under way
    rows,      \* what the scan returned, then what select_granules returned
    call,      \* where it is
    calls

selectVars == <<archive, table, query, rows, call, calls>>

\* open_archive: StaticTable.from_metadata reads the latest metadata.
OpenArchive ==
    /\ call = "closed"
    /\ table' = archive
    /\ call' = "opened"
    /\ UNCHANGED <<archive, query, rows, calls>>

\* The archive's owner publishes another record.
Publish(r) ==
    /\ r \notin archive
    /\ archive' = archive \cup {r}
    /\ UNCHANGED <<table, query, rows, call, calls>>

(***************************************************************************)
(* granule_filter                                                          *)
(***************************************************************************)

\* A fault for the checks to catch: the tile is compared without its dot.
TilePrefixBare(tile) == tile

\* f"HLS.L30.{tile}."
TilePrefix(tile) == Append(tile, Dot)

\* A fault for the checks to catch: records that only touch the box are left out.
BoxTermsStrict(r, b) ==
    /\ r.box # << >>
    /\ r.box[3] > b[1] /\ r.box[1] < b[3]
    /\ r.box[4] > b[2] /\ r.box[2] < b[4]

\* The four comparisons of a bounding box, which no null passes.
BoxTerms(r, b) ==
    /\ r.box # << >>
    /\ r.box[3] >= b[1] /\ r.box[1] <= b[3]
    /\ r.box[4] >= b[2] /\ r.box[2] <= b[4]

\* A fault for the checks to catch: a caller's range replaces the floor.
RangeForFloor(r, q) ==
    IF q.datetime = Nil THEN r.datetime >= q.floor
    ELSE r.datetime >= q.datetime[1] /\ r.datetime < q.datetime[2]

\* The floor, and the caller's range if there is one.
DateTerms(r, q) ==
    /\ r.datetime >= q.floor
    /\ q.datetime # Nil => r.datetime >= q.datetime[1] /\ r.datetime < q.datetime[2]

GranuleFilter(r, q, requireTransform) ==
    /\ DateTerms(r, q)
    /\ requireTransform => r.transform
    /\ q.bbox # Nil => BoxTerms(r, q.bbox)
    /\ q.tile # Nil => IsPrefix(TilePrefix(q.tile), r.id)

(***************************************************************************)
(* select_granules                                                         *)
(***************************************************************************)

\* The scan without the transform condition: as many matching records as the
\* limit lets through, whichever files it reads first.
Scan(q) ==
    /\ call = "opened" /\ calls < MaxCalls
    /\ LET matching == {r \in table : GranuleFilter(r, q, FALSE)} IN
       \E s \in kSubset(Min({q.limit, Cardinality(matching)}), matching) : rows' = s
    /\ query' = q
    /\ calls' = calls + 1
    /\ call' = "scanned"
    /\ UNCHANGED <<archive, table>>

\* A fault for the checks to catch: the records are returned as scanned.
KeepAll(s) == s

\* _drop_null_proj_transform
DropNullProjTransform(s) == {r \in s : r.transform}

Select ==
    /\ call = "scanned"
    /\ rows' = DropNullProjTransform(rows)
    /\ call' = "returned"
    /\ UNCHANGED <<archive, table, query, calls>>

\* The caller takes the result, and may call again on the same table.
TakeResult ==
    /\ call = "returned"
    /\ call' = "opened" /\ rows' = {} /\ query' = Nil
    /\ UNCHANGED <<archive, table, calls>>

SelectInit ==
    /\ archive \in Archives
    /\ table = {} /\ rows = {}
    /\ query = Nil
    /\ call = "closed"
    /\ calls = 0

\* The steps of open_archive and select_granules, and of the archive's owner.
SelectGranules ==
    \/ OpenArchive
    \/ \E r \in Later : Publish(r)
    \/ \E q \in Queries : Scan(q)
    \/ Select

(***************************************************************************)
(* Properties.                                                             *)
(***************************************************************************)

\* The criterion in terms of what it is for: boxes that share a point, the tile
\* the id names, a date no older than the floor and in the caller's range, and a
\* transform to write into the attributes.
Points(b)    == (b[1]..b[3]) \X (b[2]..b[4])
FirstDot(id) == CHOOSE i \in DOMAIN id : id[i] = Dot /\ \A j \in 1..i - 1 : id[j] # Dot
TileOf(id)   == SubSeq(id, 1, FirstDot(id) - 1)
Wanted(r, q) ==
    /\ q.bbox # Nil => r.box # << >> /\ Points(r.box) \cap Points(q.bbox) # {}
    /\ q.tile # Nil => TileOf(r.id) = q.tile
    /\ r.datetime >= q.floor
    /\ q.datetime # Nil => r.datetime \in q.datetime[1] .. q.datetime[2] - 1
    /\ r.transform

\* Every record returned is one of the archive as it was opened and one the
\* caller wanted, its transform included, although the scan was run without that
\* condition (select_granules).
SelectionIsSound ==
    call = "returned" => rows \subseteq table /\ \A r \in rows : Wanted(r, query)

\* Below the limit the selection is complete for the archive as it was opened,
\* whatever is published meanwhile, and never exceeds the limit.
SelectionIsComplete ==
    call = "returned" =>
        /\ Cardinality(rows) <= query.limit
        /\ Cardinality({r \in table : GranuleFilter(r, query, FALSE)}) <= query.limit =>
               {r \in table : Wanted(r, query)} \subseteq rows

\* The limit is filled if it can be, as long as no record past the floor lacks
\* its transform: the records the archive has without one are all older, and
\* must not use up the scan's limit (the docstring of select_granules).
LimitIsFilled ==
    /\ call = "returned"
    /\ \A r \in table : r.datetime >= query.floor => r.transform
    => Cardinality(rows) =
           Min({query.limit, Cardinality({r \in table : Wanted(r, query)})})
=============================================================================
