------------------------------ MODULE Clustering ------------------------------
(***************************************************************************)
(* How the granules table is laid out: the spatio-temporal hash of hash.py *)
(* and its block, the schema, sort order and partition spec of store.py,   *)
(* and the sort of ingest.py before an append.                             *)
(*                                                                         *)
(* Scaled down: the hash has LevelBits bits for each of datetime, x and y, *)
(* where the code has 21, and coordinates are counted in cells.  A row has *)
(* a datetime and a box, empty if the record has none.                     *)
(***************************************************************************)
EXTENDS Integers, Sequences, SequencesExt, FiniteSets, FiniteSetsExt, Subsequences

CONSTANTS
    LevelBits,            \* 21
    PARTITION_BITS,       \* 12, four levels of the octree
    ARRAY_PATH_FIELD_ID,  \* 1000
    Sources,              \* the field ids an archive schema may use
    FileRows,             \* how many rows the writer puts in a file at most
    MaxBatches            \* bound: batches ingested

ASSUME BitsAssumption ==
    /\ LevelBits \in Nat \ {0} /\ FileRows \in Nat \ {0}
    /\ PARTITION_BITS \in 0..3 * LevelBits /\ PARTITION_BITS % 3 = 0

VARIABLES
    schema,  \* the field ids of the granules table, in order; empty before it is there
    files,   \* its data files: [block, rows, batch]
    batches  \* how many batches were ingested

layoutVars == <<schema, files, batches>>

STAC_HASH_FIELD_ID       == ARRAY_PATH_FIELD_ID + 1
STAC_HASH_BLOCK_FIELD_ID == ARRAY_PATH_FIELD_ID + 2

(***************************************************************************)
(* hash.py                                                                 *)
(***************************************************************************)

\* The powers of two up to the n-th.
Powers(n) == LET power[i \in 0..n] == IF i = 0 THEN 1 ELSE 2 * power[i - 1] IN power
Pow2(n)   == Powers(n)[n]

Cells == Pow2(LevelBits)

\* The cell a coordinate falls in; out of the extent, the nearest one.
Clamped(v) == Max({0, Min({v, Cells - 1})})

\* A fault for the checks to catch: the corner of the box is hashed.
CornerOf(low, high) == low

\* The centre of a box along an axis.
Centre(low, high) == (low + high) \div 2

\* Where a row lies: datetime, x, y.
Cell(row) ==
    <<Clamped(row.datetime), Clamped(Centre(row.box[1], row.box[3])),
      Clamped(Centre(row.box[2], row.box[4]))>>

Bit(n, i) == (n \div Pow2(i)) % 2

\* The bits of three coordinates interleaved, the i high-order ones of each.
Interleaved(c) ==
    LET code[i \in 0..LevelBits] ==
            IF i = 0 THEN 0
            ELSE 8 * code[i - 1] + 4 * Bit(c[1], LevelBits - i)
                     + 2 * Bit(c[2], LevelBits - i) + Bit(c[3], LevelBits - i)
    IN  code

\* Hasher.hash_all_clamped
StacHash(row) == Interleaved(Cell(row))[LevelBits]

\* A fault for the checks to catch: the shift leaves one bit too many.
BlockOffByOne(row) == StacHash(row) \div Pow2(3 * LevelBits - PARTITION_BITS - 1)

\* stac_hash_block: the hash shifted down to its PARTITION_BITS top bits.
StacHashBlock(row) == StacHash(row) \div Pow2(3 * LevelBits - PARTITION_BITS)

(***************************************************************************)
(* store.py                                                                *)
(***************************************************************************)

\* granules_schema raises ValueError.
SourceRefused(source) == Max(source) >= ARRAY_PATH_FIELD_ID

GranulesSchema(source) ==
    SetToSortSeq(source, <)
        \o <<ARRAY_PATH_FIELD_ID, STAC_HASH_FIELD_ID, STAC_HASH_BLOCK_FIELD_ID>>

\* ensure_table's transaction, for a source schema that is accepted.
CreateTable(source) ==
    /\ schema = << >> /\ ~SourceRefused(source)
    /\ schema' = GranulesSchema(source)
    /\ UNCHANGED <<files, batches>>

\* A fault for the checks to catch: the rows are appended as they came.
AsKept(keep) == SetToSeqs(keep)

\* ingest_batch: the rows by ascending hash, as granules_sort_order declares;
\* rows of one hash in any order.
SortedByHash(keep) ==
    {s \in SetToSeqs(keep) : \A i, j \in DOMAIN s : i < j => StacHash(s[i]) <= StacHash(s[j])}

\* The rows of a block, and the k-th file of them.
PartOf(rows, b)    == Among(rows, {r \in ToSet(rows) : StacHashBlock(r) = b})
FileOf(rows, b, k) == SubSeq(PartOf(rows, b), k * FileRows + 1,
                             Min({(k + 1) * FileRows, Len(PartOf(rows, b))}))

\* PyIceberg splits what is appended by the partition field, which
\* granules_partition_spec makes the block, and each part into files.
FilesOf(rows, batch) ==
    UNION { { [block |-> b, batch |-> batch, rows |-> FileOf(rows, b, k)] :
              k \in {k \in 0..Len(rows) : k * FileRows < Len(PartOf(rows, b))} } :
            b \in {StacHashBlock(r) : r \in ToSet(rows)} }

\* The granules already in the store.
Filed == UNION {ToSet(f.rows) : f \in files}

\* ingest_batch, keeping the rows that are new and could be virtualized, at least
\* one.  A row without a box fails the batch (with_stac_hash).
IngestBatch(batch) ==
    /\ schema # << >> /\ batches < MaxBatches
    /\ \A r \in batch : r.box # << >>
    /\ batches' = batches + 1
    /\ \E keep \in SUBSET (batch \ Filed) \ {{}} :
          \E sorted \in SortedByHash(keep) :
             files' = files \cup FilesOf(sorted, batches + 1)
    /\ UNCHANGED schema

LayoutInit == schema = << >> /\ files = {} /\ batches = 0

(***************************************************************************)
(* Properties.                                                             *)
(***************************************************************************)

Hashes(f) == {StacHash(f.rows[i]) : i \in DOMAIN f.rows}

\* A file holds a contiguous range of its batch's hashes, in ascending order: no
\* other file of the batch has a hash strictly inside its range, so the min and
\* max in the file's statistics bound something (granules_sort_order, and the
\* sort in ingest_batch).
FilesAreRanges ==
    \A f \in files :
        /\ \A i \in 1..Len(f.rows) - 1 : StacHash(f.rows[i]) <= StacHash(f.rows[i + 1])
        /\ \A g \in files : f.batch = g.batch =>
              \A h \in Hashes(g) \ Hashes(f) : h < Min(Hashes(f)) \/ h > Max(Hashes(f))

\* The coarse cell of a row, one side of it a block's.
Side        == Pow2(LevelBits - PARTITION_BITS \div 3)
Region(row) == [d \in 1..3 |-> Cell(row)[d] \div Side]

\* A partition is one box of space and time, and such a box one partition,
\* whatever batches its rows came in: a bbox or datetime predicate prunes
\* (granules_partition_spec and the shift in with_stac_hash).
PartitionsAreBoxes ==
    \A f, g \in files : \A i \in DOMAIN f.rows, j \in DOMAIN g.rows :
        f.block = g.block <=> Region(f.rows[i]) = Region(g.rows[j])

\* Half of an interval, at least, lies in the region of its row, if it is within
\* the extent and no longer than a region's side.
MostlyIn(low, high, region) ==
    high <= Cells /\ high - low <= Side =>
        2 * (Min({high, (region + 1) * Side}) - Max({low, region * Side})) >= high - low

\* A granule is filed where it lies: half of its box at least is in the region of
\* its partition, along each axis (with_stac_hash takes the centre, since "a
\* corner would place the hash in a cell the granule only touches").
FiledWhereItLies ==
    \A f \in files : \A i \in DOMAIN f.rows :
        LET row == f.rows[i]
        IN  /\ MostlyIn(row.box[1], row.box[3], Region(row)[2])
            /\ MostlyIn(row.box[2], row.box[4], Region(row)[3])
=============================================================================
