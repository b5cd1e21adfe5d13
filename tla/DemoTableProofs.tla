-------------------------- MODULE DemoTableProofs --------------------------
(***************************************************************************)
(* Proofs about DemoTable, for every archive, query and size of the hash.  *)
(***************************************************************************)
EXTENDS DemoTable, SubsequenceProofs

(***************************************************************************)
(* The filter means what it is for.                                        *)
(***************************************************************************)

Known == (UNION Archives) \cup Later

\* Two boxes share a point exactly if they pass the four comparisons.
LEMMA BoxesMeet ==
    ASSUME NEW a \in Boxes, NEW b \in Boxes
    PROVE  Points(a) \cap Points(b) # {} <=>
               a[3] >= b[1] /\ a[1] <= b[3] /\ a[4] >= b[2] /\ a[2] <= b[4]
<1>1. /\ a[1] \in Nat /\ a[2] \in Nat /\ a[3] \in Nat /\ a[4] \in Nat /\ a[1] <= a[3] /\ a[2] <= a[4]
      /\ b[1] \in Nat /\ b[2] \in Nat /\ b[3] \in Nat /\ b[4] \in Nat /\ b[1] <= b[3] /\ b[2] <= b[4]
  BY DEF Boxes
<1>2. ASSUME Points(a) \cap Points(b) # {}
      PROVE  a[3] >= b[1] /\ a[1] <= b[3] /\ a[4] >= b[2] /\ a[2] <= b[4]
  <2>1. PICK p \in Points(a) : p \in Points(b)
    BY <1>2
  <2>2. p[1] \in a[1]..a[3] /\ p[1] \in b[1]..b[3] /\ p[2] \in a[2]..a[4] /\ p[2] \in b[2]..b[4]
    BY <2>1 DEF Points
  <2> QED BY <1>1, <2>2
<1>3. ASSUME a[3] >= b[1], a[1] <= b[3], a[4] >= b[2], a[2] <= b[4]
      PROVE  Points(a) \cap Points(b) # {}
  <2> DEFINE x == IF a[1] >= b[1] THEN a[1] ELSE b[1]
             y == IF a[2] >= b[2] THEN a[2] ELSE b[2]
  <2>1. x \in a[1]..a[3] /\ x \in b[1]..b[3] /\ y \in a[2]..a[4] /\ y \in b[2]..b[4]
    BY <1>1, <1>3
  <2> HIDE DEF x, y
  <2>2. <<x, y>> \in Points(a) /\ <<x, y>> \in Points(b)
    BY <2>1 DEF Points
  <2> QED BY <2>2
<1> QED BY <1>2, <1>3

\* An id starts with a tile and a dot exactly if the tile is the one it names.
LEMMA TileNamed ==
    ASSUME NEW id \in Seq(Nat), \E i \in DOMAIN id : id[i] = Dot, NEW tile \in Seq(Nat \ {Dot})
    PROVE  IsPrefix(TilePrefix(tile), id) <=> TileOf(id) = tile
<1> DEFINE n == Len(tile)
           p == TilePrefix(tile)
           First(i) == i \in DOMAIN id /\ id[i] = Dot /\ \A j \in 1..i - 1 : id[j] # Dot
<1>1. /\ tile \in Seq(Nat) /\ n \in Nat /\ Dot \in Nat
      /\ \A i \in 1..n : tile[i] \in Nat /\ tile[i] # Dot
  BY ElementOfSeq DEF Dot
<1>2. p \in Seq(Nat) /\ Len(p) = n + 1 /\ p[n + 1] = Dot /\ \A i \in 1..n : p[i] = tile[i]
  BY <1>1, AppendProperties DEF TilePrefix
<1> HIDE DEF p, n
<1>3. DOMAIN id = 1..Len(id) /\ Len(id) \in Nat
  OBVIOUS
<1>4. \A i, k \in DOMAIN id : First(i) /\ First(k) => i = k
  BY <1>3
<1>5. PICK f \in DOMAIN id : First(f)
  <2> DEFINE D == {i \in DOMAIN id : id[i] = Dot}
  <2>1. D \subseteq Nat
    BY <1>3
  <2>2. D # {}
    OBVIOUS
  <2>3. PICK f \in D : \A k \in D : f <= k
    <3> HIDE DEF D
    <3> QED BY <2>1, <2>2, Least
  <2>4. ASSUME NEW j \in 1..f - 1 PROVE id[j] # Dot
    <3>1. f \in DOMAIN id
      OBVIOUS
    <3>2. j \in DOMAIN id /\ ~(f <= j)
      BY <3>1, <1>3
    <3>3. id[j] = Dot => j \in D
      BY <3>2
    <3> HIDE DEF D
    <3> QED BY <3>2, <3>3, <2>3
  <2>5. f \in DOMAIN id /\ id[f] = Dot
    OBVIOUS
  <2>6. First(f)
    BY <2>4, <2>5
  <2> QED BY <2>5, <2>6
<1>6. FirstDot(id) = f
  <2> HIDE DEF First
  <2>1. f = CHOOSE i \in DOMAIN id : First(i)
    BY <1>4, <1>5, Zenon
  <2>2. FirstDot(id) = CHOOSE i \in DOMAIN id : First(i)
    BY DEF FirstDot, First
  <2> QED BY <2>1, <2>2
<1>7. f \in 1..Len(id) /\ id[f] = Dot /\ \A j \in 1..f - 1 : id[j] # Dot
  BY <1>3, <1>5
<1> HIDE DEF First
<1>8. /\ TileOf(id) \in Seq(Nat) /\ Len(TileOf(id)) = f - 1
      /\ \A i \in 1..f - 1 : TileOf(id)[i] = id[i]
  <2>1. TileOf(id) = SubSeq(id, 1, f - 1)
    BY <1>6 DEF TileOf
  <2>2. f - 1 \in 0..Len(id)
    BY <1>3, <1>7
  <2> QED BY <2>1, <2>2, SubSeqProperties
<1>9. IsPrefix(p, id) <=> n + 1 <= Len(id) /\ \A i \in 1..n + 1 : id[i] = p[i]
  <2>1. SubSeq(p, 1, n + 1) = p
    BY <1>2, <1>1
  <2>2. CASE n + 1 <= Len(id)
    <3> DEFINE q == SubSeq(id, 1, n + 1)
    <3>1. q \in Seq(Nat) /\ Len(q) = n + 1 /\ \A i \in 1..n + 1 : q[i] = id[i]
      BY <2>2, <1>1, <1>3, SubSeqProperties
    <3> HIDE DEF q
    <3>2. p = q <=> \A i \in 1..n + 1 : id[i] = p[i]
      <4>1. ASSUME \A i \in 1..n + 1 : id[i] = p[i] PROVE p = q
        BY <4>1, <3>1, <1>2, SeqEqual
      <4> QED BY <4>1, <3>1
    <3>3. IsPrefix(p, id) <=> p = q
      BY <2>1, <2>2, <1>2 DEF IsPrefix, q
    <3> QED BY <2>2, <3>2, <3>3
  <2>3. CASE ~(n + 1 <= Len(id))
    BY <2>3, <1>2 DEF IsPrefix
  <2> QED BY <2>2, <2>3
<1>10. ASSUME IsPrefix(p, id) PROVE TileOf(id) = tile
  <2>1. n + 1 \in 1..Len(id) /\ id[n + 1] = Dot /\ \A j \in 1..n : id[j] = tile[j] /\ id[j] # Dot
    BY <1>1, <1>2, <1>3, <1>9, <1>10
  <2>2. f = n + 1
    <3>1. ~(f < n + 1)
      BY <2>1, <1>1, <1>7
    <3>2. ~(n + 1 < f)
      BY <2>1, <1>1, <1>7
    <3> QED BY <3>1, <3>2, <1>1, <1>7
  <2>3. \A i \in 1..Len(TileOf(id)) : TileOf(id)[i] = tile[i]
    BY <2>1, <2>2, <1>1, <1>8, SMTT(40)
  <2>4. Len(TileOf(id)) = Len(tile)
    BY <2>2, <1>1, <1>8 DEF n
  <2> QED BY <2>3, <2>4, <1>1, <1>8, SeqEqual
<1>11. ASSUME TileOf(id) = tile PROVE IsPrefix(p, id)
  <2>1. f = n + 1
    BY <1>1, <1>7, <1>8, <1>11 DEF n
  <2>2. \A i \in 1..n : id[i] = tile[i]
    BY <2>1, <1>1, <1>8, <1>11
  <2>3. ASSUME NEW i \in 1..n + 1 PROVE id[i] = p[i]
    <3>1. CASE i = n + 1
      BY <3>1, <2>1, <1>2, <1>7
    <3>2. CASE i \in 1..n
      BY <3>2, <2>2, <1>2
    <3> QED BY <3>1, <3>2, <1>1
  <2> QED BY <2>1, <2>3, <1>7, <1>9
<1> QED BY <1>10, <1>11 DEF p

\* A record the filter lets through, with a transform, is one the caller wanted.
LEMMA FilterIsWanted ==
    ASSUME NEW r \in Known, NEW q \in Queries
    PROVE  Wanted(r, q) <=> GranuleFilter(r, q, FALSE) /\ r.transform
<1>1. r \in Record /\ \E i \in DOMAIN r.id : r.id[i] = Dot
  BY RecordAssumption DEF Known
<1>2. r.id \in Seq(Nat) /\ r.datetime \in Int /\ (r.box = << >> \/ r.box \in Boxes)
  BY <1>1 DEF Record
<1>3. /\ q.limit \in Nat /\ q.floor \in Int
      /\ q.bbox = Nil \/ q.bbox \in Boxes
      /\ q.tile = Nil \/ q.tile \in Seq(Nat \ {Dot})
      /\ q.datetime = Nil \/ q.datetime \in Int \X Int
  BY QueryAssumption
<1>4. q.bbox # Nil => (BoxTerms(r, q.bbox) <=> r.box # << >> /\ Points(r.box) \cap Points(q.bbox) # {})
  BY <1>2, <1>3, BoxesMeet DEF BoxTerms
<1>5. q.tile # Nil => (IsPrefix(TilePrefix(q.tile), r.id) <=> TileOf(r.id) = q.tile)
  BY <1>1, <1>2, <1>3, TileNamed
<1>6. DateTerms(r, q) <=> /\ r.datetime >= q.floor
                          /\ q.datetime # Nil => r.datetime \in q.datetime[1] .. q.datetime[2] - 1
  BY <1>2, <1>3 DEF DateTerms
<1> QED BY <1>4, <1>5, <1>6 DEF Wanted, GranuleFilter

(***************************************************************************)
(* open_archive and select_granules.                                       *)
(***************************************************************************)

\* The records of the opened archive that the filter lets through, the transform
\* aside.
Matching == {r \in table : GranuleFilter(r, query, FALSE)}

\* A scan of the table, cut off at the limit.
ScanOf(s) == s \subseteq Matching /\ Cardinality(s) = Min({query.limit, Cardinality(Matching)})

QInv ==
    /\ archive \subseteq Known /\ IsFiniteSet(archive)
    /\ table \subseteq Known /\ IsFiniteSet(table)
    /\ rows \subseteq table
    /\ call \in {"closed", "opened", "scanned", "returned"}
    /\ call \in {"closed", "opened"} => rows = {}
    /\ call = "scanned" => query \in Queries /\ ScanOf(rows)
    /\ call = "returned" => query \in Queries /\ \E s : ScanOf(s) /\ rows = {r \in s : r.transform}

\* What a scan yields depends on the table and the query alone.
LEMMA SameScan ==
    ASSUME UNCHANGED <<table, query>>
    PROVE  \A s : ScanOf(s)' <=> ScanOf(s)
<1>1. \A r : GranuleFilter(r, query, FALSE)' <=> GranuleFilter(r, query, FALSE)
  BY DEF GranuleFilter, DateTerms, BoxTerms, TilePrefix
<1>2. Matching' = Matching
  BY <1>1 DEF Matching
<1> QED BY <1>2 DEF ScanOf

\* No archive is open at first.
LEMMA SelectInitKeeps == SelectInit => QInv
<1> SUFFICES ASSUME SelectInit PROVE QInv
  OBVIOUS
<1>1. archive \subseteq Known /\ IsFiniteSet(archive)
  BY RecordAssumption DEF SelectInit, Known
<1>2. IsFiniteSet({})
  BY FS_EmptySet
<1> QED BY <1>1, <1>2 DEF SelectInit, QInv

\* The archive is opened, or its owner publishes a record.
LEMMA ArchiveKeeps == QInv /\ (OpenArchive \/ \E r \in Later : Publish(r)) => QInv'
<1>1. ASSUME QInv, OpenArchive PROVE QInv'
  <2>1. /\ call = "closed" /\ call' = "opened" /\ table' = archive
        /\ UNCHANGED <<archive, query, rows, calls>>
    BY <1>1 DEF OpenArchive
  <2> QED BY <1>1, <2>1 DEF QInv
<1>2. ASSUME QInv, NEW r \in Later, Publish(r) PROVE QInv'
  <2>1. archive' = archive \cup {r} /\ UNCHANGED <<table, query, rows, call, calls>>
    BY <1>2 DEF Publish
  <2>2. archive' \subseteq Known /\ IsFiniteSet(archive')
    <3>1. archive \subseteq Known /\ IsFiniteSet(archive)
      BY <1>2 DEF QInv
    <3>2. r \in Known
      BY <1>2 DEF Known
    <3> QED BY <2>1, <3>1, <3>2, FS_AddElement
  <2>3. \A s : ScanOf(s)' <=> ScanOf(s)
    BY <2>1, SameScan
  <2> QED BY <1>2, <2>1, <2>2, <2>3 DEF QInv
<1> QED BY <1>1, <1>2

\* One of two numbers is the smaller.
LEMMA MinOfTwo ==
    ASSUME NEW a \in Nat, NEW b \in Nat
    PROVE  Min({a, b}) = IF a <= b THEN a ELSE b
BY DEF Min

\* The scan, with the limit but without the transform condition.
LEMMA ScanKeeps ==
    ASSUME QInv, NEW q \in Queries, Scan(q)
    PROVE  QInv'
<1> DEFINE M == {r \in table : GranuleFilter(r, q, FALSE)}
<1>1. /\ call' = "scanned" /\ query' = q /\ UNCHANGED <<archive, table>>
      /\ rows' \in kSubset(Min({q.limit, Cardinality(M)}), M)
  BY DEF Scan
<1>2. Matching' = M
  <2>1. \A r : GranuleFilter(r, query, FALSE)' <=> GranuleFilter(r, q, FALSE)
    BY <1>1 DEF GranuleFilter, DateTerms, BoxTerms, TilePrefix
  <2> QED BY <1>1, <2>1 DEF Matching
<1>3. rows' \subseteq M /\ Cardinality(rows') = Min({q.limit, Cardinality(M)})
  BY <1>1 DEF kSubset
<1>4. M \subseteq table
  OBVIOUS
<1> HIDE DEF M
<1>5. ScanOf(rows)'
  BY <1>1, <1>2, <1>3 DEF ScanOf
<1> QED BY <1>1, <1>3, <1>4, <1>5 DEF QInv

\* The records without a transform are dropped.
LEMMA SelectKeeps == QInv /\ Select => QInv'
<1> SUFFICES ASSUME QInv, Select PROVE QInv'
  OBVIOUS
<1>1. /\ call = "scanned" /\ call' = "returned" /\ UNCHANGED <<archive, table, query, calls>>
      /\ rows' = {r \in rows : r.transform}
  BY DEF Select, DropNullProjTransform
<1>2. query \in Queries /\ ScanOf(rows)
  BY <1>1 DEF QInv
<1>3. PICK s : s = rows
  OBVIOUS
<1>4. ScanOf(s)' /\ rows' = {r \in s : r.transform}
  BY <1>1, <1>2, <1>3, SameScan
<1>5. \E t : ScanOf(t)' /\ rows' = {r \in t : r.transform}
  BY <1>4
<1> QED BY <1>1, <1>2, <1>5 DEF QInv

\* The caller takes the result.
LEMMA TakeKeeps == QInv /\ TakeResult => QInv'
BY DEF QInv, TakeResult

\* A step of the table leaves the selection alone.
LEMMA SameSelectKeeps == QInv /\ UNCHANGED selectVars => QInv'
<1> SUFFICES ASSUME QInv, UNCHANGED selectVars PROVE QInv'
  OBVIOUS
<1>1. UNCHANGED <<archive, table, query, rows, call, calls>>
  BY DEF selectVars
<1>2. \A s : ScanOf(s)' <=> ScanOf(s)
  BY <1>1, SameScan
<1> QED BY <1>1, <1>2 DEF QInv

\* What a call that returned has found.
LEMMA ReturnedScan ==
    ASSUME QInv, call = "returned", NEW s, ScanOf(s), rows = {r \in s : r.transform}
    PROVE  /\ query \in Queries /\ query.limit \in Nat
           /\ IsFiniteSet(Matching) /\ Cardinality(Matching) \in Nat
           /\ s \in SUBSET Matching /\ IsFiniteSet(s) /\ Cardinality(s) \in Nat
           /\ Cardinality(s) = IF query.limit <= Cardinality(Matching) THEN query.limit ELSE Cardinality(Matching)
           /\ \A r \in table : Wanted(r, query) <=> r \in Matching /\ r.transform
<1>1. query \in Queries /\ query.limit \in Nat
  BY QueryAssumption DEF QInv
<1>2. Matching \in SUBSET table /\ IsFiniteSet(table)
  BY DEF Matching, QInv
<1>3. IsFiniteSet(Matching) /\ Cardinality(Matching) \in Nat
  BY <1>2, FS_Subset, FS_CardinalityType
<1>4. s \in SUBSET Matching /\ IsFiniteSet(s) /\ Cardinality(s) \in Nat
  BY <1>3, FS_Subset, FS_CardinalityType DEF ScanOf
<1>5. Cardinality(s) = IF query.limit <= Cardinality(Matching) THEN query.limit ELSE Cardinality(Matching)
  BY <1>1, <1>3, MinOfTwo DEF ScanOf
<1>6. \A r \in table : Wanted(r, query) <=> r \in Matching /\ r.transform
  BY <1>1, FilterIsWanted DEF QInv, Matching
<1> QED BY <1>1, <1>3, <1>4, <1>5, <1>6

\* Every record returned was wanted.
LEMMA ReturnedWanted == QInv => SelectionIsSound
<1> SUFFICES ASSUME QInv, call = "returned"
             PROVE  rows \subseteq table /\ \A r \in rows : Wanted(r, query)
  BY DEF SelectionIsSound
<1>1. PICK s : ScanOf(s) /\ rows = {r \in s : r.transform}
  BY DEF QInv
<1>2. s \in SUBSET Matching /\ \A r \in table : Wanted(r, query) <=> r \in Matching /\ r.transform
  BY <1>1, ReturnedScan
<1> QED BY <1>1, <1>2 DEF QInv

\* Below the limit every record wanted was returned.
LEMMA ReturnedAll == QInv => SelectionIsComplete
<1> SUFFICES ASSUME QInv, call = "returned"
             PROVE  /\ Cardinality(rows) <= query.limit
                    /\ Cardinality(Matching) <= query.limit => {r \in table : Wanted(r, query)} \subseteq rows
  BY DEF SelectionIsComplete, Matching
<1>1. PICK s : ScanOf(s) /\ rows = {r \in s : r.transform}
  BY DEF QInv
<1>2. /\ query.limit \in Nat /\ IsFiniteSet(Matching) /\ Cardinality(Matching) \in Nat
      /\ s \in SUBSET Matching /\ IsFiniteSet(s) /\ Cardinality(s) \in Nat
      /\ Cardinality(s) = IF query.limit <= Cardinality(Matching) THEN query.limit ELSE Cardinality(Matching)
      /\ \A r \in table : Wanted(r, query) <=> r \in Matching /\ r.transform
  BY <1>1, ReturnedScan
<1>3. Cardinality(rows) <= query.limit
  <2>1. rows \in SUBSET s
    BY <1>1
  <2>2. Cardinality(rows) <= Cardinality(s) /\ Cardinality(rows) \in Nat
    BY <2>1, <1>2, FS_Subset, FS_CardinalityType
  <2> QED BY <2>2, <1>2
<1>4. ASSUME Cardinality(Matching) <= query.limit PROVE {r \in table : Wanted(r, query)} \subseteq rows
  <2>1. Cardinality(Matching) = Cardinality(s)
    BY <1>2, <1>4
  <2>2. Matching = s
    BY <2>1, <1>2, FS_Subset
  <2> QED BY <2>2, <1>1, <1>2
<1> QED BY <1>3, <1>4

\* The limit is filled if the records past the floor have their transform.
LEMMA ReturnedFull == QInv => LimitIsFilled
<1> SUFFICES ASSUME QInv, call = "returned", \A r \in table : r.datetime >= query.floor => r.transform
             PROVE  Cardinality(rows) = Min({query.limit, Cardinality({r \in table : Wanted(r, query)})})
  BY DEF LimitIsFilled
<1>1. PICK s : ScanOf(s) /\ rows = {r \in s : r.transform}
  BY DEF QInv
<1>2. s \in SUBSET Matching /\ \A r \in table : Wanted(r, query) <=> r \in Matching /\ r.transform
  BY <1>1, ReturnedScan
<1>3. \A r \in Matching : r \in table /\ r.transform
  BY DEF Matching, GranuleFilter, DateTerms
<1>4. rows = s /\ {r \in table : Wanted(r, query)} = Matching
  BY <1>1, <1>2, <1>3
<1> QED BY <1>1, <1>4 DEF ScanOf

\* The selection behaves as its invariant says, whatever becomes of the table.
THEOREM SelectionInvariant == Spec => []QInv
<1>1. Init => QInv
  BY SelectInitKeeps DEF Init
<1>2. QInv /\ [Next]_vars => QInv'
  <2> SUFFICES ASSUME QInv, [Next]_vars PROVE QInv'
    OBVIOUS
  <2>1. CASE SelectGranules
    BY <2>1, ArchiveKeeps, ScanKeeps, SelectKeeps DEF SelectGranules
  <2>2. CASE TakeResult
    BY <2>2, TakeKeeps
  <2>3. CASE UNCHANGED selectVars
    BY <2>3, SameSelectKeeps
  <2> QED BY <2>1, <2>2, <2>3 DEF Next, IngestSelection, DropSelection, vars
<1> QED BY <1>1, <1>2, PTL DEF Spec

\* Every record select_granules returns is one of the archive as it was opened,
\* and one the caller wanted, for every archive and query.
THEOREM ReturnsTheWanted == Spec => []SelectionIsSound
BY SelectionInvariant, ReturnedWanted, PTL

\* A selection below its limit has every record the caller wanted, whatever was
\* published since the archive was opened.
THEOREM ReturnsAllWanted == Spec => []SelectionIsComplete
BY SelectionInvariant, ReturnedAll, PTL

\* If the records past the floor have their transform, the limit is filled.
THEOREM FillsTheLimit == Spec => []LimitIsFilled
BY SelectionInvariant, ReturnedFull, PTL

(***************************************************************************)
(* Powers of two.                                                          *)
(***************************************************************************)

\* Doubling, from 1.
LEMMA PowersExist ==
    \A n \in Nat : \E f : f = [i \in 0..n |-> IF i = 0 THEN 1 ELSE 2 * f[i - 1]]
<1> DEFINE P == {n \in Nat : \E f : f = [i \in 0..n |-> IF i = 0 THEN 1 ELSE 2 * f[i - 1]]}
<1>1. 0 \in P
  <2> DEFINE f == [i \in 0..0 |-> 1]
  <2>1. f = [i \in 0..0 |-> IF i = 0 THEN 1 ELSE 2 * f[i - 1]]
    OBVIOUS
  <2> QED BY <2>1
<1>2. ASSUME NEW n \in Nat, n \in P PROVE n + 1 \in P
  <2>1. PICK f : f = [i \in 0..n |-> IF i = 0 THEN 1 ELSE 2 * f[i - 1]]
    BY <1>2
  <2> DEFINE g == [i \in 0..n + 1 |-> IF i <= n THEN f[i] ELSE 2 * f[n]]
  <2>2. ASSUME NEW i \in 0..n + 1 PROVE g[i] = IF i = 0 THEN 1 ELSE 2 * g[i - 1]
    <3>1. CASE i = 0
      BY <3>1, <2>1
    <3>2. CASE i # 0 /\ i <= n
      <4>1. g[i] = f[i] /\ g[i - 1] = f[i - 1]
        BY <3>2
      <4>2. f[i] = IF i = 0 THEN 1 ELSE 2 * f[i - 1]
        BY <2>1, <3>2
      <4> QED BY <4>1, <4>2, <3>2
    <3>3. CASE i = n + 1
      BY <3>3
    <3> QED BY <3>1, <3>2, <3>3
  <2>3. g = [i \in 0..n + 1 |-> IF i = 0 THEN 1 ELSE 2 * g[i - 1]]
    BY <2>2, Zenon
  <2>4. n + 1 \in Nat
    OBVIOUS
  <2> HIDE DEF g
  <2> QED BY <2>3, <2>4, Zenon
<1>3. \A n \in Nat : n \in P
  <2> HIDE DEF P
  <2> QED BY <1>1, <1>2, Induct
<1> QED BY <1>3

\* Powers is what its definition says.
LEMMA PowersUnfold ==
    ASSUME NEW n \in Nat
    PROVE  Powers(n)[0] = 1 /\ \A i \in 1..n : Powers(n)[i] = 2 * Powers(n)[i - 1]
<1>1. PICK f : f = [i \in 0..n |-> IF i = 0 THEN 1 ELSE 2 * f[i - 1]]
  BY PowersExist, Zenon
<1>2. Powers(n) = [i \in 0..n |-> IF i = 0 THEN 1 ELSE 2 * Powers(n)[i - 1]]
  BY <1>1 DEF Powers
<1>3. \A i \in 0..n : Powers(n)[i] = IF i = 0 THEN 1 ELSE 2 * Powers(n)[i - 1]
  BY <1>2, Zenon
<1>4. 0 \in 0..n /\ \A i \in 1..n : i \in 0..n /\ i # 0
  OBVIOUS
<1> QED BY <1>3, <1>4

\* The powers up to one exponent are the powers up to another.
LEMMA PowersAgree == \A i \in Nat : \A n \in Nat : i <= n => Powers(n)[i] = Pow2(i)
<1> DEFINE P == {i \in Nat : \A n \in Nat : i <= n => Powers(n)[i] = Powers(i)[i]}
<1>1. 0 \in P
  BY PowersUnfold
<1>2. ASSUME NEW i \in Nat, i \in P PROVE i + 1 \in P
  <2> SUFFICES ASSUME NEW n \in Nat, i + 1 <= n PROVE Powers(n)[i + 1] = Powers(i + 1)[i + 1]
    OBVIOUS
  <2>1. i + 1 \in Nat /\ i + 1 \in 1..n /\ i + 1 \in 1..i + 1 /\ i <= n /\ i <= i + 1 /\ (i + 1) - 1 = i
    OBVIOUS
  <2>2. Powers(n)[i + 1] = 2 * Powers(n)[i]
    BY <2>1, PowersUnfold
  <2>3. Powers(i + 1)[i + 1] = 2 * Powers(i + 1)[i]
    BY <2>1, PowersUnfold
  <2>4. Powers(n)[i] = Powers(i)[i] /\ Powers(i + 1)[i] = Powers(i)[i]
    BY <1>2, <2>1
  <2> QED BY <2>2, <2>3, <2>4
<1>3. \A i \in Nat : i \in P
  <2> HIDE DEF P
  <2> QED BY <1>1, <1>2, Induct
<1> QED BY <1>3 DEF Pow2

\* A power of two is twice the one before.
LEMMA Pow2Doubles == Pow2(0) = 1 /\ \A n \in Nat : Pow2(n + 1) = 2 * Pow2(n)
<1>1. Pow2(0) = 1
  BY PowersUnfold DEF Pow2
<1>2. ASSUME NEW n \in Nat PROVE Pow2(n + 1) = 2 * Pow2(n)
  <2>1. n + 1 \in Nat /\ n + 1 \in 1..n + 1 /\ n <= n + 1 /\ (n + 1) - 1 = n
    OBVIOUS
  <2>2. Powers(n + 1)[n + 1] = 2 * Powers(n + 1)[n]
    BY <2>1, PowersUnfold
  <2>3. Powers(n + 1)[n] = Pow2(n)
    BY <2>1, PowersAgree
  <2> QED BY <2>2, <2>3 DEF Pow2
<1> QED BY <1>1, <1>2

\* Powers of two are positive.
LEMMA Pow2Type == \A n \in Nat : Pow2(n) \in Nat \ {0}
<1> DEFINE P == {n \in Nat : Pow2(n) \in Nat \ {0}}
<1>1. 0 \in P
  BY Pow2Doubles
<1>2. ASSUME NEW n \in Nat, n \in P PROVE n + 1 \in P
  BY <1>2, Pow2Doubles
<1>3. \A n \in Nat : n \in P
  <2> HIDE DEF P
  <2> QED BY <1>1, <1>2, Induct
<1> QED BY <1>3

(***************************************************************************)
(* Division.                                                               *)
(***************************************************************************)

\* The quotient is between the bounds of its divisor's multiples.
LEMMA DivBounds ==
    ASSUME NEW x \in Nat, NEW q \in Nat \ {0}
    PROVE  x \div q \in Nat /\ (x \div q) * q <= x /\ x < (x \div q + 1) * q
OBVIOUS

\* Dividing keeps the order.
LEMMA DivOrder ==
    ASSUME NEW x \in Nat, NEW y \in Nat, NEW q \in Nat \ {0}, x \div q < y \div q
    PROVE  x < y
OBVIOUS

\* Division by twice a number.
LEMMA DivTwice ==
    ASSUME NEW x \in Nat, NEW q \in Nat \ {0}
    PROVE  x \div (2 * q) = (x \div q) \div 2
OBVIOUS

\* Division by eight times a number, one factor of two after the other.
LEMMA DivEight ==
    ASSUME NEW x \in Nat, NEW q \in Nat \ {0}
    PROVE  x \div (2 * (2 * (2 * q))) = (x \div q) \div 8
<1>1. 2 * q \in Nat \ {0} /\ 2 * (2 * q) \in Nat \ {0} /\ x \div q \in Nat
  BY DivBounds
<1>2. x \div (2 * (2 * (2 * q))) = (x \div (2 * (2 * q))) \div 2
  BY <1>1, DivTwice
<1>3. x \div (2 * (2 * q)) = (x \div (2 * q)) \div 2
  BY <1>1, DivTwice
<1>4. x \div (2 * q) = (x \div q) \div 2
  BY DivTwice
<1>5. \A y \in Nat : ((y \div 2) \div 2) \div 2 = y \div 8
  OBVIOUS
<1> QED BY <1>1, <1>2, <1>3, <1>4, <1>5

\* A digit in front of a number makes another number of every pair of them.
LEMMA DigitApart ==
    ASSUME NEW x \in Nat, NEW y \in Nat, NEW d \in 0..7, NEW e \in 0..7
    PROVE  (8 * x + d) \div 8 = x /\ (8 * x + d = 8 * y + e <=> x = y /\ d = e)
OBVIOUS

\* A number is its half and its last bit.
LEMMA HalfAndBit ==
    ASSUME NEW x \in Nat, NEW y \in Nat
    PROVE  x % 2 \in 0..1 /\ (x = y <=> x \div 2 = y \div 2 /\ x % 2 = y % 2)
OBVIOUS

(***************************************************************************)
(* The hash and its block.                                                 *)
(***************************************************************************)

\* The bits of the i-th level after a code f.
Coded(c, f, i) ==
    IF i = 0 THEN 0
    ELSE 8 * f[i - 1] + 4 * Bit(c[1], LevelBits - i)
             + 2 * Bit(c[2], LevelBits - i) + Bit(c[3], LevelBits - i)

\* Any number of levels can be coded.
LEMMA CodeExists ==
    ASSUME NEW c
    PROVE  \A n \in Nat : \E f : f = [i \in 0..n |-> Coded(c, f, i)]
<1> DEFINE P == {n \in Nat : \E f : f = [i \in 0..n |-> Coded(c, f, i)]}
<1>1. 0 \in P
  <2> DEFINE f == [i \in 0..0 |-> 0]
  <2>1. f = [i \in 0..0 |-> Coded(c, f, i)]
    BY DEF Coded
  <2> QED BY <2>1
<1>2. ASSUME NEW n \in Nat, n \in P PROVE n + 1 \in P
  <2>1. PICK f : f = [i \in 0..n |-> Coded(c, f, i)]
    BY <1>2
  <2> DEFINE g == [i \in 0..n + 1 |-> IF i <= n THEN f[i] ELSE Coded(c, f, n + 1)]
  <2>2. ASSUME NEW i \in 0..n + 1 PROVE g[i] = Coded(c, g, i)
    <3>1. CASE i = 0
      BY <3>1, <2>1 DEF Coded
    <3>2. CASE i # 0 /\ i <= n
      <4>1. g[i] = f[i] /\ g[i - 1] = f[i - 1]
        BY <3>2
      <4>2. f[i] = Coded(c, f, i)
        BY <2>1, <3>2
      <4> QED BY <4>1, <4>2, <3>2 DEF Coded
    <3>3. CASE i = n + 1
      <4>1. g[i] = Coded(c, f, i) /\ g[i - 1] = f[i - 1] /\ i # 0
        BY <3>3
      <4> HIDE DEF g
      <4> QED BY <4>1 DEF Coded
    <3> QED BY <3>1, <3>2, <3>3
  <2>3. g = [i \in 0..n + 1 |-> Coded(c, g, i)]
    BY <2>2, Zenon
  <2>4. n + 1 \in Nat
    OBVIOUS
  <2> HIDE DEF g
  <2> QED BY <2>3, <2>4, Zenon
<1>3. \A n \in Nat : n \in P
  <2> HIDE DEF P
  <2> QED BY <1>1, <1>2, Induct
<1> QED BY <1>3

\* The cells of the extent.
Grid == (0..Cells - 1) \X (0..Cells - 1) \X (0..Cells - 1)

\* The three bits of a level.
Digit(c, i) == 4 * Bit(c[1], LevelBits - i) + 2 * Bit(c[2], LevelBits - i) + Bit(c[3], LevelBits - i)

\* The coordinates of a cell are numbers below the number of cells.
LEMMA GridType ==
    ASSUME NEW c \in Grid
    PROVE  \A a \in 1..3 : c[a] \in Nat /\ c[a] < Pow2(LevelBits)
<1>1. Cells \in Nat \ {0}
  BY BitsAssumption, Pow2Type DEF Cells
<1>2. c[1] \in 0..Cells - 1 /\ c[2] \in 0..Cells - 1 /\ c[3] \in 0..Cells - 1
  BY DEF Grid
<1>3. \A a \in 1..3 : a = 1 \/ a = 2 \/ a = 3
  OBVIOUS
<1>4. \A x \in 0..Cells - 1 : x \in Nat /\ x < Cells
  BY <1>1
<1> QED BY <1>2, <1>3, <1>4 DEF Cells

\* The bits of a coordinate are 0 or 1, and a digit is below eight.
LEMMA DigitType ==
    ASSUME NEW c \in Grid, NEW i \in 1..LevelBits
    PROVE  Digit(c, i) \in 0..7 /\ \A a \in 1..3 : Bit(c[a], LevelBits - i) \in 0..1
<1>1. LevelBits - i \in Nat
  BY BitsAssumption
<1>2. ASSUME NEW a \in 1..3 PROVE Bit(c[a], LevelBits - i) \in 0..1
  <2>1. c[a] \in Nat /\ Pow2(LevelBits - i) \in Nat \ {0}
    BY <1>1, GridType, Pow2Type
  <2>2. c[a] \div Pow2(LevelBits - i) \in Nat
    BY <2>1, DivBounds
  <2> QED BY <2>2, HalfAndBit DEF Bit
<1>3. Digit(c, i) \in 0..7
  BY <1>2 DEF Digit
<1> QED BY <1>2, <1>3

\* Each level puts its digit after the code of the levels above.
LEMMA CodeUnfolds ==
    ASSUME NEW c \in Grid
    PROVE  /\ Interleaved(c)[0] = 0
           /\ \A i \in 0..LevelBits : Interleaved(c)[i] \in Nat
           /\ \A i \in 1..LevelBits : Interleaved(c)[i] = 8 * Interleaved(c)[i - 1] + Digit(c, i)
<1> DEFINE code == Interleaved(c)
           P    == {i \in Nat : i <= LevelBits => code[i] \in Nat}
<1>1. LevelBits \in Nat
  BY BitsAssumption
<1>2. PICK f : f = [i \in 0..LevelBits |-> Coded(c, f, i)]
  BY <1>1, CodeExists, Zenon
<1>3. code = [i \in 0..LevelBits |-> Coded(c, code, i)]
  BY <1>2 DEF Interleaved, Coded
<1>4. \A i \in 0..LevelBits : code[i] = Coded(c, code, i)
  BY <1>3, Zenon
<1> HIDE DEF code
<1>5. code[0] = 0
  BY <1>1, <1>4 DEF Coded
<1>6. ASSUME NEW i \in 1..LevelBits, code[i - 1] \in Nat
      PROVE  code[i] = 8 * code[i - 1] + Digit(c, i) /\ code[i] \in Nat
  <2>1. code[i] = 8 * code[i - 1] + 4 * Bit(c[1], LevelBits - i)
                     + 2 * Bit(c[2], LevelBits - i) + Bit(c[3], LevelBits - i)
    BY <1>4, <1>6 DEF Coded
  <2>2. Bit(c[1], LevelBits - i) \in 0..1 /\ Bit(c[2], LevelBits - i) \in 0..1 /\ Bit(c[3], LevelBits - i) \in 0..1
    BY DigitType
  <2> QED BY <2>1, <2>2, <1>6 DEF Digit
<1>7. 0 \in P
  BY <1>5
<1>8. ASSUME NEW i \in Nat, i \in P PROVE i + 1 \in P
  <2> SUFFICES ASSUME i + 1 <= LevelBits PROVE code[i + 1] \in Nat
    OBVIOUS
  <2>1. i + 1 \in 1..LevelBits /\ (i + 1) - 1 = i
    BY <1>1
  <2>2. code[i] \in Nat
    BY <1>8, <1>1
  <2> QED BY <2>1, <2>2, <1>6
<1>9. \A i \in Nat : i \in P
  <2> HIDE DEF P
  <2> QED BY <1>7, <1>8, Induct
<1>10. \A i \in 0..LevelBits : code[i] \in Nat
  BY <1>9
<1>11. \A i \in 1..LevelBits : i - 1 \in 0..LevelBits
  BY <1>1
<1> QED BY <1>5, <1>6, <1>10, <1>11 DEF code

\* Shifting the hash by the bits of s levels leaves the code of the levels above.
LEMMA ShiftedCode ==
    ASSUME NEW c \in Grid
    PROVE  \A s \in 0..LevelBits : Interleaved(c)[LevelBits] \div Pow2(3 * s) = Interleaved(c)[LevelBits - s]
<1> DEFINE code == Interleaved(c)
           P    == {s \in Nat : s <= LevelBits => code[LevelBits] \div Pow2(3 * s) = code[LevelBits - s]}
<1>1. LevelBits \in Nat
  BY BitsAssumption
<1>2. /\ \A i \in 0..LevelBits : code[i] \in Nat
      /\ \A i \in 1..LevelBits : code[i] = 8 * code[i - 1] + Digit(c, i) /\ Digit(c, i) \in 0..7
  BY CodeUnfolds, DigitType
<1> HIDE DEF code
<1>3. code[LevelBits] \in Nat
  BY <1>1, <1>2
<1>4. 0 \in P
  <2>1. 3 * 0 = 0 /\ LevelBits - 0 = LevelBits
    BY <1>1
  <2>2. code[LevelBits] \div 1 = code[LevelBits]
    BY <1>3
  <2> QED BY <2>1, <2>2, Pow2Doubles
<1>5. ASSUME NEW s \in Nat, s \in P PROVE s + 1 \in P
  <2> SUFFICES ASSUME s + 1 <= LevelBits
               PROVE  code[LevelBits] \div Pow2(3 * (s + 1)) = code[LevelBits - (s + 1)]
    OBVIOUS
  <2> DEFINE k == LevelBits - s
  <2>1. k \in 1..LevelBits /\ k - 1 = LevelBits - (s + 1) /\ k - 1 \in 0..LevelBits
    BY <1>1
  <2>2. code[LevelBits] \div Pow2(3 * s) = code[k]
    BY <1>1, <1>5
  <2>3. Pow2(3 * (s + 1)) = 2 * (2 * (2 * Pow2(3 * s)))
    <3>1. 3 * s \in Nat /\ 3 * s + 1 \in Nat /\ 3 * s + 2 \in Nat
          /\ 3 * (s + 1) = (3 * s + 2) + 1 /\ 3 * s + 2 = (3 * s + 1) + 1
      OBVIOUS
    <3> QED BY <3>1, Pow2Doubles
  <2>4. Pow2(3 * s) \in Nat \ {0}
    BY Pow2Type
  <2>5. code[LevelBits] \div Pow2(3 * (s + 1)) = code[k] \div 8
    BY <2>2, <2>3, <2>4, <1>3, DivEight
  <2>6. code[k] \div 8 = code[k - 1]
    BY <2>1, <1>2, DigitApart
  <2> QED BY <2>1, <2>5, <2>6
<1>6. \A s \in Nat : s \in P
  <2> HIDE DEF P
  <2> QED BY <1>4, <1>5, Induct
<1> QED BY <1>6 DEF code

\* Two cells have the same code down to a level exactly if they are in the same
\* box of that level.
LEMMA CodesAgree ==
    ASSUME NEW c \in Grid, NEW d \in Grid
    PROVE  \A i \in 0..LevelBits :
               Interleaved(c)[i] = Interleaved(d)[i] <=>
                   \A a \in 1..3 : c[a] \div Pow2(LevelBits - i) = d[a] \div Pow2(LevelBits - i)
<1> DEFINE x == Interleaved(c)
           y == Interleaved(d)
           Same(i) == \A a \in 1..3 : c[a] \div Pow2(LevelBits - i) = d[a] \div Pow2(LevelBits - i)
           P == {i \in Nat : i <= LevelBits => (x[i] = y[i] <=> Same(i))}
<1>1. LevelBits \in Nat
  BY BitsAssumption
<1>2. /\ x[0] = 0 /\ \A i \in 0..LevelBits : x[i] \in Nat
      /\ \A i \in 1..LevelBits : x[i] = 8 * x[i - 1] + Digit(c, i) /\ Digit(c, i) \in 0..7
  BY CodeUnfolds, DigitType
<1>3. /\ y[0] = 0 /\ \A i \in 0..LevelBits : y[i] \in Nat
      /\ \A i \in 1..LevelBits : y[i] = 8 * y[i - 1] + Digit(d, i) /\ Digit(d, i) \in 0..7
  BY CodeUnfolds, DigitType
<1>4. \A a \in 1..3 : c[a] \in Nat /\ c[a] < Pow2(LevelBits) /\ d[a] \in Nat /\ d[a] < Pow2(LevelBits)
  BY GridType
<1> HIDE DEF x, y
<1>5. 0 \in P
  <2>1. \A u \in Nat, q \in Nat \ {0} : u < q => u \div q = 0
    OBVIOUS
  <2>2. Pow2(LevelBits) \in Nat \ {0} /\ LevelBits - 0 = LevelBits
    BY <1>1, Pow2Type
  <2>3. Same(0)
    BY <2>1, <2>2, <1>4
  <2> HIDE DEF Same
  <2> QED BY <2>3, <1>2, <1>3
<1>6. ASSUME NEW i \in Nat, i \in P PROVE i + 1 \in P
  <2> SUFFICES ASSUME i + 1 <= LevelBits PROVE x[i + 1] = y[i + 1] <=> Same(i + 1)
    OBVIOUS
  <2> DEFINE k == LevelBits - (i + 1)
             u == [a \in 1..3 |-> c[a] \div Pow2(k)]
             v == [a \in 1..3 |-> d[a] \div Pow2(k)]
  <2>1. /\ i + 1 \in 1..LevelBits /\ (i + 1) - 1 = i /\ i \in 0..LevelBits
        /\ k \in Nat /\ LevelBits - i = k + 1
    BY <1>1
  <2>2. Pow2(k) \in Nat \ {0} /\ Pow2(LevelBits - i) = 2 * Pow2(k)
    BY <2>1, Pow2Type, Pow2Doubles
  <2>3. x[i] = y[i] <=> Same(i)
    <3> HIDE DEF Same
    <3> QED BY <1>6, <2>1
  <2> HIDE DEF k
  <2>4. \A a \in 1..3 : u[a] \in Nat /\ v[a] \in Nat
    BY <2>2, <1>4, DivBounds
  <2>5. \A a \in 1..3 : /\ c[a] \div Pow2(LevelBits - i) = u[a] \div 2
                        /\ d[a] \div Pow2(LevelBits - i) = v[a] \div 2
    BY <2>2, <1>4, DivTwice
  <2>6. \A a \in 1..3 : Bit(c[a], k) = u[a] % 2 /\ Bit(d[a], k) = v[a] % 2
    BY DEF Bit
  <2>7. Same(i + 1) <=> \A a \in 1..3 : u[a] = v[a]
    BY DEF k
  <2>8. Digit(c, i + 1) = 4 * (u[1] % 2) + 2 * (u[2] % 2) + (u[3] % 2)
    BY <2>6 DEF Digit, k
  <2>9. Digit(d, i + 1) = 4 * (v[1] % 2) + 2 * (v[2] % 2) + (v[3] % 2)
    BY <2>6 DEF Digit, k
  <2>10. Same(i) <=> \A a \in 1..3 : u[a] \div 2 = v[a] \div 2
    BY <2>5
  <2> HIDE DEF Same, u, v
  <2>11. x[i + 1] = y[i + 1] <=> x[i] = y[i] /\ Digit(c, i + 1) = Digit(d, i + 1)
    <3>1. x[i + 1] = 8 * x[i] + Digit(c, i + 1) /\ Digit(c, i + 1) \in 0..7 /\ x[i] \in Nat
      BY <2>1, <1>2
    <3>2. y[i + 1] = 8 * y[i] + Digit(d, i + 1) /\ Digit(d, i + 1) \in 0..7 /\ y[i] \in Nat
      BY <2>1, <1>3
    <3> QED BY <3>1, <3>2, DigitApart
  <2>12. Digit(c, i + 1) = Digit(d, i + 1) <=> \A a \in 1..3 : u[a] % 2 = v[a] % 2
    <3>1. \A a \in 1..3 : u[a] % 2 \in 0..1 /\ v[a] % 2 \in 0..1
      BY <2>4, HalfAndBit
    <3>2. /\ u[1] % 2 \in 0..1 /\ u[2] % 2 \in 0..1 /\ u[3] % 2 \in 0..1
          /\ v[1] % 2 \in 0..1 /\ v[2] % 2 \in 0..1 /\ v[3] % 2 \in 0..1
      BY <3>1
    <3>3. \A p1, p2, p3, q1, q2, q3 \in 0..1 :
              4 * p1 + 2 * p2 + p3 = 4 * q1 + 2 * q2 + q3 <=> p1 = q1 /\ p2 = q2 /\ p3 = q3
      OBVIOUS
    <3>4. Digit(c, i + 1) = Digit(d, i + 1) <=>
              u[1] % 2 = v[1] % 2 /\ u[2] % 2 = v[2] % 2 /\ u[3] % 2 = v[3] % 2
      BY <3>2, <3>3, <2>8, <2>9
    <3>5. \A a \in 1..3 : a = 1 \/ a = 2 \/ a = 3
      OBVIOUS
    <3>6. 1 \in 1..3 /\ 2 \in 1..3 /\ 3 \in 1..3
      OBVIOUS
    <3> QED BY <3>4, <3>5, <3>6
  <2>13. \A a \in 1..3 : u[a] = v[a] <=> u[a] \div 2 = v[a] \div 2 /\ u[a] % 2 = v[a] % 2
    BY <2>4, HalfAndBit
  <2> QED BY <2>3, <2>7, <2>10, <2>11, <2>12, <2>13
<1>7. \A i \in Nat : i \in P
  <2> HIDE DEF P
  <2> QED BY <1>5, <1>6, Induct
<1>8. \A i \in 0..LevelBits : x[i] = y[i] <=> Same(i)
  <2> HIDE DEF Same
  <2> QED BY <1>7, <1>1
<1> QED BY <1>8 DEF x, y

\* The rows a batch can have: records of the archive with a box.
Placed == {r \in Known : r.box # << >>}

\* The larger of two numbers.
LEMMA MaxOfTwo ==
    ASSUME NEW a \in Int, NEW b \in Int
    PROVE  Max({a, b}) = IF a >= b THEN a ELSE b
BY DEF Max

\* The smaller of two integers.
LEMMA MinOfInts ==
    ASSUME NEW a \in Int, NEW b \in Int
    PROVE  Min({a, b}) = IF a <= b THEN a ELSE b
BY DEF Min

\* A clamped coordinate is a cell, and one within the extent keeps its own.
LEMMA ClampedType ==
    ASSUME NEW v \in Int
    PROVE  /\ Clamped(v) \in 0..Cells - 1
           /\ v \in 0..Cells - 1 => Clamped(v) = v
           /\ v >= Cells => Clamped(v) = Cells - 1
<1>1. Cells \in Nat \ {0}
  BY BitsAssumption, Pow2Type DEF Cells
<1>2. Min({v, Cells - 1}) = IF v <= Cells - 1 THEN v ELSE Cells - 1
  BY <1>1, MinOfInts
<1> DEFINE m == Min({v, Cells - 1})
<1>3. m \in Int
  BY <1>1, <1>2
<1>4. m = IF v <= Cells - 1 THEN v ELSE Cells - 1
  BY <1>2
<1> HIDE DEF m
<1>5. Max({0, m}) = IF 0 >= m THEN 0 ELSE m
  BY <1>3, MaxOfTwo
<1>6. Clamped(v) = Max({0, m})
  BY DEF Clamped, m
<1> QED BY <1>1, <1>4, <1>5, <1>6

\* A row with a box lies in a cell.
LEMMA CellType ==
    ASSUME NEW r \in Placed
    PROVE  /\ r.datetime \in Int /\ r.box \in Boxes
           /\ Centre(r.box[1], r.box[3]) \in Nat /\ Centre(r.box[2], r.box[4]) \in Nat
           /\ Cell(r) \in Grid
<1>1. r.datetime \in Int /\ r.box \in Boxes
  BY RecordAssumption DEF Placed, Known, Record
<1>2. r.box[1] \in Nat /\ r.box[2] \in Nat /\ r.box[3] \in Nat /\ r.box[4] \in Nat
  BY <1>1 DEF Boxes
<1>3. Centre(r.box[1], r.box[3]) \in Nat /\ Centre(r.box[2], r.box[4]) \in Nat
  BY <1>2 DEF Centre
<1>4. Cell(r) \in Grid
  BY <1>1, <1>3, ClampedType DEF Cell, Grid
<1> QED BY <1>1, <1>3, <1>4

\* The levels of a block.
Depth == PARTITION_BITS \div 3

\* A block is the code of its levels, and rows are of one block exactly if they
\* are in one region.
LEMMA BlockIsBox ==
    ASSUME NEW r \in Placed, NEW t \in Placed
    PROVE  /\ StacHash(r) \in Nat /\ StacHashBlock(r) \in Nat
           /\ StacHashBlock(r) = StacHashBlock(t) <=> Region(r) = Region(t)
           /\ StacHashBlock(r) < StacHashBlock(t) => StacHash(r) < StacHash(t)
<1>1. /\ LevelBits \in Nat /\ Depth \in 0..LevelBits /\ LevelBits - Depth \in 0..LevelBits
      /\ 3 * LevelBits - PARTITION_BITS = 3 * (LevelBits - Depth)
      /\ LevelBits - (LevelBits - Depth) = Depth
      /\ 3 * LevelBits - PARTITION_BITS \in Nat
  BY BitsAssumption DEF Depth
<1>2. Cell(r) \in Grid /\ Cell(t) \in Grid
  BY CellType
<1> DEFINE Q == Pow2(3 * LevelBits - PARTITION_BITS)
<1>3. Q \in Nat \ {0}
  BY <1>1, Pow2Type
<1>4. StacHash(r) \in Nat /\ StacHash(t) \in Nat
  BY <1>1, <1>2, CodeUnfolds DEF StacHash
<1>5. StacHashBlock(r) = Interleaved(Cell(r))[Depth] /\ StacHashBlock(t) = Interleaved(Cell(t))[Depth]
  BY <1>1, <1>2, ShiftedCode DEF StacHashBlock, StacHash
<1>6. StacHashBlock(r) = StacHashBlock(t) <=>
          \A a \in 1..3 : Cell(r)[a] \div Side = Cell(t)[a] \div Side
  BY <1>1, <1>2, <1>5, CodesAgree DEF Side, Depth
<1>7. Region(r) = Region(t) <=> \A a \in 1..3 : Cell(r)[a] \div Side = Cell(t)[a] \div Side
  BY DEF Region
<1>8. StacHashBlock(r) = StacHash(r) \div Q /\ StacHashBlock(t) = StacHash(t) \div Q
  BY DEF StacHashBlock
<1> HIDE DEF Q
<1>9. StacHashBlock(r) \in Nat
  BY <1>3, <1>4, <1>8, DivBounds
<1>10. StacHashBlock(r) < StacHashBlock(t) => StacHash(r) < StacHash(t)
  BY <1>3, <1>4, <1>8, DivOrder
<1> QED BY <1>4, <1>6, <1>7, <1>9, <1>10

\* A granule is filed where it lies.
LEMMA LiesInRegion ==
    ASSUME NEW low \in Nat, NEW high \in Nat, low <= high
    PROVE  MostlyIn(low, high, Clamped(Centre(low, high)) \div Side)
<1> DEFINE m == Centre(low, high)
           v == Clamped(m)
           g == v \div Side
           a == g * Side
           b == (g + 1) * Side
<1>1. Side \in Nat \ {0} /\ Cells \in Nat \ {0}
  <2>1. LevelBits \in Nat /\ LevelBits - PARTITION_BITS \div 3 \in Nat
    BY BitsAssumption
  <2> QED BY <2>1, Pow2Type DEF Side, Cells
<1>2. m \in Nat /\ 2 * m <= low + high /\ low + high <= 2 * m + 1
  BY DEF Centre
<1> HIDE DEF m
<1>3. v \in 0..Cells - 1 /\ (m <= Cells - 1 => v = m) /\ (m >= Cells => v = Cells - 1)
  BY <1>1, <1>2, ClampedType
<1> HIDE DEF v
<1>4. g \in Nat /\ a <= v /\ v < b
  BY <1>1, <1>3, DivBounds
<1>5. a \in Nat /\ b \in Nat /\ b = a + Side
  BY <1>1, <1>4
<1> HIDE DEF g, a, b
<1> SUFFICES ASSUME high <= Cells, high - low <= Side
             PROVE  2 * (Min({high, b}) - Max({low, a})) >= high - low
  BY DEF MostlyIn, g, v, m, a, b
<1>6. Min({high, b}) = IF high <= b THEN high ELSE b
  BY <1>5, MinOfInts
<1>7. Max({low, a}) = IF low >= a THEN low ELSE a
  BY <1>5, MaxOfTwo
<1>8. CASE m <= Cells - 1
  BY <1>8, <1>1, <1>2, <1>3, <1>4, <1>5, <1>6, <1>7
<1>9. CASE m >= Cells
  BY <1>9, <1>1, <1>2, <1>3, <1>4, <1>5, <1>6, <1>7
<1> QED BY <1>8, <1>9, <1>1, <1>2

(***************************************************************************)
(* The files of a batch.                                                   *)
(***************************************************************************)

\* Rows with a box, by ascending hash.
Ascending(s) ==
    /\ s \in Seq(Placed)
    /\ \A i, j \in DOMAIN s : i < j => StacHash(s[i]) <= StacHash(s[j])

\* A file has rows of its block only, by ascending hash.
FileSound(f) ==
    /\ Ascending(f.rows) /\ f.rows # << >>
    /\ \A i \in DOMAIN f.rows : StacHashBlock(f.rows[i]) = f.block

\* No hash of g is inside the range of f, unless f has it.
Apart(f, g) ==
    \A h \in Hashes(g) \ Hashes(f) :
        (\A x \in Hashes(f) : h < x) \/ (\A x \in Hashes(f) : h > x)

\* The rows of a block are rows of the batch, in its order.
LEMMA PartKeeps ==
    ASSUME NEW s, Ascending(s), NEW b
    PROVE  /\ Ascending(PartOf(s, b))
           /\ \A i \in DOMAIN PartOf(s, b) : StacHashBlock(PartOf(s, b)[i]) = b
<1> DEFINE T == {r \in ToSet(s) : StacHashBlock(r) = b}
           P == PartOf(s, b)
<1>1. s \in Seq(Placed) /\ \A i, j \in DOMAIN s : i < j => StacHash(s[i]) <= StacHash(s[j])
  BY DEF Ascending
<1>2. P = Among(s, T)
  BY DEF PartOf
<1>3. \A r \in T : StacHashBlock(r) = b
  OBVIOUS
<1> HIDE DEF T, P
<1>4. P \in Seq(Placed) /\ KeptOf(P, s, T, Len(s))
  BY <1>1, <1>2, AmongKeeps
<1>5. \A k \in DOMAIN P : StacHashBlock(P[k]) = b
  BY <1>3, <1>4 DEF KeptOf
<1>6. ASSUME NEW k \in DOMAIN P, NEW l \in DOMAIN P, k < l PROVE StacHash(P[k]) <= StacHash(P[l])
  <2>1. PICK j, m \in 1..Len(s) : j < m /\ P[k] = s[j] /\ P[l] = s[m]
    BY <1>4, <1>6 DEF KeptOf
  <2>2. DOMAIN s = 1..Len(s)
    BY <1>1
  <2> QED BY <2>1, <2>2, <1>1
<1>7. Ascending(P)
  BY <1>4, <1>6 DEF Ascending
<1> QED BY <1>5, <1>7 DEF P

\* The k-th file of a block has the rows from its first on, FileRows at most.
LEMMA FileKeeps ==
    ASSUME NEW s, Ascending(s), NEW b, NEW k \in Nat, k * FileRows < Len(PartOf(s, b))
    PROVE  /\ FileOf(s, b, k) \in Seq(Placed) /\ FileOf(s, b, k) # << >>
           /\ \A i \in DOMAIN FileOf(s, b, k) :
                 /\ k * FileRows + i \in DOMAIN PartOf(s, b)
                 /\ i \in Nat \ {0} /\ k * FileRows + i <= (k + 1) * FileRows
                 /\ FileOf(s, b, k)[i] = PartOf(s, b)[k * FileRows + i]
<1> DEFINE P == PartOf(s, b)
           q == FileOf(s, b, k)
           from == k * FileRows
           upto == (k + 1) * FileRows
           m == Min({upto, Len(P)})
<1>1. P \in Seq(Placed)
  BY PartKeeps DEF Ascending
<1>2. FileRows \in Nat \ {0} /\ from \in Nat /\ upto \in Nat /\ upto = from + FileRows
  BY BitsAssumption
<1>3. q = SubSeq(P, from + 1, m)
  BY DEF FileOf
<1>4. from < Len(P)
  OBVIOUS
<1> HIDE DEF P, q, from, upto
<1>5. Len(P) \in Nat /\ DOMAIN P = 1..Len(P) /\ \A i \in 1..Len(P) : P[i] \in Placed
  BY <1>1
<1>6. m = IF upto <= Len(P) THEN upto ELSE Len(P)
  BY <1>2, <1>5, MinOfInts
<1> HIDE DEF m
<1>7. m \in Nat /\ from + 1 <= m /\ m <= Len(P) /\ m <= upto
  <2>1. Len(P) \in Nat
    BY <1>5
  <2>2. CASE upto <= Len(P)
    BY <2>1, <2>2, <1>2, <1>4, <1>6
  <2>3. CASE ~(upto <= Len(P))
    BY <2>1, <2>3, <1>2, <1>4, <1>6
  <2> QED BY <2>2, <2>3
<1>8. \A i \in from + 1..m : P[i] \in Placed
  BY <1>2, <1>5, <1>7
<1>9. /\ q \in Seq(Placed) /\ Len(q) = m - from
      /\ \A i \in 1..m - from : q[i] = P[from + i]
  <2>1. from + 1 \in Int /\ m \in Int
    BY <1>2, <1>7
  <2>2. /\ q \in Seq(Placed) /\ Len(q) = IF from + 1 <= m THEN m - (from + 1) + 1 ELSE 0
        /\ \A i \in 1..m - (from + 1) + 1 : q[i] = P[from + 1 + i - 1]
    BY <2>1, <1>3, <1>8, SubSeqProperties
  <2>3. m - (from + 1) + 1 = m - from /\ \A i \in 1..m - from : from + 1 + i - 1 = from + i
    BY <1>2, <1>7
  <2> QED BY <2>2, <2>3, <1>7
<1>10. DOMAIN q = 1..m - from /\ q # << >>
  <2>1. m - from \in Nat \ {0}
    BY <1>2, <1>7
  <2> QED BY <2>1, <1>9
<1>11. ASSUME NEW i \in DOMAIN q
       PROVE  from + i \in DOMAIN P /\ i \in Nat \ {0} /\ from + i <= upto /\ q[i] = P[from + i]
  BY <1>2, <1>5, <1>7, <1>9, <1>10
<1> QED BY <1>9, <1>10, <1>11 DEF P, q, from, upto

\* What FilesOf makes of a batch.
LEMMA FileShape ==
    ASSUME NEW s, Ascending(s), NEW n, NEW f \in FilesOf(s, n)
    PROVE  \E k \in Nat : /\ k * FileRows < Len(PartOf(s, f.block))
                          /\ f.rows = FileOf(s, f.block, k) /\ f.batch = n
                          /\ f = [block |-> f.block, batch |-> n, rows |-> FileOf(s, f.block, k)]
<1>1. PICK b : f \in { [block |-> b, batch |-> n, rows |-> FileOf(s, b, k)] :
                       k \in {k \in 0..Len(s) : k * FileRows < Len(PartOf(s, b))} }
  BY DEF FilesOf
<1>2. PICK k \in 0..Len(s) : k * FileRows < Len(PartOf(s, b))
                             /\ f = [block |-> b, batch |-> n, rows |-> FileOf(s, b, k)]
  BY <1>1
<1>3. k \in Nat
  OBVIOUS
<1> QED BY <1>2, <1>3

\* Each file is sound.
LEMMA FilesSound ==
    ASSUME NEW s, Ascending(s), NEW n, NEW f \in FilesOf(s, n)
    PROVE  FileSound(f) /\ f.batch = n
<1>1. PICK k \in Nat : k * FileRows < Len(PartOf(s, f.block)) /\ f.rows = FileOf(s, f.block, k) /\ f.batch = n
  BY FileShape
<1> DEFINE P == PartOf(s, f.block)
           q == f.rows
           from == k * FileRows
<1>2. /\ q \in Seq(Placed) /\ q # << >>
      /\ \A i \in DOMAIN q : from + i \in DOMAIN P /\ i \in Nat \ {0} /\ q[i] = P[from + i]
  BY <1>1, FileKeeps
<1>3. /\ \A i, j \in DOMAIN P : i < j => StacHash(P[i]) <= StacHash(P[j])
      /\ \A i \in DOMAIN P : StacHashBlock(P[i]) = f.block
  BY PartKeeps DEF Ascending
<1>4. from \in Nat
  BY BitsAssumption
<1> HIDE DEF P, from
<1>5. \A i \in DOMAIN q : StacHashBlock(q[i]) = f.block
  BY <1>2, <1>3
<1>6. \A i, j \in DOMAIN q : i < j => StacHash(q[i]) <= StacHash(q[j])
  BY <1>2, <1>3, <1>4
<1> QED BY <1>1, <1>2, <1>5, <1>6 DEF FileSound, Ascending

\* One file of a batch after another has no smaller hash.
LEMMA FilesInOrder ==
    ASSUME NEW s, Ascending(s), NEW n, NEW f \in FilesOf(s, n), NEW g \in FilesOf(s, n), f # g
    PROVE  \/ \A i \in DOMAIN f.rows, j \in DOMAIN g.rows : StacHash(f.rows[i]) <= StacHash(g.rows[j])
           \/ \A i \in DOMAIN f.rows, j \in DOMAIN g.rows : StacHash(f.rows[i]) >= StacHash(g.rows[j])
<1>1. FileSound(f) /\ FileSound(g)
  BY FilesSound
<1>2. /\ \A i \in DOMAIN f.rows : f.rows[i] \in Placed /\ StacHashBlock(f.rows[i]) = f.block
      /\ \A j \in DOMAIN g.rows : g.rows[j] \in Placed /\ StacHashBlock(g.rows[j]) = g.block
  BY <1>1, ElementOfSeq DEF FileSound, Ascending
<1>3. /\ \A i \in DOMAIN f.rows : StacHash(f.rows[i]) \in Nat /\ f.block \in Nat
      /\ \A j \in DOMAIN g.rows : StacHash(g.rows[j]) \in Nat /\ g.block \in Nat
  BY <1>2, BlockIsBox
<1>4. CASE f.block < g.block
  BY <1>2, <1>3, <1>4, BlockIsBox
<1>5. CASE g.block < f.block
  BY <1>2, <1>3, <1>5, BlockIsBox
<1>6. CASE f.block = g.block
  <2>1. PICK k \in Nat : /\ k * FileRows < Len(PartOf(s, f.block)) /\ f.rows = FileOf(s, f.block, k)
                         /\ f = [block |-> f.block, batch |-> n, rows |-> FileOf(s, f.block, k)]
    BY FileShape
  <2>2. PICK l \in Nat : /\ l * FileRows < Len(PartOf(s, f.block)) /\ g.rows = FileOf(s, f.block, l)
                         /\ g = [block |-> f.block, batch |-> n, rows |-> FileOf(s, f.block, l)]
    BY <1>6, FileShape
  <2>3. k # l
    BY <2>1, <2>2
  <2> DEFINE P == PartOf(s, f.block)
  <2>4. \A i, j \in DOMAIN P : i < j => StacHash(P[i]) <= StacHash(P[j])
    BY PartKeeps DEF Ascending
  <2>5. \A i \in DOMAIN f.rows : /\ k * FileRows + i \in DOMAIN P /\ i \in Nat \ {0}
                                 /\ k * FileRows + i <= (k + 1) * FileRows
                                 /\ f.rows[i] = P[k * FileRows + i]
    BY <2>1, FileKeeps
  <2>6. \A j \in DOMAIN g.rows : /\ l * FileRows + j \in DOMAIN P /\ j \in Nat \ {0}
                                 /\ l * FileRows + j <= (l + 1) * FileRows
                                 /\ g.rows[j] = P[l * FileRows + j]
    BY <2>2, FileKeeps
  <2> HIDE DEF P
  <2>7. \A a, b \in Nat : a < b => (a + 1) * FileRows <= b * FileRows
    BY BitsAssumption
  <2>8. k * FileRows \in Nat /\ l * FileRows \in Nat /\ (k + 1) * FileRows \in Nat /\ (l + 1) * FileRows \in Nat
    BY BitsAssumption
  <2>9. CASE k < l
    <3>1. ASSUME NEW i \in DOMAIN f.rows, NEW j \in DOMAIN g.rows
          PROVE  k * FileRows + i < l * FileRows + j
      BY <2>5, <2>6, <2>7, <2>8, <2>9
    <3> QED BY <3>1, <2>4, <2>5, <2>6
  <2>10. CASE l < k
    <3>1. ASSUME NEW i \in DOMAIN f.rows, NEW j \in DOMAIN g.rows
          PROVE  l * FileRows + j < k * FileRows + i
      BY <2>5, <2>6, <2>7, <2>8, <2>10
    <3>2. ASSUME NEW i \in DOMAIN f.rows, NEW j \in DOMAIN g.rows
          PROVE  StacHash(g.rows[j]) <= StacHash(f.rows[i])
      BY <3>1, <2>4, <2>5, <2>6
    <3> QED BY <3>2, <1>3
  <2> QED BY <2>3, <2>9, <2>10
<1>7. f.block \in Nat /\ g.block \in Nat
  <2>1. DOMAIN f.rows # {} /\ DOMAIN g.rows # {}
    BY <1>1 DEF FileSound, Ascending
  <2> QED BY <2>1, <1>3
<1> QED BY <1>4, <1>5, <1>6, <1>7

\* The files of a batch have ranges of their own.
LEMMA FilesApart ==
    ASSUME NEW s, Ascending(s), NEW n, NEW f \in FilesOf(s, n), NEW g \in FilesOf(s, n)
    PROVE  Apart(f, g)
<1>1. CASE f = g
  BY <1>1 DEF Apart
<1>2. CASE f # g
  <2>1. FileSound(f) /\ FileSound(g)
    BY FilesSound
  <2>2. /\ \A i \in DOMAIN f.rows : StacHash(f.rows[i]) \in Nat
        /\ \A j \in DOMAIN g.rows : StacHash(g.rows[j]) \in Nat
    BY <2>1, ElementOfSeq, BlockIsBox DEF FileSound, Ascending
  <2>3. (\A x \in Hashes(f), h \in Hashes(g) : x <= h) \/ (\A x \in Hashes(f), h \in Hashes(g) : x >= h)
    BY <1>2, FilesInOrder DEF Hashes
  <2>4. \A x \in Hashes(f), h \in Hashes(g) : x \in Nat /\ h \in Nat
    BY <2>2 DEF Hashes
  <2> QED BY <2>3, <2>4 DEF Apart
<1> QED BY <1>1, <1>2

(***************************************************************************)
(* The granules table.                                                     *)
(***************************************************************************)

LInv ==
    /\ batches \in Nat
    /\ \A f \in files : FileSound(f) /\ f.batch \in 1..batches
    /\ \A f, g \in files : f.batch = g.batch => Apart(f, g)

\* A batch appends the files of its rows, sorted.
LEMMA BatchSorted ==
    ASSUME QInv, IngestBatch(rows)
    PROVE  \E s : Ascending(s) /\ files' = files \cup FilesOf(s, batches + 1)
<1>1. PICK keep \in SUBSET (rows \ Filed) \ {{}} :
          \E sorted \in SortedByHash(keep) : files' = files \cup FilesOf(sorted, batches + 1)
  BY DEF IngestBatch
<1>2. PICK s \in SortedByHash(keep) : files' = files \cup FilesOf(s, batches + 1)
  BY <1>1
<1>3. rows \subseteq Placed
  BY DEF IngestBatch, QInv, Placed
<1>4. IsFiniteSet(keep)
  <2>1. keep \in SUBSET table /\ IsFiniteSet(table)
    BY DEF QInv
  <2> QED BY <2>1, FS_Subset
<1>5. Cardinality(keep) \in Nat
  BY <1>4, FS_CardinalityType
<1>6. s \in [1..Cardinality(keep) -> Placed]
      /\ \A i, j \in DOMAIN s : i < j => StacHash(s[i]) <= StacHash(s[j])
  BY <1>2, <1>3 DEF SortedByHash, SetToSeqs
<1>7. s \in Seq(Placed)
  BY <1>5, <1>6
<1> QED BY <1>2, <1>6, <1>7 DEF Ascending

\* The files there are and those of one more batch.
LEMMA BatchKeeps == QInv /\ LInv /\ IngestBatch(rows) => LInv'
<1> SUFFICES ASSUME QInv, LInv, IngestBatch(rows) PROVE LInv'
  OBVIOUS
<1>1. PICK s : Ascending(s) /\ files' = files \cup FilesOf(s, batches + 1)
  BY BatchSorted
<1>2. batches \in Nat /\ batches' = batches + 1
  BY DEF LInv, IngestBatch
<1> DEFINE new == FilesOf(s, batches + 1)
<1>3. \A f \in new : FileSound(f) /\ f.batch = batches + 1
  BY <1>1, FilesSound
<1>4. \A f, g \in new : Apart(f, g)
  BY <1>1, FilesApart
<1>5. files' = files \cup new
  BY <1>1
<1> HIDE DEF new
<1>6. \A f \in files' : FileSound(f) /\ f.batch \in 1..batches'
  BY <1>2, <1>3, <1>5 DEF LInv
<1>7. ASSUME NEW f \in files', NEW g \in files', f.batch = g.batch PROVE Apart(f, g)
  <2>1. CASE f \in files /\ g \in files
    BY <2>1, <1>7 DEF LInv
  <2>2. CASE f \in new /\ g \in new
    BY <2>2, <1>4
  <2>3. \A x \in files, y \in new : x.batch # y.batch
    BY <1>2, <1>3 DEF LInv
  <2> QED BY <2>1, <2>2, <2>3, <1>5, <1>7
<1> QED BY <1>2, <1>6, <1>7 DEF LInv

\* Files are as ingest_batch and the partition spec make them.
THEOREM LayoutInvariant == Spec => []LInv
<1>1. Init => LInv
  BY DEF Init, LayoutInit, LInv
<1>2. QInv /\ LInv /\ [Next]_vars => LInv'
  <2> SUFFICES ASSUME QInv, LInv, [Next]_vars PROVE LInv'
    OBVIOUS
  <2>1. CASE IngestBatch(rows)
    BY <2>1, BatchKeeps
  <2>2. CASE UNCHANGED <<files, batches>>
    BY <2>2 DEF LInv
  <2>3. IngestBatch(rows) \/ UNCHANGED <<files, batches>>
    BY DEF Next, SelectGranules, layoutVars, CreateTable, IngestSelection, DropSelection, vars
  <2> QED BY <2>1, <2>2, <2>3
<1> QED BY <1>1, <1>2, SelectionInvariant, PTL DEF Spec

\* The least and the greatest hash of a file are those of its first and last row.
LEMMA RangeOfFile ==
    ASSUME NEW f, FileSound(f)
    PROVE  /\ Min(Hashes(f)) \in Hashes(f) /\ Max(Hashes(f)) \in Hashes(f)
<1> DEFINE q == f.rows
           n == Len(q)
<1>1. q \in Seq(Placed) /\ n \in Nat \ {0} /\ DOMAIN q = 1..n
  BY DEF FileSound, Ascending
<1>2. \A i \in 1..n : StacHash(q[i]) \in Nat
  BY <1>1, BlockIsBox
<1>3. \A i, j \in 1..n : i < j => StacHash(q[i]) <= StacHash(q[j])
  BY <1>1 DEF FileSound, Ascending
<1>4. Hashes(f) = {StacHash(q[i]) : i \in 1..n}
  BY <1>1 DEF Hashes
<1> HIDE DEF q, n
<1>5. 1 \in 1..n /\ n \in 1..n /\ \A i \in 1..n : (i = 1 \/ 1 < i) /\ (i = n \/ i < n)
  BY <1>1
<1>6. \A i \in 1..n : StacHash(q[1]) <= StacHash(q[i]) /\ StacHash(q[n]) >= StacHash(q[i])
  BY <1>2, <1>3, <1>5
<1>7. StacHash(q[1]) \in Hashes(f) /\ \A y \in Hashes(f) : StacHash(q[1]) <= y
  BY <1>4, <1>5, <1>6
<1>8. StacHash(q[n]) \in Hashes(f) /\ \A y \in Hashes(f) : StacHash(q[n]) >= y
  BY <1>4, <1>5, <1>6
<1>9. Min(Hashes(f)) \in Hashes(f)
  BY <1>7 DEF Min
<1>10. Max(Hashes(f)) \in Hashes(f)
  BY <1>8 DEF Max
<1> QED BY <1>9, <1>10

\* A file of the granules table holds a contiguous range of its batch's hashes,
\* in ascending order, for every batch, file size and number of levels.
THEOREM SortsIntoRanges == Spec => []FilesAreRanges
<1>1. LInv => FilesAreRanges
  <2> SUFFICES ASSUME LInv, NEW f \in files
               PROVE  /\ \A i \in 1..Len(f.rows) - 1 : StacHash(f.rows[i]) <= StacHash(f.rows[i + 1])
                      /\ \A g \in files : f.batch = g.batch =>
                            \A h \in Hashes(g) \ Hashes(f) : h < Min(Hashes(f)) \/ h > Max(Hashes(f))
    BY DEF FilesAreRanges
  <2>1. FileSound(f)
    BY DEF LInv
  <2>2. ASSUME NEW i \in 1..Len(f.rows) - 1 PROVE StacHash(f.rows[i]) <= StacHash(f.rows[i + 1])
    <3>1. i \in DOMAIN f.rows /\ i + 1 \in DOMAIN f.rows /\ i < i + 1
      BY <2>1 DEF FileSound, Ascending
    <3> QED BY <3>1, <2>1 DEF FileSound, Ascending
  <2>3. ASSUME NEW g \in files, f.batch = g.batch, NEW h \in Hashes(g) \ Hashes(f)
        PROVE  h < Min(Hashes(f)) \/ h > Max(Hashes(f))
    <3>1. Apart(f, g)
      BY <2>3 DEF LInv
    <3>2. (\A x \in Hashes(f) : h < x) \/ (\A x \in Hashes(f) : h > x)
      BY <3>1 DEF Apart
    <3> QED BY <3>2, <2>1, RangeOfFile
  <2> QED BY <2>2, <2>3
<1> QED BY <1>1, LayoutInvariant, PTL

\* A partition is one box of space and time, and such a box one partition: the
\* shifted hash of with_stac_hash tells exactly the regions of its level apart,
\* for every number of levels and of partition bits.
THEOREM BlocksAreBoxes == Spec => []PartitionsAreBoxes
<1>1. LInv => PartitionsAreBoxes
  <2> SUFFICES ASSUME LInv, NEW f \in files, NEW g \in files,
                      NEW i \in DOMAIN f.rows, NEW j \in DOMAIN g.rows
               PROVE  f.block = g.block <=> Region(f.rows[i]) = Region(g.rows[j])
    BY DEF PartitionsAreBoxes
  <2>1. FileSound(f) /\ FileSound(g)
    BY DEF LInv
  <2>2. f.rows[i] \in Placed /\ StacHashBlock(f.rows[i]) = f.block
    BY <2>1, ElementOfSeq DEF FileSound, Ascending
  <2>3. g.rows[j] \in Placed /\ StacHashBlock(g.rows[j]) = g.block
    BY <2>1, ElementOfSeq DEF FileSound, Ascending
  <2> QED BY <2>2, <2>3, BlockIsBox
<1> QED BY <1>1, LayoutInvariant, PTL

\* Half of a granule's box, at least, is in the region of its partition.
THEOREM FilesWhereItLies == Spec => []FiledWhereItLies
<1>1. LInv => FiledWhereItLies
  <2> SUFFICES ASSUME LInv, NEW f \in files, NEW i \in DOMAIN f.rows
               PROVE  /\ MostlyIn(f.rows[i].box[1], f.rows[i].box[3], Region(f.rows[i])[2])
                      /\ MostlyIn(f.rows[i].box[2], f.rows[i].box[4], Region(f.rows[i])[3])
    BY DEF FiledWhereItLies
  <2>1. PICK r : r = f.rows[i]
    OBVIOUS
  <2>2. r \in Placed
    BY <2>1, ElementOfSeq DEF LInv, FileSound, Ascending
  <2>3. r.box[1] \in Nat /\ r.box[2] \in Nat /\ r.box[3] \in Nat /\ r.box[4] \in Nat
        /\ r.box[1] <= r.box[3] /\ r.box[2] <= r.box[4]
    BY <2>2, CellType DEF Boxes
  <2>4. /\ Region(r)[2] = Clamped(Centre(r.box[1], r.box[3])) \div Side
        /\ Region(r)[3] = Clamped(Centre(r.box[2], r.box[4])) \div Side
    BY DEF Region, Cell
  <2>5. MostlyIn(r.box[1], r.box[3], Region(r)[2]) /\ MostlyIn(r.box[2], r.box[4], Region(r)[3])
    BY <2>3, <2>4, LiesInRegion
  <2> QED BY <2>1, <2>5
<1> QED BY <1>1, LayoutInvariant, PTL
=============================================================================
