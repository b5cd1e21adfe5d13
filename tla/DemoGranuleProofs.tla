------------------------- MODULE DemoGranuleProofs -------------------------
(***************************************************************************)
(* Proofs about DemoGranule, for every list of bands, every pyramid and    *)
(* every header.                                                           *)
(***************************************************************************)
EXTENDS DemoGranule, SubsequenceProofs

(***************************************************************************)
(* The bands of a record, and the paths below them.                        *)
(***************************************************************************)

Records ==
    { r \in [bands : SUBSET ToSet(Bands), outside : SUBSET ToSet(Bands),
             shape : Shapes, transform : Transforms] : r.outside \subseteq r.bands }

Levels == [shape : Nat \X Nat, vars : Nat]

Distinct ==
    /\ Urls \in Seq(ToSet(Bands))
    /\ \A i, j \in 1..Len(Urls) : Urls[i] = Urls[j] => i = j

\* The URLs of a record: a list of bands, each once.
LEMMA UrlsAreDistinct == Distinct
<1>1. Urls \in Seq(ToSet(Bands)) /\ KeptOf(Urls, Bands, row.bands, Len(Bands))
  BY BandsAssumption, AmongKeeps DEF Urls
<1>2. DOMAIN Urls = 1..Len(Urls) /\ DOMAIN Bands = 1..Len(Bands) /\ Len(Urls) \in Nat
  BY <1>1, BandsAssumption
<1>3. ASSUME NEW i \in 1..Len(Urls), NEW j \in 1..Len(Urls), i < j, Urls[i] = Urls[j] PROVE FALSE
  <2>0. i \in DOMAIN Urls /\ j \in DOMAIN Urls
    BY <1>2
  <2>1. PICK k \in 1..Len(Bands), m \in 1..Len(Bands) : k < m /\ Urls[i] = Bands[k] /\ Urls[j] = Bands[m]
    BY <1>1, <1>3, <2>0, Zenon DEF KeptOf
  <2>2. k = m
    BY <2>1, <1>2, <1>3, BandsAssumption DEF IsInjective
  <2> QED BY <2>1, <2>2
<1> QED BY <1>1, <1>2, <1>3 DEF Distinct

\* The path of a level's array.
PathOf(b, l) == <<b, MULTISCALES_GROUP, l, b>>

\* It is the band's name followed by the path below the band group.
LEMMA PathIs == ASSUME NEW b, NEW l PROVE <<b>> \o LevelPath(l, b) = PathOf(b, l)
<1> DEFINE B == {b, l, MULTISCALES_GROUP}
           p == LevelPath(l, b)
           q == PathOf(b, l)
           h == <<b>>
<1>1. h \in Seq(B) /\ Len(h) = 1 /\ h[1] = b
  OBVIOUS
<1>2. p \in Seq(B) /\ Len(p) = 3 /\ p[1] = MULTISCALES_GROUP /\ p[2] = l /\ p[3] = b
  BY DEF LevelPath
<1>3. q \in Seq(B) /\ Len(q) = 4 /\ q[1] = b /\ q[2] = MULTISCALES_GROUP /\ q[3] = l /\ q[4] = b
  BY DEF PathOf
<1> HIDE DEF B, p, q, h
<1>4. /\ h \o p \in Seq(B) /\ Len(h \o p) = 4
      /\ (h \o p)[1] = b /\ (h \o p)[2] = p[1] /\ (h \o p)[3] = p[2] /\ (h \o p)[4] = p[3]
  <2>1. /\ h \o p \in Seq(B) /\ Len(h \o p) = Len(h) + Len(p)
        /\ \A i \in 1..Len(h) + Len(p) : (h \o p)[i] = IF i <= Len(h) THEN h[i] ELSE p[i - Len(h)]
    BY <1>1, <1>2, ConcatProperties
  <2>2. \A i \in 1..4 : (h \o p)[i] = IF i <= 1 THEN h[i] ELSE p[i - 1]
    BY <2>1, <1>1, <1>2
  <2> QED BY <2>1, <2>2, <1>1, <1>2
<1>5. PICK s : s = h \o p
  OBVIOUS
<1>6. s \in Seq(B) /\ Len(s) = 4 /\ \A i \in 1..4 : s[i] = q[i]
  <2>1. \A i \in 1..4 : i = 1 \/ i = 2 \/ i = 3 \/ i = 4
    OBVIOUS
  <2> QED BY <1>2, <1>3, <1>4, <1>5, <2>1
<1>7. s = q
  BY <1>3, <1>6, SeqEqual
<1> QED BY <1>5, <1>7 DEF p, q, h

\* Its first part is the band, and the rest the path below the band group.
LEMMA PathParts == \A b, l : Head(PathOf(b, l)) = b /\ Tail(PathOf(b, l)) = LevelPath(l, b)
BY DEF LevelPath, PathOf

\* Different bands and different levels have different paths.
LEMMA PathsDiffer ==
    ASSUME NEW b, NEW l, NEW c, NEW m, PathOf(b, l) = PathOf(c, m)
    PROVE  b = c /\ l = m
BY DEF PathOf

(***************************************************************************)
(* The invariant of write_granule: nothing has been written, or every band *)
(* was opened and found right; and what is staged is what comes before the *)
(* part to be written next.                                                *)
(***************************************************************************)

Fresh == staged = << >> /\ attrs = << >> /\ at = [band |-> 1, level |-> 1]

Refused == \E b \in ToSet(Urls) : b \in row.outside

AllRead == ~Refused /\ DOMAIN datasets = ToSet(Urls) /\ shape = row.shape /\ Urls # << >>

Steps ==
    /\ phase \in {"idle", "start", "open", "write", "returned", "raised"}
    /\ phase \in {"idle", "start"} => Fresh /\ datasets = << >> /\ shape = Nil
    /\ phase # "idle" => row \in Records
    /\ phase = "open" => Fresh /\ ~Refused /\ Urls # << >>
    /\ phase \in {"write", "returned"} => AllRead
    /\ phase = "returned" => at.band = Len(Urls) + 1
    /\ Fresh \/ AllRead

\* The bands opened so far are the first ones.
Opened ==
    /\ IsFiniteSet(DOMAIN datasets)
    /\ Cardinality(DOMAIN datasets) <= Len(Urls)
    /\ DOMAIN datasets = {Urls[i] : i \in 1..Cardinality(DOMAIN datasets)}
    /\ \A b \in DOMAIN datasets : datasets[b] \in Pyramids /\ datasets[b] # << >>
    /\ shape = IF Cardinality(DOMAIN datasets) = 0 THEN Nil ELSE datasets[Urls[1]][1].shape

\* Level l of the i-th band comes before the part to be written next.
Before(i, l) == i < at.band \/ (i = at.band /\ l < at.level)

Part(i, l) == i \in 1..Len(Urls) /\ l \in 1..Len(datasets[Urls[i]])

Progress ==
    /\ at \in [band : 1..Len(Urls) + 1, level : Nat \ {0}]
    /\ at.level = 1 \/ Part(at.band, at.level - 1)
    /\ \A x : x \in DOMAIN staged <=> \E i, l \in Nat : Part(i, l) /\ Before(i, l) /\ x = PathOf(Urls[i], l - 1)
    /\ \A i, l \in Nat : Part(i, l) /\ Before(i, l) => staged[PathOf(Urls[i], l - 1)] = datasets[Urls[i]][l].shape
    /\ DOMAIN attrs = {Urls[i] : i \in 1..at.band - 1}
    /\ \A b \in DOMAIN attrs : attrs[b] = GranuleAttrs(Len(datasets[b]), b)

WInv == Steps /\ (phase # "idle" => Opened /\ Progress)

\* Before anything is written, what is staged is nothing.
LEMMA FreshIsProgress == Fresh => Progress
<1> SUFFICES ASSUME Fresh PROVE Progress
  OBVIOUS
<1>1. Len(Urls) \in Nat
  BY UrlsAreDistinct DEF Distinct
<1>2. at.band = 1 /\ at.level = 1 /\ at \in [band : 1..Len(Urls) + 1, level : Nat \ {0}]
  BY <1>1 DEF Fresh
<1>3. DOMAIN staged = {} /\ DOMAIN attrs = {}
  BY DEF Fresh
<1>4. \A i, l \in Nat : Part(i, l) => ~Before(i, l)
  BY <1>1, <1>2 DEF Part, Before
<1>5. 1..at.band - 1 = {}
  BY <1>2
<1> QED BY <1>2, <1>3, <1>4, <1>5 DEF Progress

NoneOpen == datasets = << >> /\ shape = Nil

\* No band is open at first.
LEMMA NoneOpened == NoneOpen => Opened
<1> SUFFICES ASSUME NoneOpen PROVE Opened
  OBVIOUS
<1>1. DOMAIN datasets = {} /\ shape = Nil
  BY DEF NoneOpen
<1>2. IsFiniteSet({}) /\ Cardinality({}) = 0
  BY FS_EmptySet
<1>3. Len(Urls) \in Nat /\ 1..0 = {}
  BY UrlsAreDistinct DEF Distinct
<1> QED BY <1>1, <1>2, <1>3 DEF Opened

\* The record keeps its URLs as long as it is the record.
LEMMA SameUrls ==
    ASSUME UNCHANGED row
    PROVE  Urls' = Urls
BY DEF Urls, Among, AmongFirst

\* A step that leaves the locals and the session alone.
LEMMA SameLocals ==
    ASSUME UNCHANGED <<row, datasets, shape, at, staged, attrs>>
    PROVE  /\ Fresh' <=> Fresh
           /\ Refused' <=> Refused
           /\ AllRead' <=> AllRead
           /\ Opened' <=> Opened
           /\ Progress' <=> Progress
<1>1. Urls' = Urls
  BY SameUrls
<1>2. (Fresh' <=> Fresh) /\ (Refused' <=> Refused)
  BY <1>1 DEF Fresh, Refused
<1>3. AllRead' <=> AllRead
  BY <1>1, <1>2 DEF AllRead
<1>4. Opened' <=> Opened
  BY <1>1 DEF Opened
<1>5. \A i, l : (Part(i, l)' <=> Part(i, l)) /\ (Before(i, l)' <=> Before(i, l))
  BY <1>1 DEF Part, Before
<1>6. \A n, b : GranuleAttrs(n, b)' = GranuleAttrs(n, b)
  BY DEF GranuleAttrs
<1>7. Progress' <=> Progress
  BY <1>1, <1>5, <1>6 DEF Progress
<1> QED BY <1>2, <1>3, <1>4, <1>7

\* A call that raises keeps the invariant, whatever it staged.
LEMMA RaiseKeeps == WInv /\ phase # "idle" /\ Raise => WInv'
<1> SUFFICES ASSUME WInv, phase # "idle", Raise PROVE WInv'
  OBVIOUS
<1>1. UNCHANGED <<row, datasets, shape, at, staged, attrs>> /\ phase' = "raised"
  BY DEF Raise
<1>2. (Fresh' <=> Fresh) /\ (AllRead' <=> AllRead) /\ (Opened' <=> Opened) /\ (Progress' <=> Progress)
  BY <1>1, SameLocals, Zenon
<1>3. Steps'
  BY <1>1, <1>2 DEF WInv, Steps
<1> QED BY <1>1, <1>2, <1>3 DEF WInv

\* write_granule has not been called.
LEMMA WInitKeeps == WriteInit => WInv
BY DEF WriteInit, WInv, Steps, Fresh

\* write_granule is called.
LEMMA CallKeeps == WInv /\ CallWriteGranule => WInv'
<1> SUFFICES ASSUME WInv, CallWriteGranule PROVE WInv'
  OBVIOUS
<1>1. phase = "idle" /\ phase' = "start" /\ row' \in Records /\ UNCHANGED <<datasets, shape, at, staged, attrs>>
  BY DEF CallWriteGranule, Records
<1>2. Fresh' /\ datasets' = << >> /\ shape' = Nil
  BY <1>1 DEF WInv, Steps, Fresh
<1>3. Opened' /\ Progress'
  <2>1. Fresh' => Progress'
    BY FreshIsProgress, PTL
  <2>2. NoneOpen' => Opened'
    BY NoneOpened, PTL
  <2> QED BY <1>2, <2>1, <2>2 DEF NoneOpen
<1>4. Steps'
  BY <1>1, <1>2 DEF Steps
<1> QED BY <1>3, <1>4 DEF WInv

\* The record is looked at before a COG is.
LEMMA AcceptKeeps == WInv /\ AcceptRow => WInv'
<1> SUFFICES ASSUME WInv, AcceptRow PROVE WInv'
  OBVIOUS
<1>1. phase = "start" /\ phase' = "open" /\ UNCHANGED <<row, datasets, shape, at, staged, attrs>>
  BY DEF AcceptRow
<1>2. /\ (Fresh' <=> Fresh) /\ (AllRead' <=> AllRead) /\ (Opened' <=> Opened)
      /\ (Progress' <=> Progress) /\ (Refused' <=> Refused)
  BY <1>1, SameLocals, Zenon
<1>3. ~Refused /\ Urls # << >> /\ Urls' = Urls
  BY <1>1, SameUrls DEF AcceptRow, Refused
<1>4. Steps'
  BY <1>1, <1>2, <1>3 DEF WInv, Steps
<1> QED BY <1>1, <1>2, <1>4 DEF WInv

\* One more band is opened.
LEMMA OpenKeeps ==
    ASSUME WInv, NEW p \in Pyramids, OpenPyramid(p)
    PROVE  WInv'
<1> DEFINE n == Cardinality(DOMAIN datasets)
           b == Urls[n + 1]
<1>1. /\ phase = "open" /\ phase' = "open" /\ UNCHANGED <<row, at, staged, attrs>>
      /\ p # << >> /\ n < Len(Urls)
      /\ datasets' = [c \in DOMAIN datasets \cup {b} |-> IF c = b THEN p ELSE datasets[c]]
      /\ shape' = IF shape = Nil THEN p[1].shape ELSE shape
  BY DEF OpenPyramid, Opening, NextBand
<1>2. /\ IsFiniteSet(DOMAIN datasets) /\ n \in Nat
      /\ DOMAIN datasets = {Urls[i] : i \in 1..n}
      /\ \A c \in DOMAIN datasets : datasets[c] \in Pyramids /\ datasets[c] # << >>
      /\ shape = IF n = 0 THEN Nil ELSE datasets[Urls[1]][1].shape
  BY <1>1, FS_CardinalityType DEF WInv, Opened
<1>3. Urls' = Urls /\ Distinct /\ Len(Urls) \in Nat
  BY <1>1, SameUrls, UrlsAreDistinct DEF Distinct
<1>4. b \notin DOMAIN datasets
  BY <1>1, <1>2, <1>3 DEF Distinct
<1>5. DOMAIN datasets' = DOMAIN datasets \cup {b}
  BY <1>1
<1>6. IsFiniteSet(DOMAIN datasets') /\ Cardinality(DOMAIN datasets') = n + 1
  BY <1>2, <1>4, <1>5, FS_AddElement
<1>7. DOMAIN datasets' = {Urls[i] : i \in 1..n + 1}
  <2>1. 1..n + 1 = (1..n) \cup {n + 1}
    BY <1>2
  <2>2. {Urls[i] : i \in (1..n) \cup {n + 1}} = {Urls[i] : i \in 1..n} \cup {b}
    OBVIOUS
  <2> HIDE DEF n, b
  <2> QED BY <2>1, <2>2, <1>5, <1>2
<1>8. \A c \in DOMAIN datasets' : datasets'[c] \in Pyramids /\ datasets'[c] # << >>
  BY <1>1, <1>2
<1>9. shape' = datasets'[Urls[1]][1].shape
  <2>1. CASE n = 0
    <3>1. shape = Nil /\ b = Urls[1]
      BY <2>1, <1>2
    <3>2. datasets'[b] = p
      BY <1>1
    <3> QED BY <3>1, <3>2, <1>1
  <2>2. CASE n # 0
    <3>1. 1 \in 1..n
      BY <2>2, <1>2
    <3>2. Urls[1] \in DOMAIN datasets
      BY <3>1, <1>2
    <3>3. datasets[Urls[1]] \in Seq(Levels) /\ datasets[Urls[1]] # << >>
      BY <3>2, <1>2, PyramidAssumption DEF Levels
    <3>4. datasets[Urls[1]][1] \in Levels
      BY <3>3
    <3>5. shape # Nil
      BY <3>4, <2>2, <1>2, PyramidAssumption DEF Levels
    <3>6. datasets'[Urls[1]] = datasets[Urls[1]]
      BY <3>2, <1>1, <1>4
    <3> QED BY <3>5, <3>6, <2>2, <1>1, <1>2
  <2> QED BY <2>1, <2>2
<1> HIDE DEF n, b
<1>10. Opened'
  <2>1. n + 1 <= Len(Urls) /\ n + 1 # 0
    BY <1>1, <1>2, <1>3
  <2> QED BY <2>1, <1>3, <1>6, <1>7, <1>8, <1>9 DEF Opened
<1>11. Fresh' /\ ~Refused' /\ Urls' # << >>
  BY <1>1, <1>3 DEF WInv, Steps, Fresh, Refused
<1>12. Progress'
  <2>1. Fresh' => Progress'
    BY FreshIsProgress, PTL
  <2> QED BY <1>11, <2>1
<1>13. Steps'
  BY <1>1, <1>11 DEF WInv, Steps
<1> QED BY <1>10, <1>12, <1>13 DEF WInv

\* All bands are open and the shape is the record's.
LEMMA StartWritingKeeps == WInv /\ StartWriting => WInv'
<1> SUFFICES ASSUME WInv, StartWriting PROVE WInv'
  OBVIOUS
<1>1. /\ phase = "open" /\ phase' = "write" /\ UNCHANGED <<row, datasets, shape, at, staged, attrs>>
      /\ Cardinality(DOMAIN datasets) = Len(Urls) /\ shape = row.shape
  BY DEF StartWriting, AllOpened, ShapeAgrees
<1>2. /\ (Fresh' <=> Fresh) /\ (AllRead' <=> AllRead) /\ (Opened' <=> Opened)
      /\ (Progress' <=> Progress) /\ (Refused' <=> Refused)
  BY <1>1, SameLocals, Zenon
<1>3. DOMAIN datasets = ToSet(Urls)
  <2>1. DOMAIN Urls = 1..Len(Urls)
    BY UrlsAreDistinct DEF Distinct
  <2> QED BY <2>1, <1>1 DEF WInv, Opened, ToSet
<1>4. AllRead
  BY <1>1, <1>3 DEF WInv, Steps, AllRead
<1>5. Steps'
  BY <1>1, <1>2, <1>4 DEF WInv, Steps
<1> QED BY <1>1, <1>2, <1>5 DEF WInv

\* The last part was written.
LEMMA ReturnKeeps == WInv /\ Return => WInv'
<1> SUFFICES ASSUME WInv, Return PROVE WInv'
  OBVIOUS
<1>1. /\ phase = "write" /\ phase' = "returned" /\ UNCHANGED <<row, datasets, shape, at, staged, attrs>>
      /\ ~(at.band <= Len(Urls))
  BY DEF Return, Writing
<1>2. (Fresh' <=> Fresh) /\ (AllRead' <=> AllRead) /\ (Opened' <=> Opened) /\ (Progress' <=> Progress)
  BY <1>1, SameLocals, Zenon
<1>3. Len(Urls) \in Nat /\ Urls' = Urls /\ at.band \in 1..Len(Urls) + 1
  BY <1>1, SameUrls, UrlsAreDistinct DEF Distinct, WInv, Progress
<1>4. at.band = Len(Urls) + 1
  BY <1>1, <1>3
<1>5. Steps'
  BY <1>1, <1>2, <1>3, <1>4 DEF WInv, Steps
<1> QED BY <1>1, <1>2, <1>5 DEF WInv

\* The next level of the band being written.
LEMMA WriteLevelKeeps == WInv /\ WriteLevel => WInv'
<1> SUFFICES ASSUME WInv, WriteLevel PROVE WInv'
  OBVIOUS
<1> DEFINE i0 == at.band
           l0 == at.level
           x0 == PathOf(Urls[i0], l0 - 1)
<1>1. /\ phase = "write" /\ phase' = "write" /\ UNCHANGED <<row, datasets, shape, attrs>>
      /\ i0 <= Len(Urls) /\ l0 <= Len(datasets[Urls[i0]])
      /\ at' = [at EXCEPT !.level = @ + 1]
      /\ staged' = [x \in DOMAIN staged \cup {x0} |-> IF x = x0 THEN datasets[Urls[i0]][l0].shape ELSE staged[x]]
  BY PathIs DEF WriteLevel, LevelLeft, Writing, Band, Dataset, ArrayPath
<1>2. Urls' = Urls /\ Distinct /\ Len(Urls) \in Nat
  BY <1>1, SameUrls, UrlsAreDistinct DEF Distinct
<1>3. Progress /\ Opened /\ AllRead
  BY <1>1 DEF WInv, Steps
<1>4. at \in [band : 1..Len(Urls) + 1, level : Nat \ {0}] /\ i0 \in 1..Len(Urls) /\ l0 \in Nat \ {0}
  <2>1. at \in [band : 1..Len(Urls) + 1, level : Nat \ {0}]
    BY <1>3 DEF Progress
  <2> QED BY <2>1, <1>1, <1>2
<1>5. at'.band = i0 /\ at'.level = l0 + 1 /\ at' \in [band : 1..Len(Urls) + 1, level : Nat \ {0}]
  BY <1>1, <1>4
<1>6. Part(i0, l0)
  <2>1. datasets[Urls[i0]] \in Seq(Levels)
    <3>1. Urls[i0] \in DOMAIN datasets
      BY <1>2, <1>3, <1>4 DEF AllRead, ToSet, Distinct
    <3> QED BY <3>1, <1>3, PyramidAssumption DEF Opened, Levels
  <2>2. Len(datasets[Urls[i0]]) \in Nat
    BY <2>1
  <2> QED BY <2>2, <1>1, <1>4 DEF Part
<1>7. \A i, l : Part(i, l)' <=> Part(i, l)
  BY <1>1, <1>2 DEF Part
<1>8. \A i, l \in Nat : Before(i, l)' <=> Before(i, l) \/ (i = i0 /\ l = l0)
  BY <1>4, <1>5 DEF Before
<1>9. ASSUME NEW x PROVE x \in DOMAIN staged' <=> \E i, l \in Nat : Part(i, l)' /\ Before(i, l)' /\ x = PathOf(Urls[i], l - 1)
  <2>1. x \in DOMAIN staged' <=> x \in DOMAIN staged \/ x = x0
    BY <1>1
  <2>2. x \in DOMAIN staged <=> \E i, l \in Nat : Part(i, l) /\ Before(i, l) /\ x = PathOf(Urls[i], l - 1)
    BY <1>3 DEF Progress
  <2>3. i0 \in Nat /\ l0 \in Nat
    BY <1>4
  <2>4. ASSUME x \in DOMAIN staged'
        PROVE  \E i, l \in Nat : Part(i, l)' /\ Before(i, l)' /\ x = PathOf(Urls[i], l - 1)
    <3>1. CASE x = x0
      BY <3>1, <2>3, <1>6, <1>7, <1>8
    <3>2. CASE x \in DOMAIN staged
      BY <3>2, <2>2, <1>7, <1>8
    <3> QED BY <3>1, <3>2, <2>1, <2>4
  <2>5. ASSUME NEW i \in Nat, NEW l \in Nat, Part(i, l)', Before(i, l)', x = PathOf(Urls[i], l - 1)
        PROVE  x \in DOMAIN staged'
    BY <2>1, <2>2, <2>5, <1>7, <1>8
  <2> HIDE DEF i0, l0, x0
  <2> QED BY <2>4, <2>5, Zenon
<1>10. ASSUME NEW i \in Nat, NEW l \in Nat, Part(i, l)', Before(i, l)'
       PROVE  staged'[PathOf(Urls[i], l - 1)] = datasets[Urls[i]][l].shape
  <2>1. CASE i = i0 /\ l = l0
    BY <2>1, <1>1
  <2>2. CASE ~(i = i0 /\ l = l0)
    <3>1. Part(i, l) /\ Before(i, l)
      BY <2>2, <1>7, <1>8, <1>10
    <3>2. PathOf(Urls[i], l - 1) # x0
      <4>1. ASSUME PathOf(Urls[i], l - 1) = x0 PROVE FALSE
        <5>1. Urls[i] = Urls[i0] /\ l - 1 = l0 - 1
          BY <4>1, PathsDiffer
        <5>2. i = i0 /\ l = l0
          BY <5>1, <3>1, <1>2, <1>4 DEF Distinct, Part
        <5> QED BY <5>2, <2>2
      <4> QED BY <4>1
    <3>3. PathOf(Urls[i], l - 1) \in DOMAIN staged
      BY <3>1, <1>3, Zenon DEF Progress
    <3>4. staged[PathOf(Urls[i], l - 1)] = datasets[Urls[i]][l].shape
      BY <3>1, <1>3, Zenon DEF Progress
    <3> HIDE DEF x0
    <3> QED BY <3>2, <3>3, <3>4, <1>1
  <2> QED BY <2>1, <2>2
<1>11. \A b : GranuleAttrs(Len(datasets[b]), b)' = GranuleAttrs(Len(datasets[b]), b)
  BY <1>1 DEF GranuleAttrs
<1>12. Part(at.band, at.level - 1)'
  <2>1. l0 = (l0 + 1) - 1
    BY <1>4
  <2> QED BY <2>1, <1>1, <1>2, <1>5, <1>6 DEF Part
<1>13. Progress'
  <2>1. DOMAIN attrs = {Urls[i] : i \in 1..at.band - 1} /\ \A b \in DOMAIN attrs : attrs[b] = GranuleAttrs(Len(datasets[b]), b)
    BY <1>3 DEF Progress
  <2>2. DOMAIN attrs' = {Urls'[i] : i \in 1..at'.band - 1}
    BY <2>1, <1>1, <1>2, <1>5
  <2>3. \A b \in DOMAIN attrs' : attrs'[b] = GranuleAttrs(Len(datasets[b]), b)'
    BY <2>1, <1>1, <1>11
  <2>4. ASSUME NEW i \in Nat, NEW l \in Nat, Part(i, l)', Before(i, l)'
        PROVE  staged'[PathOf(Urls[i], l - 1)'] = datasets'[Urls'[i]][l].shape
    <3>1. PathOf(Urls[i], l - 1)' = PathOf(Urls[i], l - 1)
      BY <1>2 DEF PathOf
    <3>2. staged'[PathOf(Urls[i], l - 1)] = datasets[Urls[i]][l].shape
      BY <2>4, <1>10, Zenon
    <3>3. datasets'[Urls'[i]][l] = datasets[Urls[i]][l]
      BY <1>1, <1>2
    <3> QED BY <3>1, <3>2, <3>3, Zenon
  <2>5. \A x : x \in DOMAIN staged' <=> \E i, l \in Nat : Part(i, l)' /\ Before(i, l)' /\ x = PathOf(Urls[i], l - 1)'
    BY <1>2, <1>9 DEF PathOf
  <2>6. at' \in [band : 1..Len(Urls') + 1, level : Nat \ {0}]
    BY <1>2, <1>5
  <2> HIDE DEF i0, l0, x0
  <2> QED BY <2>2, <2>3, <2>4, <2>5, <2>6, <1>12, Zenon DEF Progress
<1>14. Opened' /\ AllRead'
  BY <1>1, <1>2, <1>3 DEF Opened, AllRead, Refused
<1>15. Steps'
  BY <1>1, <1>14 DEF WInv, Steps
<1> QED BY <1>13, <1>14, <1>15 DEF WInv

\* The attributes of the band that was written.
LEMMA WriteAttrsKeeps == WInv /\ WriteAttrs => WInv'
<1> SUFFICES ASSUME WInv, WriteAttrs PROVE WInv'
  OBVIOUS
<1> DEFINE i0 == at.band
           l0 == at.level
           b0 == Urls[i0]
<1>1. /\ phase = "write" /\ phase' = "write" /\ UNCHANGED <<row, datasets, shape, staged>>
      /\ i0 <= Len(Urls) /\ ~(l0 <= Len(datasets[b0]))
      /\ at' = [band |-> i0 + 1, level |-> 1]
      /\ attrs' = [b \in DOMAIN attrs \cup {b0} |-> IF b = b0 THEN GranuleAttrs(Len(datasets[b0]), b0) ELSE attrs[b]]
  BY DEF WriteAttrs, LevelLeft, Writing, Band
<1>2. Urls' = Urls /\ Distinct /\ Len(Urls) \in Nat
  BY <1>1, SameUrls, UrlsAreDistinct DEF Distinct
<1>3. Progress /\ Opened /\ AllRead
  BY <1>1 DEF WInv, Steps
<1>4. at \in [band : 1..Len(Urls) + 1, level : Nat \ {0}] /\ i0 \in 1..Len(Urls) /\ l0 \in Nat \ {0}
  <2>1. at \in [band : 1..Len(Urls) + 1, level : Nat \ {0}]
    BY <1>3 DEF Progress
  <2> QED BY <2>1, <1>1, <1>2
<1>5. at'.band = i0 + 1 /\ at'.level = 1 /\ at' \in [band : 1..Len(Urls) + 1, level : Nat \ {0}]
  BY <1>1, <1>2, <1>4
<1>6. Len(datasets[b0]) \in Nat
  <2>1. b0 \in DOMAIN datasets
    BY <1>2, <1>3, <1>4 DEF AllRead, ToSet, Distinct
  <2>2. datasets[b0] \in Seq(Levels)
    BY <2>1, <1>3, PyramidAssumption DEF Opened, Levels
  <2> QED BY <2>2
<1>7. \A i, l : Part(i, l)' <=> Part(i, l)
  BY <1>1, <1>2 DEF Part
<1>8. \A i, l \in Nat : Part(i, l) => (Before(i, l)' <=> Before(i, l))
  BY <1>1, <1>4, <1>5, <1>6 DEF Before, Part
<1>9. \A i, l : PathOf(Urls[i], l - 1)' = PathOf(Urls[i], l - 1)
  BY <1>2 DEF PathOf
<1>10. \A b : GranuleAttrs(Len(datasets[b]), b)' = GranuleAttrs(Len(datasets[b]), b)
  BY <1>1 DEF GranuleAttrs
<1>11. Progress'
  <2>1. \A x : x \in DOMAIN staged' <=> \E i, l \in Nat : Part(i, l)' /\ Before(i, l)' /\ x = PathOf(Urls[i], l - 1)'
    <3>1. \A x : x \in DOMAIN staged <=> \E i, l \in Nat : Part(i, l) /\ Before(i, l) /\ x = PathOf(Urls[i], l - 1)
      BY <1>3 DEF Progress
    <3>2. staged' = staged
      BY <1>1
    <3> HIDE DEF i0, l0, b0
    <3>3. ASSUME NEW x, NEW i \in Nat, NEW l \in Nat
          PROVE  Part(i, l)' /\ Before(i, l)' /\ x = PathOf(Urls[i], l - 1)' <=>
                     Part(i, l) /\ Before(i, l) /\ x = PathOf(Urls[i], l - 1)
      BY <1>7, <1>8, <1>9
    <3>4. ASSUME NEW x, NEW i \in Nat, NEW l \in Nat, Part(i, l)', Before(i, l)', x = PathOf(Urls[i], l - 1)'
          PROVE  x \in DOMAIN staged'
      <4>1. Part(i, l) /\ Before(i, l) /\ x = PathOf(Urls[i], l - 1)
        BY <3>3, <3>4
      <4> QED BY <4>1, <3>1, <3>2, Zenon
    <3>5. ASSUME NEW x, x \in DOMAIN staged'
          PROVE  \E i, l \in Nat : Part(i, l)' /\ Before(i, l)' /\ x = PathOf(Urls[i], l - 1)'
      <4>1. PICK i \in Nat, l \in Nat : Part(i, l) /\ Before(i, l) /\ x = PathOf(Urls[i], l - 1)
        BY <3>1, <3>2, <3>5, Zenon
      <4>2. Part(i, l)' /\ Before(i, l)' /\ x = PathOf(Urls[i], l - 1)'
        BY <4>1, <3>3
      <4> QED BY <4>2
    <3> QED BY <3>4, <3>5, Zenon
  <2>2. ASSUME NEW i \in Nat, NEW l \in Nat, Part(i, l)', Before(i, l)'
        PROVE  staged'[PathOf(Urls[i], l - 1)'] = datasets'[Urls'[i]][l].shape
    <3>1. Part(i, l) /\ Before(i, l)
      BY <2>2, <1>7, <1>8
    <3>2. staged[PathOf(Urls[i], l - 1)] = datasets[Urls[i]][l].shape
      BY <3>1, <1>3, Zenon DEF Progress
    <3>3. datasets'[Urls'[i]][l] = datasets[Urls[i]][l] /\ staged' = staged
      BY <1>1, <1>2
    <3> QED BY <3>2, <3>3, <1>9, Zenon
  <2>3. DOMAIN attrs = {Urls[i] : i \in 1..i0 - 1} /\ \A b \in DOMAIN attrs : attrs[b] = GranuleAttrs(Len(datasets[b]), b)
    BY <1>3 DEF Progress
  <2>4. DOMAIN attrs' = {Urls'[i] : i \in 1..at'.band - 1}
    <3>1. 1..at'.band - 1 = (1..i0 - 1) \cup {i0}
      BY <1>4, <1>5
    <3>2. {Urls[i] : i \in (1..i0 - 1) \cup {i0}} = {Urls[i] : i \in 1..i0 - 1} \cup {b0}
      OBVIOUS
    <3>3. DOMAIN attrs' = DOMAIN attrs \cup {b0}
      BY <1>1
    <3> HIDE DEF i0, b0
    <3> QED BY <3>1, <3>2, <3>3, <2>3, <1>2, ZenonT(60)
  <2>5. \A b \in DOMAIN attrs' : attrs'[b] = GranuleAttrs(Len(datasets[b]), b)'
    <3> HIDE DEF i0, b0
    <3> QED BY <2>3, <1>1, <1>10
  <2>6. at' \in [band : 1..Len(Urls') + 1, level : Nat \ {0}] /\ at'.level = 1
    BY <1>2, <1>5
  <2> HIDE DEF i0, l0, b0
  <2> QED BY <2>1, <2>2, <2>4, <2>5, <2>6, Zenon DEF Progress
<1>12. Opened' /\ AllRead'
  BY <1>1, <1>2, <1>3 DEF Opened, AllRead, Refused
<1>13. Steps'
  BY <1>1, <1>12 DEF WInv, Steps
<1> QED BY <1>11, <1>12, <1>13 DEF WInv

\* A step of the walk, or no step.
LEMMA SameWriteKeeps == WInv /\ UNCHANGED writeVars => WInv'
<1> SUFFICES ASSUME WInv, UNCHANGED writeVars PROVE WInv'
  OBVIOUS
<1>1. UNCHANGED <<row, datasets, shape, at, staged, attrs>> /\ phase' = phase
  BY DEF writeVars
<1>2. /\ (Fresh' <=> Fresh) /\ (AllRead' <=> AllRead) /\ (Opened' <=> Opened)
      /\ (Progress' <=> Progress) /\ (Refused' <=> Refused) /\ Urls' = Urls
  BY <1>1, SameLocals, SameUrls
<1>3. Steps'
  BY <1>1, <1>2 DEF WInv, Steps
<1> QED BY <1>1, <1>2, <1>3 DEF WInv

\* Every step of write_granule.
LEMMA WriteGranuleKeeps == WInv /\ WriteGranule => WInv'
<1> SUFFICES ASSUME WInv, WriteGranule PROVE WInv'
  OBVIOUS
<1>1. ASSUME RefuseRow \/ OpenFails \/ RefuseShape \/ RefuseLevel \/ StoreFails \/ \E p \in Pyramids : NoLevels(p)
      PROVE  WInv'
  <2>1. Raise /\ phase # "idle"
    BY <1>1 DEF RefuseRow, OpenFails, RefuseShape, RefuseLevel, StoreFails, NoLevels, Opening, AllOpened, LevelLeft, Writing
  <2> QED BY <2>1, RaiseKeeps
<1>2. ASSUME NEW p \in Pyramids, OpenPyramid(p) PROVE WInv'
  BY <1>2, OpenKeeps
<1> QED BY <1>1, <1>2, AcceptKeeps, StartWritingKeeps, WriteLevelKeeps, WriteAttrsKeeps, ReturnKeeps DEF WriteGranule

(***************************************************************************)
(* What the invariant says of the session.                                 *)
(***************************************************************************)

\* What is staged, and the attributes of the first band, come after all was read.
LEMMA ReadFirst == WInv /\ ~Fresh => AllRead /\ phase # "idle" /\ datasets[Urls[1]][1].shape = row.shape
<1> SUFFICES ASSUME WInv, ~Fresh
             PROVE  AllRead /\ phase # "idle" /\ datasets[Urls[1]][1].shape = row.shape
  OBVIOUS
<1>1. AllRead /\ phase # "idle" /\ Opened
  BY DEF WInv, Steps
<1>2. Cardinality(DOMAIN datasets) # 0
  <2>1. 1 \in DOMAIN Urls
    BY <1>1, UrlsAreDistinct DEF AllRead, Distinct
  <2>2. Urls[1] \in DOMAIN datasets
    BY <2>1, <1>1 DEF AllRead, ToSet
  <2>3. 1..0 = {}
    OBVIOUS
  <2> QED BY <2>2, <2>3, <1>1 DEF Opened
<1> QED BY <1>1, <1>2 DEF Opened, AllRead

\* The arrays staged below a band: its levels before the part to be written next.
LEMMA ArraysAre ==
    ASSUME WInv, phase # "idle", NEW i \in 1..Len(Urls), NEW y
    PROVE  y \in ArraysOf(Urls[i]) <=>
               \E l \in Nat : Part(i, l) /\ Before(i, l) /\ y = LevelPath(l - 1, Urls[i])
<1>1. \A x : x \in DOMAIN staged <=> \E k, l \in Nat : Part(k, l) /\ Before(k, l) /\ x = PathOf(Urls[k], l - 1)
  BY DEF WInv, Progress
<1>2. Distinct /\ i \in Nat
  BY UrlsAreDistinct
<1>3. ASSUME y \in ArraysOf(Urls[i])
      PROVE  \E l \in Nat : Part(i, l) /\ Before(i, l) /\ y = LevelPath(l - 1, Urls[i])
  <2>1. PICK x \in DOMAIN staged : Head(x) = Urls[i] /\ y = Tail(x)
    BY <1>3 DEF ArraysOf
  <2>2. PICK k \in Nat, l \in Nat : Part(k, l) /\ Before(k, l) /\ x = PathOf(Urls[k], l - 1)
    BY <2>1, <1>1, Zenon
  <2>3. Urls[k] = Urls[i] /\ y = LevelPath(l - 1, Urls[k])
    BY <2>1, <2>2, PathParts
  <2>4. k = i
    BY <2>2, <2>3, <1>2 DEF Distinct, Part
  <2> QED BY <2>2, <2>3, <2>4
<1>4. ASSUME NEW l \in Nat, Part(i, l), Before(i, l), y = LevelPath(l - 1, Urls[i])
      PROVE  y \in ArraysOf(Urls[i])
  <2>1. PathOf(Urls[i], l - 1) \in DOMAIN staged
    BY <1>1, <1>2, <1>4, Zenon
  <2>2. Head(PathOf(Urls[i], l - 1)) = Urls[i] /\ Tail(PathOf(Urls[i], l - 1)) = y
    BY <1>4, PathParts
  <2> QED BY <2>1, <2>2, Zenon DEF ArraysOf
<1> QED BY <1>3, <1>4, Zenon

\* The levels of a band that is written are all there.
LEMMA WrittenBand ==
    ASSUME WInv, phase # "idle", NEW i \in 1..Len(Urls), i < at.band
    PROVE  /\ datasets[Urls[i]] \in Seq(Levels) /\ datasets[Urls[i]] # << >>
           /\ ArraysOf(Urls[i]) = {LevelPath(l - 1, Urls[i]) : l \in 1..Len(datasets[Urls[i]])}
<1>1. AllRead /\ Opened
  <2>1. at # [band |-> 1, level |-> 1]
    OBVIOUS
  <2> QED BY <2>1, ReadFirst DEF Fresh, WInv
<1>2. datasets[Urls[i]] \in Seq(Levels) /\ datasets[Urls[i]] # << >>
  <2>1. Urls[i] \in DOMAIN datasets
    BY <1>1, UrlsAreDistinct DEF AllRead, ToSet, Distinct
  <2> QED BY <2>1, <1>1, PyramidAssumption DEF Opened, Levels
<1>3. ASSUME NEW y
      PROVE  y \in ArraysOf(Urls[i]) <=> \E l \in 1..Len(datasets[Urls[i]]) : y = LevelPath(l - 1, Urls[i])
  <2>1. y \in ArraysOf(Urls[i]) <=> \E l \in Nat : Part(i, l) /\ Before(i, l) /\ y = LevelPath(l - 1, Urls[i])
    BY ArraysAre
  <2>2. \A l \in Nat : Part(i, l) /\ Before(i, l) <=> l \in 1..Len(datasets[Urls[i]])
    BY DEF Part, Before
  <2>3. \A l \in 1..Len(datasets[Urls[i]]) : l \in Nat
    BY <1>2
  <2> QED BY <2>1, <2>2, <2>3, Zenon
<1>4. ArraysOf(Urls[i]) = {LevelPath(l - 1, Urls[i]) : l \in 1..Len(datasets[Urls[i]])}
  BY <1>3, Zenon
<1> QED BY <1>2, <1>4

\* Nothing is staged before every band was opened and found right.
LEMMA ReadBeforeStaged == WInv => NothingStagedUnread
<1> SUFFICES ASSUME WInv, staged # << >>
             PROVE  /\ row.outside \cap ToSet(Urls) = {}
                    /\ DOMAIN datasets = ToSet(Urls)
                    /\ datasets[Urls[1]][1].shape = row.shape
  BY DEF NothingStagedUnread
<1>1. ~Fresh
  BY DEF Fresh
<1>2. AllRead /\ datasets[Urls[1]][1].shape = row.shape
  BY <1>1, ReadFirst
<1> QED BY <1>2 DEF AllRead, Refused

\* A call that returned has staged everything.
LEMMA WholeAtReturn == WInv => ReturnedIsWhole
<1> SUFFICES ASSUME WInv, phase = "returned"
             PROVE  /\ DOMAIN attrs = ToSet(Urls)
                    /\ \A b \in ToSet(Urls) : ArraysOf(b) = {LevelPath(l - 1, b) : l \in DOMAIN datasets[b]}
  BY DEF ReturnedIsWhole
<1>1. at.band = Len(Urls) + 1 /\ Progress
  BY DEF WInv, Steps
<1>2. Len(Urls) \in Nat /\ DOMAIN Urls = 1..Len(Urls)
  BY UrlsAreDistinct DEF Distinct
<1>3. DOMAIN attrs = ToSet(Urls)
  <2>1. 1..at.band - 1 = DOMAIN Urls
    BY <1>1, <1>2
  <2> QED BY <2>1, <1>1 DEF Progress, ToSet
<1>4. ASSUME NEW b \in ToSet(Urls) PROVE ArraysOf(b) = {LevelPath(l - 1, b) : l \in DOMAIN datasets[b]}
  <2>1. PICK i \in 1..Len(Urls) : b = Urls[i]
    BY <1>2 DEF ToSet
  <2>2. i < at.band
    BY <1>1, <1>2
  <2>3. /\ datasets[Urls[i]] \in Seq(Levels)
        /\ ArraysOf(Urls[i]) = {LevelPath(l - 1, Urls[i]) : l \in 1..Len(datasets[Urls[i]])}
    BY <2>2, WrittenBand
  <2>4. DOMAIN datasets[b] = 1..Len(datasets[b])
    BY <2>1, <2>3
  <2> QED BY <2>1, <2>3, <2>4, Zenon
<1> QED BY <1>3, <1>4

\* The layout of a band that is written names its arrays, and only them.
LEMMA LayoutNamesArrays == WInv => LayoutResolves
<1> SUFFICES ASSUME WInv, NEW b \in DOMAIN attrs
             PROVE  /\ {attrs[b].layout[i].asset : i \in DOMAIN attrs[b].layout} = ArraysOf(b)
                    /\ \A i \in DOMAIN attrs[b].layout : attrs[b].layout[i].derived \in ArraysOf(b) \cup {Nil}
  BY DEF LayoutResolves
<1>1. phase # "idle" /\ Progress
  <2>1. attrs # << >>
    OBVIOUS
  <2> QED BY <2>1 DEF WInv, Steps, Fresh
<1>2. PICK k \in 1..Len(Urls) : b = Urls[k] /\ k < at.band
  <2>1. PICK k \in 1..at.band - 1 : b = Urls[k]
    BY <1>1 DEF Progress
  <2>2. at.band \in 1..Len(Urls) + 1 /\ Len(Urls) \in Nat
    BY <1>1, UrlsAreDistinct DEF Progress, Distinct
  <2> QED BY <2>1, <2>2
<1> DEFINE n == Len(datasets[b])
           layout == attrs[b].layout
<1>3. /\ datasets[b] \in Seq(Levels) /\ datasets[b] # << >>
      /\ ArraysOf(b) = {LevelPath(l - 1, b) : l \in 1..n}
  BY <1>1, <1>2, WrittenBand
<1>4. n \in Nat /\ n >= 1 /\ Max({1, n}) = n
  <2>1. n \in Nat /\ n >= 1
    BY <1>3
  <2> HIDE DEF n
  <2> QED BY <2>1 DEF Max
<1>5. layout = [i \in 1..n |-> [asset |-> LevelPath(i - 1, b), derived |-> IF i = 1 THEN Nil ELSE LevelPath(i - 2, b)]]
  <2>1. attrs[b] = GranuleAttrs(n, b)
    BY <1>1 DEF Progress
  <2> HIDE DEF n
  <2> QED BY <2>1, <1>4 DEF GranuleAttrs, MultiscaleLayout
<1> HIDE DEF n, layout
<1>6. DOMAIN layout = 1..n /\ \A i \in 1..n : layout[i].asset = LevelPath(i - 1, b)
  BY <1>5
<1>7. \A i \in 1..n : layout[i].derived = IF i = 1 THEN Nil ELSE LevelPath(i - 2, b)
  BY <1>5
<1>8. {layout[i].asset : i \in DOMAIN layout} = ArraysOf(b)
  BY <1>3, <1>6
<1>9. ASSUME NEW i \in DOMAIN layout PROVE layout[i].derived \in ArraysOf(b) \cup {Nil}
  <2>1. CASE i = 1
    BY <2>1, <1>6, <1>7
  <2>2. CASE i # 1
    <3>1. i - 1 \in 1..n /\ (i - 1) - 1 = i - 2
      BY <2>2, <1>4, <1>6
    <3>2. layout[i].derived = LevelPath(i - 2, b)
      BY <2>2, <1>6, <1>7
    <3>3. LevelPath((i - 1) - 1, b) \in ArraysOf(b)
      BY <3>1, <1>3
    <3> QED BY <3>1, <3>2, <3>3
  <2> QED BY <2>1, <2>2
<1> QED BY <1>8, <1>9 DEF layout

\* A product grows with its factor.
LEMMA Multiples ==
    ASSUME NEW a \in Int, NEW n \in Nat, NEW c \in 0..n
    PROVE  /\ c * a \in Int /\ n * a \in Int
           /\ a > 0 => 0 <= c * a /\ c * a <= n * a
           /\ a < 0 => n * a <= c * a /\ c * a <= 0
<1>1. c * a \in Int /\ n * a \in Int
  OBVIOUS
<1>2. (n - c) * a = n * a - c * a /\ n - c >= 0
  OBVIOUS
<1>3. a > 0 => 0 <= c * a /\ 0 <= (n - c) * a
  BY <1>2
<1>4. a < 0 => c * a <= 0 /\ (n - c) * a <= 0
  BY <1>2
<1> QED BY <1>1, <1>2, <1>3, <1>4

\* The least and the greatest member of a set of numbers are the ones found.
LEMMA MinMaxAre ==
    ASSUME NEW S \in SUBSET Int, NEW low \in S, NEW high \in S, \A x \in S : low <= x /\ x <= high
    PROVE  Min(S) = low /\ Max(S) = high
<1>1. \A m \in S : (\A y \in S : m =< y) => m = low
  OBVIOUS
<1>2. \A m \in S : (\A y \in S : m >= y) => m = high
  OBVIOUS
<1> QED BY <1>1, <1>2 DEF Min, Max

\* The bounds granule_attrs computes are those of the pixel corners.
LEMMA BoxIsExtent ==
    ASSUME NEW t, NorthUp(t), NEW size \in Nat \X Nat
    PROVE  Box(size, SubSeq(t, 1, 6)) = Extent(t, size)
<1> DEFINE corners == {Corner(t, r, c) : r \in 0..size[1], c \in 0..size[2]}
           xs == {x[1] : x \in corners}
           ys == {x[2] : x \in corners}
           right == t[3] + size[2] * t[1]
           bottom == t[6] + size[1] * t[5]
<1>1. t \in Seq(Int) /\ Len(t) = 9 /\ t[1] > 0 /\ t[2] = 0 /\ t[4] = 0 /\ t[5] < 0
  BY DEF NorthUp
<1>2. t[1] \in Int /\ t[3] \in Int /\ t[5] \in Int /\ t[6] \in Int /\ size[1] \in Nat /\ size[2] \in Nat
  <2>1. \A k \in 1..9 : t[k] \in Int
    BY <1>1, ElementOfSeq
  <2> QED BY <2>1
<1>3. Box(size, SubSeq(t, 1, 6)) = <<t[3], bottom, right, t[6]>>
  <2>1. \A k \in 1..6 : SubSeq(t, 1, 6)[k] = t[k]
    BY <1>1
  <2> QED BY <2>1 DEF Box
<1>4. ASSUME NEW r \in 0..size[1], NEW c \in 0..size[2]
      PROVE  Corner(t, r, c) = <<t[3] + c * t[1], t[6] + r * t[5]>>
  <2>1. r * 0 = 0 /\ c * 0 = 0 /\ c * t[1] \in Int /\ r * t[5] \in Int
    BY <1>2
  <2>2. t[3] + c * t[1] + r * t[2] = t[3] + c * t[1]
    BY <1>1, <1>2, <2>1, SMTT(40)
  <2>3. t[6] + c * t[4] + r * t[5] = t[6] + r * t[5]
    BY <1>1, <1>2, <2>1
  <2> QED BY <2>2, <2>3 DEF Corner
<1>5. \A x \in xs : \E c \in 0..size[2] : x = t[3] + c * t[1]
  BY <1>4
<1>6. \A y \in ys : \E r \in 0..size[1] : y = t[6] + r * t[5]
  BY <1>4
<1>7. Corner(t, 0, 0) \in corners /\ Corner(t, size[1], size[2]) \in corners
  BY <1>2
<1>8. Corner(t, 0, 0) = <<t[3], t[6]>> /\ Corner(t, size[1], size[2]) = <<right, bottom>>
  <2>1. 0 * t[1] = 0 /\ 0 * t[5] = 0 /\ 0 \in 0..size[1] /\ 0 \in 0..size[2]
    BY <1>2
  <2>2. Corner(t, 0, 0) = <<t[3] + 0 * t[1], t[6] + 0 * t[5]>>
    BY <1>4, <2>1
  <2>3. size[1] \in 0..size[1] /\ size[2] \in 0..size[2]
    BY <1>2
  <2> QED BY <1>2, <1>4, <2>1, <2>2, <2>3
<1>9. t[3] \in xs /\ right \in xs /\ t[6] \in ys /\ bottom \in ys
  <2> HIDE DEF right, bottom
  <2>1. <<t[3], t[6]>> \in corners /\ <<right, bottom>> \in corners
    BY <1>7, <1>8
  <2> HIDE DEF corners
  <2>2. <<t[3], t[6]>>[1] = t[3] /\ <<t[3], t[6]>>[2] = t[6] /\ <<right, bottom>>[1] = right /\ <<right, bottom>>[2] = bottom
    OBVIOUS
  <2> QED BY <2>1, <2>2, Zenon
<1> HIDE DEF xs, ys, corners
<1>10. xs \in SUBSET Int /\ \A x \in xs : t[3] <= x /\ x <= right
  <2>1. ASSUME NEW x \in xs PROVE x \in Int /\ t[3] <= x /\ x <= right
    <3>1. PICK c \in 0..size[2] : x = t[3] + c * t[1]
      BY <1>5
    <3>2. /\ c * t[1] \in Int /\ size[2] * t[1] \in Int
          /\ 0 <= c * t[1] /\ c * t[1] <= size[2] * t[1]
      BY <1>1, <1>2, Multiples
    <3> QED BY <3>1, <3>2, <1>2
  <2> QED BY <2>1
<1>11. ys \in SUBSET Int /\ \A y \in ys : bottom <= y /\ y <= t[6]
  <2>1. ASSUME NEW y \in ys PROVE y \in Int /\ bottom <= y /\ y <= t[6]
    <3>1. PICK r \in 0..size[1] : y = t[6] + r * t[5]
      BY <1>6
    <3>2. /\ r * t[5] \in Int /\ size[1] * t[5] \in Int
          /\ size[1] * t[5] <= r * t[5] /\ r * t[5] <= 0
      BY <1>1, <1>2, Multiples
    <3> QED BY <3>1, <3>2, <1>2
  <2> QED BY <2>1
<1> HIDE DEF right, bottom
<1>12. Min(xs) = t[3] /\ Max(xs) = right
  BY <1>9, <1>10, MinMaxAre
<1>13. Min(ys) = bottom /\ Max(ys) = t[6]
  BY <1>9, <1>11, MinMaxAre
<1>14. Box(size, SubSeq(t, 1, 6)) = <<Min(xs), Min(ys), Max(xs), Max(ys)>>
  BY <1>3, <1>12, <1>13
<1> QED BY <1>14 DEF xs, ys, corners, Extent

\* The bounds of the first band are those of the array staged for it.
LEMMA BoundsOfTheFirst == WInv => BoundsAreThePixels
<1> SUFFICES ASSUME WInv, NEW b \in DOMAIN attrs, b = Urls[1]
             PROVE  attrs[b].bbox = Extent(row.transform, staged[<<b>> \o LevelPath(0, b)])
  BY DEF BoundsAreThePixels
<1>1. AllRead /\ phase # "idle" /\ datasets[Urls[1]][1].shape = row.shape /\ Progress /\ row \in Records
  <2>1. attrs # << >>
    OBVIOUS
  <2> QED BY <2>1, ReadFirst DEF WInv, Fresh, Steps
<1>2. Len(Urls) \in Nat /\ Len(Urls) >= 1
  BY <1>1, UrlsAreDistinct DEF AllRead, Distinct
<1>3. 1 < at.band
  <2>1. PICK k \in 1..at.band - 1 : b = Urls[k]
    BY <1>1 DEF Progress
  <2>2. at.band \in Nat
    BY <1>1, <1>2 DEF Progress
  <2> QED BY <2>1, <2>2
<1>4. datasets[b] \in Seq(Levels) /\ datasets[b] # << >>
  BY <1>1, <1>2, <1>3, WrittenBand
<1>5. Part(1, 1) /\ Before(1, 1)
  BY <1>2, <1>3, <1>4 DEF Part, Before
<1> DEFINE size == staged[<<b>> \o LevelPath(0, b)]
<1>6. size = row.shape /\ size \in Nat \X Nat
  <2>1. staged[PathOf(Urls[1], 1 - 1)] = datasets[Urls[1]][1].shape
    BY <1>1, <1>5 DEF Progress
  <2>2. 1 - 1 = 0
    OBVIOUS
  <2>3. size = datasets[Urls[1]][1].shape
    BY <2>1, <2>2, PathIs
  <2>4. datasets[b][1] \in Levels
    BY <1>4
  <2> QED BY <2>3, <2>4, <1>1 DEF Levels
<1>7. attrs[b].bbox = Box(row.shape, SubSeq(row.transform, 1, 6))
  <2>1. attrs[b] = GranuleAttrs(Len(datasets[b]), b)
    BY <1>1 DEF Progress
  <2>2. GranuleAttrs(Len(datasets[b]), b).bbox = Box(row.shape, SubSeq(row.transform, 1, 6))
    BY DEF GranuleAttrs
  <2> QED BY <2>1, <2>2
<1>8. NorthUp(row.transform)
  BY <1>1, TransformAssumption DEF Records
<1> HIDE DEF size
<1>9. Box(size, SubSeq(row.transform, 1, 6)) = Extent(row.transform, size)
  BY <1>6, <1>8, BoxIsExtent
<1> QED BY <1>6, <1>7, <1>9 DEF size

(***************************************************************************)
(* The walk of the IFDs.                                                   *)
(***************************************************************************)

Entries == [tag : Nat, kind : Nat, value : Nat]
Ifds    == [at : Nat, entries : Seq(Entries)]

\* An entry of a file.
EntryOf(e) == \E i \in DOMAIN file.ifds : \E k \in DOMAIN file.ifds[i].entries : e = file.ifds[i].entries[k]

\* parse_ifds takes the value an entry was written with, in either byte order.
LEMMA EntryValueIs ==
    ASSUME file \in Files, NEW e, EntryOf(e)
    PROVE  EntryValue(e) = e.value
<1>1. e.value \in Nat /\ e.value \div 65536 < (IF e.kind = TYPE_SHORT THEN 1 ELSE 65536)
  <2>0. PICK i \in DOMAIN file.ifds : \E k \in DOMAIN file.ifds[i].entries : e = file.ifds[i].entries[k]
    BY DEF EntryOf
  <2>1. PICK k \in DOMAIN file.ifds[i].entries : e = file.ifds[i].entries[k]
    BY <2>0
  <2>2. file.ifds \in Seq(Ifds)
    BY FileAssumption DEF Ifds, Entries
  <2>3. file.ifds[i].entries \in Seq(Entries)
    <3>1. file.ifds[i] \in Ifds
      BY <2>2, ElementOfSeq
    <3> QED BY <3>1 DEF Ifds
  <2>4. e \in Entries
    BY <2>1, <2>3
  <2>5. e.value \div 65536 < (IF e.kind = TYPE_SHORT THEN 1 ELSE 65536)
    BY <2>1, FileAssumption
  <2> QED BY <2>4, <2>5 DEF Entries
<1>2. Weight[1] = 1 /\ Weight[2] = 256 /\ Weight[3] = 65536 /\ Weight[4] = 16777216
  BY DEF Weight
<1> DEFINE v == e.value
           by == ValueBytes(e)
<1>3. CASE e.kind = TYPE_SHORT
  <2>1. \A i \in 1..2 : by[Place(i, 2)] = (v \div Weight[i]) % 256
    <3>1. \A i \in 1..2 : Place(i, 2) \in 1..2 /\ Place(Place(i, 2), 2) = i
      BY DEF Place
    <3>2. \A i \in 1..2 : by[i] = (v \div Weight[Place(i, 2)]) % 256
      BY <1>3 DEF ValueBytes
    <3> HIDE DEF by
    <3> QED BY <3>1, <3>2
  <2>2. EntryValue(e) = Weight[1] * by[Place(1, 2)] + Weight[2] * by[Place(2, 2)] + 0 + 0
    BY <1>3 DEF EntryValue, Unpacked
  <2>3. by[Place(1, 2)] = (v \div 1) % 256 /\ by[Place(2, 2)] = (v \div 256) % 256
    BY <1>2, <2>1
  <2>4. ((v \div 1) % 256) + 256 * ((v \div 256) % 256) = v
    <3>1. v \in Nat /\ v \div 65536 < 1
      BY <1>1, <1>3
    <3> HIDE DEF v
    <3> QED BY <3>1
  <2>5. (v \div 1) % 256 \in Int /\ (v \div 256) % 256 \in Int
    BY <1>1
  <2> HIDE DEF by
  <2> QED BY <1>2, <2>2, <2>3, <2>4, <2>5
<1>4. CASE e.kind # TYPE_SHORT
  <2>1. \A i \in 1..4 : by[Place(i, 4)] = (v \div Weight[i]) % 256
    <3>1. \A i \in 1..4 : Place(i, 4) \in 1..4 /\ Place(Place(i, 4), 4) = i
      BY DEF Place
    <3>2. \A i \in 1..4 : by[i] = (v \div Weight[Place(i, 4)]) % 256
      BY <1>4 DEF ValueBytes
    <3> HIDE DEF by
    <3> QED BY <3>1, <3>2
  <2>2. EntryValue(e) = Weight[1] * by[Place(1, 4)] + Weight[2] * by[Place(2, 4)]
                            + Weight[3] * by[Place(3, 4)] + Weight[4] * by[Place(4, 4)]
    BY <1>4 DEF EntryValue, Unpacked
  <2>3. /\ by[Place(1, 4)] = (v \div 1) % 256 /\ by[Place(2, 4)] = (v \div 256) % 256
        /\ by[Place(3, 4)] = (v \div 65536) % 256 /\ by[Place(4, 4)] = (v \div 16777216) % 256
    BY <1>2, <2>1
  <2>4. ((v \div 1) % 256) + 256 * ((v \div 256) % 256)
               + 65536 * ((v \div 65536) % 256) + 16777216 * ((v \div 16777216) % 256) = v
    <3>1. v \in Nat /\ v \div 65536 < 65536
      BY <1>1, <1>4
    <3> HIDE DEF v
    <3> QED BY <3>1
  <2>5. /\ (v \div 1) % 256 \in Int /\ (v \div 256) % 256 \in Int
        /\ (v \div 65536) % 256 \in Int /\ (v \div 16777216) % 256 \in Int
    BY <1>1
  <2> HIDE DEF by
  <2> QED BY <1>2, <2>2, <2>3, <2>4, <2>5
<1> QED BY <1>3, <1>4

\* The chain of a file.
LEMMA ChainOf ==
    ASSUME file \in Files
    PROVE  /\ file.ifds \in Seq(Ifds) /\ Len(file.ifds) \in Nat
           /\ \A i \in 1..Len(file.ifds) :
                 /\ file.ifds[i] \in Ifds /\ file.ifds[i].at \in Nat /\ file.ifds[i].at >= 8
                 /\ file.ifds[i].entries \in Seq(Entries) /\ Len(file.ifds[i].entries) \in Nat
                 /\ IfdAt(file.ifds[i].at) = i
<1>1. file.ifds \in Seq(Ifds) /\ Len(file.ifds) \in Nat /\ DOMAIN file.ifds = 1..Len(file.ifds)
  BY FileAssumption DEF Ifds, Entries
<1>2. ASSUME NEW i \in 1..Len(file.ifds)
      PROVE  /\ file.ifds[i] \in Ifds /\ file.ifds[i].at \in Nat /\ file.ifds[i].at >= 8
             /\ file.ifds[i].entries \in Seq(Entries) /\ Len(file.ifds[i].entries) \in Nat
  <2>1. file.ifds[i] \in Ifds
    BY <1>1, ElementOfSeq
  <2>2. file.ifds[i].at \in Nat /\ file.ifds[i].entries \in Seq(Entries)
    BY <2>1 DEF Ifds
  <2>3. file.ifds[i].at >= 8
    BY <1>1, FileAssumption
  <2> QED BY <2>1, <2>2, <2>3
<1>3. ASSUME NEW i \in 1..Len(file.ifds) PROVE IfdAt(file.ifds[i].at) = i
  <2>1. i \in DOMAIN file.ifds /\ \A j \in DOMAIN file.ifds : file.ifds[j].at = file.ifds[i].at => j = i
    BY <1>1, FileAssumption, SMTT(40)
  <2> QED BY <2>1, Zenon DEF IfdAt
<1> QED BY <1>1, <1>2, <1>3, Zenon

\* The value of a tag is one the file's writer gave it.
LEMMA DimensionIs ==
    ASSUME file \in Files, NEW i \in 1..Len(file.ifds), NEW tag
    PROVE  LET o == file.ifds[i].at
               d == file.ifds[i]
           IN  /\ Tagged(o, tag) # {} <=> Meant(d, tag) # {}
               /\ Tagged(o, tag) # {} => Dimension(o, tag) \in Meant(d, tag)
<1> DEFINE o == file.ifds[i].at
           d == file.ifds[i]
           n == Len(d.entries)
           T == Tagged(o, tag)
<1>1. IfdAt(o) = i /\ d.entries \in Seq(Entries) /\ n \in Nat /\ DOMAIN d.entries = 1..n
  BY ChainOf
<1>2. T = {k \in 1..n : d.entries[k].tag = tag}
  BY <1>1 DEF Tagged, Count
<1>3. T # {} <=> Meant(d, tag) # {}
  BY <1>1, <1>2 DEF Meant
<1>4. ASSUME T # {} PROVE Dimension(o, tag) \in Meant(d, tag)
  <2>1. T \subseteq 0..n
    BY <1>1, <1>2
  <2> HIDE DEF T
  <2>2. \E m \in T : \A k \in T : k <= m
    BY <1>1, <1>4, <2>1, Greatest
  <2>3. PICK m \in T : \A k \in T : m >= k
    BY <2>1, <2>2, <1>1
  <2>4. Max(T) \in T
    BY <2>3, Zenon DEF Max
  <2> DEFINE e == d.entries[Max(T)]
  <2>5. Max(T) \in DOMAIN d.entries /\ e.tag = tag
    BY <2>4, <1>1, <1>2
  <2>6. EntryOf(e)
    <3>1. i \in DOMAIN file.ifds
      BY ChainOf
    <3> QED BY <3>1, <2>5 DEF EntryOf
  <2>7. Dimension(o, tag) = EntryValue(e)
    BY <1>1 DEF Dimension, T
  <2>8. EntryValue(e) = e.value
    BY <2>6, EntryValueIs
  <2> QED BY <2>5, <2>7, <2>8 DEF Meant
<1> QED BY <1>3, <1>4

\* The images among the first k IFDs.
Img(k) == AmongFirst(file.ifds, Images)[k]

\* The walk has read the first k IFDs, all of them wholly in the header.
Walked(k) ==
    /\ k \in 0..Len(file.ifds)
    /\ offset = NextOf(k)
    /\ \A i \in 1..k : Whole(i)
    /\ sizes \in Seq(Nat \X Nat)
    /\ Len(sizes) = Len(Img(k))
    /\ \A j \in 1..Len(sizes) : /\ sizes[j][1] \in Meant(Img(k)[j], IMAGE_WIDTH)
                                /\ sizes[j][2] \in Meant(Img(k)[j], IMAGE_LENGTH)

HInv ==
    /\ walk \in {"start", "turn", "returned", "raised", "over"}
    /\ length \in Nat /\ reach \in Nat
    /\ walk = "start" => file \in Files /\ sizes = << >>  /\ reach = 0
    /\ walk # "start" => reach <= length
    /\ walk = "turn" => file \in Files /\ \E k \in Nat : Walked(k)
    /\ walk = "returned" =>
          file \in Files /\ \E k \in Nat : Walked(k) /\ (k < Len(file.ifds) => ~Whole(k + 1))

\* The IFD the walk is at is the next one of the chain.
LEMMA AtNext ==
    ASSUME file \in Files, length \in Nat, NEW k \in Nat, Walked(k)
    PROVE  /\ offset \in Nat
           /\ offset = 0 <=> k = Len(file.ifds)
           /\ k < Len(file.ifds) =>
                 /\ offset = file.ifds[k + 1].at /\ IfdAt(offset) = k + 1
                 /\ End \in Nat /\ End >= offset + 2
                 /\ CutOff <=> ~Whole(k + 1)
<1>1. k \in 0..Len(file.ifds) /\ offset = NextOf(k) /\ Len(file.ifds) \in Nat
  BY ChainOf DEF Walked
<1>2. CASE k = Len(file.ifds)
  BY <1>1, <1>2 DEF NextOf
<1>3. CASE k < Len(file.ifds)
  <2>1. k + 1 \in 1..Len(file.ifds) /\ offset = file.ifds[k + 1].at
    BY <1>1, <1>3 DEF NextOf
  <2>2. offset \in Nat /\ offset >= 8 /\ IfdAt(offset) = k + 1 /\ Len(file.ifds[k + 1].entries) \in Nat
    BY <2>1, ChainOf
  <2>3. End = offset + 2 + Len(file.ifds[k + 1].entries) * 12
    BY <2>2 DEF End, Count
  <2>4. End \in Nat /\ End >= offset + 2
    <3>1. PICK n \in Nat : n = Len(file.ifds[k + 1].entries)
      BY <2>2
    <3>2. End = offset + 2 + n * 12
      BY <2>3, <3>1
    <3> QED BY <3>2, <2>2
  <2>5. Whole(k + 1) <=> ~CutOff
    <3>1. PICK n \in Nat : n = Len(file.ifds[k + 1].entries)
      BY <2>2
    <3>2. Whole(k + 1) <=> offset + 2 + 12 * n + 4 <= length
      BY <2>1, <3>1 DEF Whole
    <3>3. CutOff <=> offset + 2 + n * 12 + 4 > length
      BY <2>3, <3>1 DEF CutOff
    <3> QED BY <3>2, <3>3, <2>2
  <2> QED BY <1>3, <2>1, <2>2, <2>4, <2>5
<1> QED BY <1>1, <1>2, <1>3

\* One of two numbers is the greater.
LEMMA MaxOfTwo ==
    ASSUME NEW a \in Nat, NEW b \in Nat, NEW n \in Nat, a <= n, b <= n
    PROVE  Max({a, b}) \in Nat /\ Max({a, b}) <= n
BY DEF Max

\* The walk keeps its file, so what is in the header, and what is an image, stays.
LEMMA SameFile ==
    ASSUME UNCHANGED <<file, length>>
    PROVE  /\ \A k : Img(k)' = Img(k) /\ (Whole(k)' <=> Whole(k)) /\ NextOf(k)' = NextOf(k)
<1>1. Images' = Images
  BY DEF Images
<1> QED BY <1>1 DEF Img, Whole, NextOf, AmongFirst

\* The walk reads the offset of the first IFD.
LEMMA ReadStartKeeps == HInv /\ ReadStart => HInv'
<1> SUFFICES ASSUME HInv, ReadStart PROVE HInv'
  OBVIOUS
<1>1. /\ file \in Files /\ length \in Nat /\ length >= 8 /\ sizes = << >>
      /\ walk' = "turn" /\ reach' = 8 /\ UNCHANGED <<file, length, sizes>>
      /\ offset' = IF file.ifds = << >> THEN 0 ELSE file.ifds[1].at
  BY DEF HInv, ReadStart
<1>2. file.ifds \in Seq(Ifds) /\ Len(file.ifds) \in Nat
  BY <1>1, ChainOf
<1>3. offset' = NextOf(0)
  BY <1>1, <1>2 DEF NextOf
<1>4. Img(0) = << >>
  BY <1>2, AmongFirstUnfolds DEF Img
<1>5. Img(0)' = Img(0) /\ NextOf(0)' = NextOf(0)
  BY <1>1, SameFile
<1>6. Walked(0)'
  <2>1. 0 \in 0..Len(file.ifds) /\ 1..0 = {} /\ Len(<< >>) = 0 /\ << >> \in Seq(Nat \X Nat)
    BY <1>2
  <2>2. sizes' = << >> /\ Len(Img(0)') = 0 /\ file' = file
    BY <1>1, <1>4, <1>5
  <2> QED BY <2>1, <2>2, <1>3, <1>5 DEF Walked
<1> QED BY <1>1, <1>6 DEF HInv

\* The loop ends at an IFD that is not wholly in the header, or behind the last.
LEMMA BreakKeeps == HInv /\ (Break \/ LeaveLoop) => HInv'
<1> SUFFICES ASSUME HInv, Break \/ LeaveLoop PROVE HInv'
  OBVIOUS
<1>1. /\ file \in Files /\ length \in Nat /\ reach \in Nat /\ reach <= length
      /\ walk' = "returned" /\ UNCHANGED <<file, length, offset, sizes>>
  BY DEF HInv, Break, LeaveLoop
<1>2. PICK k \in Nat : Walked(k)
  BY DEF HInv, Break, LeaveLoop
<1>3. /\ offset \in Nat
      /\ offset = 0 <=> k = Len(file.ifds)
      /\ k < Len(file.ifds) => /\ End \in Nat /\ End >= offset + 2
                               /\ CutOff <=> ~Whole(k + 1)
  BY <1>1, <1>2, AtNext
<1>4. k < Len(file.ifds) => ~Whole(k + 1)
  <2> SUFFICES ASSUME k < Len(file.ifds) PROVE CutOff
    BY <1>3
  <2>1. CASE Break
    BY <2>1 DEF Break
  <2>2. CASE LeaveLoop
    <3>1. offset # 0
      BY <1>2, <1>3
    <3>2. offset + 2 > length
      BY <2>2, <3>1, <1>1, <1>3 DEF LeaveLoop, InHeader
    <3> QED BY <3>2, <1>1, <1>3 DEF CutOff
  <2> QED BY <2>1, <2>2
<1>5. reach' \in Nat /\ reach' <= length
  <2>1. CASE Break
    BY <2>1, <1>1, <1>3, MaxOfTwo DEF Break, InHeader
  <2>2. CASE LeaveLoop
    BY <2>2, <1>1 DEF LeaveLoop
  <2> QED BY <2>1, <2>2
<1>6. \A i : Img(i)' = Img(i) /\ (Whole(i)' <=> Whole(i)) /\ NextOf(i)' = NextOf(i)
  BY <1>1, SameFile
<1>7. Walked(k)'
  BY <1>1, <1>2, <1>6 DEF Walked
<1>8. file' \in Files /\ Walked(k)' /\ (k < Len(file'.ifds) => ~Whole(k + 1)')
  BY <1>1, <1>4, <1>6, <1>7
<1> QED BY <1>1, <1>5, <1>8 DEF HInv

\* One turn of the loop.
LEMMA ReadIfdKeeps == HInv /\ ReadIfd => HInv'
<1> SUFFICES ASSUME HInv, ReadIfd PROVE HInv'
  OBVIOUS
<1> DEFINE W == Tagged(offset, IMAGE_WIDTH)
           L == Tagged(offset, IMAGE_LENGTH)
           size == <<Dimension(offset, IMAGE_WIDTH), Dimension(offset, IMAGE_LENGTH)>>
<1>1. /\ file \in Files /\ length \in Nat /\ reach \in Nat /\ reach <= length /\ walk = "turn"
      /\ UNCHANGED <<file, length, walk>> /\ InHeader /\ ~CutOff
      /\ sizes' = IF W # {} /\ L # {} THEN Append(sizes, size) ELSE sizes
      /\ reach' = Max({reach, End + 4}) /\ offset' = NextOf(IfdAt(offset))
  BY DEF HInv, ReadIfd
<1>2. PICK k \in Nat : Walked(k)
  BY <1>1 DEF HInv
<1>3. /\ k < Len(file.ifds) /\ k + 1 \in 1..Len(file.ifds) /\ offset = file.ifds[k + 1].at
      /\ IfdAt(offset) = k + 1 /\ End \in Nat /\ Whole(k + 1)
      /\ file.ifds \in Seq(Ifds) /\ Len(file.ifds) \in Nat
  <2>1. k \in 0..Len(file.ifds) /\ Len(file.ifds) \in Nat /\ file.ifds \in Seq(Ifds)
    BY <1>1, <1>2, ChainOf DEF Walked
  <2>2. k < Len(file.ifds)
    BY <1>1, <1>2, <2>1, AtNext DEF InHeader
  <2> QED BY <1>1, <1>2, <2>1, <2>2, AtNext
<1>4. reach' \in Nat /\ reach' <= length
  BY <1>1, <1>3, MaxOfTwo DEF CutOff
<1> DEFINE d == file.ifds[k + 1]
           A == Img(k)
           C == Img(k + 1)
<1>5. /\ W # {} <=> Meant(d, IMAGE_WIDTH) # {}
      /\ W # {} => Dimension(offset, IMAGE_WIDTH) \in Meant(d, IMAGE_WIDTH)
      /\ L # {} <=> Meant(d, IMAGE_LENGTH) # {}
      /\ L # {} => Dimension(offset, IMAGE_LENGTH) \in Meant(d, IMAGE_LENGTH)
  BY <1>1, <1>3, DimensionIs
<1>6. d \in Images <=> W # {} /\ L # {}
  BY <1>3, <1>5 DEF Images, ToSet
<1>7. A \in Seq(Ifds) /\ C = IF d \in Images THEN Append(A, d) ELSE A
  <2>1. A \in Seq(Ifds)
    BY <1>3, AmongFirstKeeps DEF Img
  <2>2. (k + 1) - 1 = k
    OBVIOUS
  <2> QED BY <2>1, <2>2, <1>3, AmongFirstUnfolds DEF Img
<1>8. \A tag : Meant(d, tag) \subseteq Nat
  <2>1. d.entries \in Seq(Entries)
    BY <1>1, <1>3, ChainOf
  <2> HIDE DEF d
  <2>2. \A i \in DOMAIN d.entries : d.entries[i].value \in Nat
    <3>1. \A i \in DOMAIN d.entries : d.entries[i] \in Entries
      BY <2>1
    <3> QED BY <3>1 DEF Entries
  <2> QED BY <2>2 DEF Meant
<1> HIDE DEF d, A, C, W, L
<1>9. /\ sizes \in Seq(Nat \X Nat) /\ Len(sizes) = Len(A)
      /\ \A j \in 1..Len(sizes) : /\ sizes[j][1] \in Meant(A[j], IMAGE_WIDTH)
                                  /\ sizes[j][2] \in Meant(A[j], IMAGE_LENGTH)
  BY <1>2 DEF Walked, A
<1>10. /\ sizes' \in Seq(Nat \X Nat) /\ Len(sizes') = Len(C)
       /\ \A j \in 1..Len(sizes') : /\ sizes'[j][1] \in Meant(C[j], IMAGE_WIDTH)
                                    /\ sizes'[j][2] \in Meant(C[j], IMAGE_LENGTH)
  <2>1. CASE d \in Images
    <3>1. sizes' = Append(sizes, size) /\ C = Append(A, d)
      BY <2>1, <1>1, <1>6, <1>7
    <3>2. /\ size[1] \in Meant(d, IMAGE_WIDTH) /\ size[2] \in Meant(d, IMAGE_LENGTH)
          /\ size \in Nat \X Nat
      BY <2>1, <1>5, <1>6, <1>8
    <3> HIDE DEF size
    <3>3. d \in Ifds
      BY <1>1, <1>3, ChainOf DEF d
    <3>4. /\ sizes' \in Seq(Nat \X Nat) /\ Len(sizes') = Len(sizes) + 1 /\ Len(C) = Len(A) + 1
          /\ sizes'[Len(sizes) + 1] = size /\ C[Len(A) + 1] = d
          /\ \A j \in 1..Len(sizes) : sizes'[j] = sizes[j] /\ C[j] = A[j]
      <4>1. /\ sizes' \in Seq(Nat \X Nat) /\ Len(sizes') = Len(sizes) + 1
            /\ sizes'[Len(sizes) + 1] = size /\ \A j \in 1..Len(sizes) : sizes'[j] = sizes[j]
        BY <3>1, <3>2, <1>9, AppendProperties
      <4>2. Len(C) = Len(A) + 1 /\ C[Len(A) + 1] = d /\ \A j \in 1..Len(A) : C[j] = A[j]
        <5>1. A \in Seq(Ifds)
          BY <1>7
        <5>2. /\ Len(Append(A, d)) = Len(A) + 1 /\ Append(A, d)[Len(A) + 1] = d
              /\ \A j \in 1..Len(A) : Append(A, d)[j] = A[j]
          BY <5>1, <3>3, AppendProperties
        <5> QED BY <5>2, <3>1
      <4> QED BY <4>1, <4>2, <1>9
    <3>5. Len(sizes) \in Nat /\ \A j \in 1..Len(sizes) + 1 : j \in 1..Len(sizes) \/ j = Len(sizes) + 1
      BY <1>9
    <3> QED BY <3>2, <3>4, <3>5, <1>9
  <2>2. CASE d \notin Images
    BY <2>2, <1>1, <1>6, <1>7, <1>9
  <2> QED BY <2>1, <2>2
<1>11. \A i : Img(i)' = Img(i) /\ (Whole(i)' <=> Whole(i)) /\ NextOf(i)' = NextOf(i)
  BY <1>1, SameFile
<1>12. Walked(k + 1)'
  <2>1. \A i \in 1..k + 1 : Whole(i)
    <3>1. \A i \in 1..k : Whole(i)
      BY <1>2 DEF Walked
    <3>2. \A i \in 1..k + 1 : i \in 1..k \/ i = k + 1
      OBVIOUS
    <3> QED BY <3>1, <3>2, <1>3
  <2>2. k + 1 \in 0..Len(file.ifds) /\ offset' = NextOf(k + 1) /\ file' = file
    BY <1>1, <1>3
  <2>3. \A t, x : Meant(x, t)' = Meant(x, t)
    BY DEF Meant
  <2> QED BY <2>1, <2>2, <1>10, <1>11 DEF Walked, C
<1>13. k + 1 \in Nat
  OBVIOUS
<1> QED BY <1>1, <1>4, <1>12, <1>13 DEF HInv

\* A header that is no TIFF's is refused.
LEMMA NotATiffKeeps == HInv /\ NotATiff => HInv'
BY DEF HInv, NotATiff

\* The notebook's next cell lets the walk's state go.
LEMMA WriteNextEndsWalk == HInv /\ WriteNext => HInv'
BY DEF HInv, WriteNext

\* A step of write_granule leaves the walk alone.
LEMMA SameWalkKeeps == HInv /\ UNCHANGED walkVars => HInv'
<1> SUFFICES ASSUME HInv, UNCHANGED walkVars PROVE HInv'
  OBVIOUS
<1>1. UNCHANGED <<file, length, offset, sizes, reach, walk>>
  BY DEF walkVars
<1>2. \A i : Img(i)' = Img(i) /\ (Whole(i)' <=> Whole(i)) /\ NextOf(i)' = NextOf(i)
  BY <1>1, SameFile
<1>3. \A k : Walked(k)' <=> Walked(k)
  BY <1>1, <1>2 DEF Walked
<1> QED BY <1>1, <1>2, <1>3 DEF HInv

\* The levels found are the levels the header covers.
LEMMA CoveredIsWalked == HInv => LevelsAreCovered
<1> SUFFICES ASSUME HInv, walk = "returned"
             PROVE  /\ Len(sizes) = Len(Among(Covered, Images))
                    /\ \A i \in DOMAIN sizes : /\ sizes[i][1] \in Meant(Among(Covered, Images)[i], IMAGE_WIDTH)
                                               /\ sizes[i][2] \in Meant(Among(Covered, Images)[i], IMAGE_LENGTH)
  BY DEF LevelsAreCovered
<1>1. file \in Files /\ length \in Nat
  BY DEF HInv
<1>2. PICK k \in Nat : Walked(k) /\ (k < Len(file.ifds) => ~Whole(k + 1))
  BY DEF HInv
<1>3. file.ifds \in Seq(Ifds) /\ Len(file.ifds) \in Nat /\ k \in 0..Len(file.ifds) /\ \A i \in 1..k : Whole(i)
  BY <1>1, <1>2, ChainOf DEF Walked
<1> DEFINE Ends(n) == (\A i \in 1..n : Whole(i)) /\ (n < Len(file.ifds) => ~Whole(n + 1))
<1>4. ASSUME NEW n \in 0..Len(file.ifds), Ends(n) PROVE n = k
  <2>1. CASE n < k
    <3>1. n + 1 \in 1..k /\ n < Len(file.ifds)
      BY <2>1, <1>3
    <3> QED BY <3>1, <1>3, <1>4
  <2>2. CASE k < n
    <3>1. k + 1 \in 1..n /\ k < Len(file.ifds)
      BY <2>2, <1>3
    <3> QED BY <3>1, <1>2, <1>4
  <2> QED BY <2>1, <2>2, <1>3
<1>5. Ends(k)
  BY <1>2, <1>3
<1>6. k = CHOOSE n \in 0..Len(file.ifds) : Ends(n)
  <2> HIDE DEF Ends
  <2> QED BY <1>3, <1>4, <1>5, Zenon
<1>7. Covered = SubSeq(file.ifds, 1, k)
  BY <1>6 DEF Covered
<1>8. Among(Covered, Images) = Img(k)
  BY <1>3, <1>7, AmongPrefix DEF Img
<1>9. DOMAIN sizes = 1..Len(sizes)
  BY <1>2 DEF Walked
<1> QED BY <1>2, <1>8, <1>9 DEF Walked

(***************************************************************************)
(* The notebook on one granule.                                            *)
(***************************************************************************)

\* Both parts of the demo keep their invariants.
THEOREM GranuleInvariant == Spec => [](WInv /\ HInv)
<1>1. Init => WInv /\ HInv
  <2> SUFFICES ASSUME Init PROVE WInv /\ HInv
    OBVIOUS
  <2>1. HInv
    BY LengthAssumption DEF Init, WalkInit, HInv
  <2> QED BY <2>1, WInitKeeps DEF Init
<1>2. WInv /\ HInv /\ [Next]_vars => WInv' /\ HInv'
  <2> SUFFICES ASSUME WInv, HInv, [Next]_vars PROVE WInv' /\ HInv'
    OBVIOUS
  <2>1. CASE ParseIfds /\ UNCHANGED writeVars
    BY <2>1, SameWriteKeeps, NotATiffKeeps, ReadStartKeeps, ReadIfdKeeps, BreakKeeps DEF ParseIfds
  <2>2. CASE WriteNext
    BY <2>2, CallKeeps, WriteNextEndsWalk DEF WriteNext
  <2>3. CASE WriteGranule /\ UNCHANGED walkVars
    BY <2>3, WriteGranuleKeeps, SameWalkKeeps
  <2>4. CASE Done \/ UNCHANGED vars
    <3>1. UNCHANGED writeVars /\ UNCHANGED walkVars
      BY <2>4 DEF Done, vars
    <3> QED BY <3>1, SameWriteKeeps, SameWalkKeeps
  <2> QED BY <2>1, <2>2, <2>3, <2>4 DEF Next
<1> QED BY <1>1, <1>2, PTL DEF Spec

\* Nothing is staged before the record and all of its bands were found right
\* (virtual_granule comes before the first write of write_granule_to_store).
THEOREM ReadsBeforeItStages == Spec => []NothingStagedUnread
BY GranuleInvariant, ReadBeforeStaged, PTL

\* write_granule returns with every level and every band's attributes staged.
THEOREM ReturnsWhole == Spec => []ReturnedIsWhole
BY GranuleInvariant, WholeAtReturn, PTL

\* The layout in a band's attributes names the arrays below the band, whatever
\* the depth of its pyramid (multiscale_layout).
THEOREM LayoutsResolve == Spec => []LayoutResolves
BY GranuleInvariant, LayoutNamesArrays, PTL

\* The bounds of the first band are those of its pixels, for every north-up
\* transform and every shape (granule_attrs).
THEOREM BoundsArePixels == Spec => []BoundsAreThePixels
BY GranuleInvariant, BoundsOfTheFirst, PTL

\* A header cut at any length yields the sizes of the levels it covers, whatever
\* the chain, the byte order and the width of the values (parse_ifds).
THEOREM FindsTheLevels == Spec => []LevelsAreCovered
BY GranuleInvariant, CoveredIsWalked, PTL

\* parse_ifds reads nothing behind the header.
THEOREM StaysInHeader == Spec => []ReadsInHeader
<1>1. HInv => ReadsInHeader
  BY DEF HInv, ReadsInHeader
<1> QED BY <1>1, GranuleInvariant, PTL
=============================================================================
