---------------------------- MODULE ReadingProofs ----------------------------
(***************************************************************************)
(* Theorems about Reading, for any number of readers, tables, branches,    *)
(* tags and snapshots.                                                     *)
(***************************************************************************)
EXTENDS Reading, FiniteSetTheorems, TLAPS

(***************************************************************************)
(* The inductive invariant.                                                *)
(***************************************************************************)

Snap ==
    [arrays : [Tables -> Nat], conventions : SUBSET {"iceberg:", "other"},
     bindings : [Tables -> Locations \cup {Nil}], pointers : [Tables -> Loc \cup {Nil}]]

Version == [rows : Nat, props : [gc : BOOLEAN, purge : BOOLEAN], log : Seq(Nat)]

Answers == [rows : Nat] \cup [error : {"FileNotFoundError", "KeyError", "ValueError"}]

Handle  == [snap : Nat, store : Nat \cup {Nil}, answers : [Tables -> SUBSET Answers]]

\* The shape of what writers leave; every branch and tag names a snapshot, and no
\* metadata file has a number that is still to come.
StoreShape ==
    /\ snaps \in Seq(Snap) /\ snaps # << >>
    /\ tip \in [Branches -> DOMAIN snaps]
    /\ tags \in [Tags -> DOMAIN snaps \cup {Nil}]
    /\ DOMAIN warehouse \subseteq Loc /\ written \in Nat
    /\ \A l \in DOMAIN warehouse : warehouse[l] \in Version /\ l.n <= written
    /\ asked \subseteq Tables

\* The version a snapshot names, if its file is there, has a row for each array
\* of the table in that snapshot; a table without version has no arrays.  A name
\* is the table's, and is not still to come.
Lockstep(i) ==
    \A t \in Tables :
        LET l == snaps[i].pointers[t] IN
        /\ l = Nil => snaps[i].arrays[t] = 0
        /\ l # Nil => l.table = t /\ l.n <= written
        /\ l \in DOMAIN warehouse => warehouse[l].rows = snaps[i].arrays[t]

\* The files of a table whose creator overrode no safety property are all there.
Resolves(i) ==
    \A t \in Tables \ asked : snaps[i].pointers[t] \in DOMAIN warehouse \cup {Nil}

\* A table that is bound was declared under the convention.
Declared(i) ==
    \A t \in Tables : snaps[i].bindings[t] # Nil => "iceberg:" \in snaps[i].conventions

SnapInv(i) == Lockstep(i) /\ Resolves(i) /\ Declared(i)

\* Whether a version lets Iceberg delete any file.
Unsafe(v) == v.props.gc \/ v.props.purge

\* Only a table whose creator asked for it has such a version.
Guarded == \A l \in DOMAIN warehouse : Unsafe(warehouse[l]) => l.table \in asked

\* What HybridSnapshot.table answers as long as no file is cleaned up.
Proper(i, t) ==
    IF snaps[i].pointers[t] # Nil THEN [rows |-> snaps[i].arrays[t]]
    ELSE [error |-> IF snaps[i].bindings[t] = Nil THEN "KeyError" ELSE "ValueError"]

\* A reader stays at one snapshot, and every answer it got is the proper one, or
\* says that the file of a table whose creator let Iceberg clean up is gone.
HandleInv(h) ==
    /\ h.snap \in DOMAIN snaps
    /\ h.store # Nil => h.store = h.snap
    /\ \A t \in Tables : \A a \in h.answers[t] :
          \/ a = Proper(h.snap, t)
          \/ a = [error |-> "FileNotFoundError"] /\ t \in asked

IInv ==
    /\ StoreShape /\ Guarded
    /\ \A i \in DOMAIN snaps : SnapInv(i)
    /\ handle \in [Readers -> Handle \cup {Nil}]
    /\ \A r \in Readers : handle[r] # Nil => HandleInv(handle[r])

(***************************************************************************)
(* One more snapshot.                                                      *)
(***************************************************************************)

\* What is in the repository after a commit.
LEMMA Committing ==
    ASSUME StoreShape, NEW b \in Branches, NEW s \in Snap, Publish(b, s)
    PROVE  /\ Len(snaps) \in Nat \ {0} /\ DOMAIN snaps = 1..Len(snaps)
           /\ Len(snaps') = Len(snaps) + 1 /\ DOMAIN snaps' = 1..(Len(snaps) + 1)
           /\ \A i \in DOMAIN snaps : snaps'[i] = snaps[i] /\ snaps[i] \in Snap
           /\ snaps'[Len(snaps) + 1] = s
           /\ snaps' \in Seq(Snap) /\ snaps' # << >>
           /\ tip' \in [Branches -> DOMAIN snaps']
           /\ tip'[b] = Len(snaps) + 1 /\ \A c \in Branches \ {b} : tip'[c] = tip[c]
<1>1. Len(snaps) \in Nat \ {0} /\ DOMAIN snaps = 1..Len(snaps)
  BY DEF StoreShape
<1>2. /\ snaps' = Append(snaps, s)
      /\ tip' = [tip EXCEPT ![b] = Len(snaps) + 1]
  BY DEF Publish
<1>3. /\ Len(snaps') = Len(snaps) + 1 /\ DOMAIN snaps' = 1..(Len(snaps) + 1)
      /\ \A i \in DOMAIN snaps : snaps'[i] = snaps[i] /\ snaps[i] \in Snap
      /\ snaps'[Len(snaps) + 1] = s
      /\ snaps' \in Seq(Snap) /\ snaps' # << >>
  BY <1>1, <1>2 DEF StoreShape
<1>4. /\ tip' \in [Branches -> DOMAIN snaps']
      /\ tip'[b] = Len(snaps) + 1 /\ \A c \in Branches \ {b} : tip'[c] = tip[c]
  BY <1>1, <1>2, <1>3 DEF StoreShape
<1> QED BY <1>1, <1>3, <1>4

\* The snapshot a branch is at.
LEMMA CurrentType ==
    ASSUME StoreShape, NEW b \in Branches
    PROVE  tip[b] \in DOMAIN snaps /\ Current(b) \in Snap /\ Current(b) = snaps[tip[b]]
BY DEF StoreShape, Current

\* What a snapshot points at.
LEMMA PointerType ==
    ASSUME StoreShape, NEW i \in DOMAIN snaps, NEW t \in Tables
    PROVE  /\ snaps[i].pointers[t] # Nil => snaps[i].pointers[t].n \in Nat
           /\ snaps[i].arrays[t] \in Nat
<1>1. snaps[i] \in Snap
  BY DEF StoreShape
<1> QED BY <1>1 DEF Snap, Loc

\* A new metadata.json has a name that nothing has.
LEMMA NewName ==
    ASSUME IInv, NEW t \in Tables
    PROVE  /\ MetadataLocation(t) \in Loc /\ MetadataLocation(t) # Nil
           /\ MetadataLocation(t).table = t /\ MetadataLocation(t).n = written + 1
           /\ MetadataLocation(t) \notin DOMAIN warehouse
           /\ \A i \in DOMAIN snaps : \A u \in Tables :
                 snaps[i].pointers[u] # MetadataLocation(t)
<1>0. StoreShape /\ \A i \in DOMAIN snaps : Lockstep(i)
  BY DEF IInv, SnapInv
<1>1. written \in Nat
  BY <1>0 DEF StoreShape
<1>2. /\ MetadataLocation(t) \in Loc /\ MetadataLocation(t) # Nil
      /\ MetadataLocation(t).table = t /\ MetadataLocation(t).n = written + 1
  BY <1>1, NilAssumption DEF MetadataLocation, Loc
<1>3. \A i \in DOMAIN snaps : \A u \in Tables : snaps[i].pointers[u] # MetadataLocation(t)
  BY <1>0, <1>1, <1>2 DEF Lockstep
<1>4. MetadataLocation(t) \notin DOMAIN warehouse
  BY <1>0, <1>1, <1>2 DEF StoreShape
<1> QED BY <1>2, <1>3, <1>4

\* The warehouse after a version was written under such a name and other files
\* deleted.
Wrote(t, v, gone) ==
    /\ DOMAIN warehouse' = (DOMAIN warehouse \ gone) \cup {MetadataLocation(t)}
    /\ warehouse'[MetadataLocation(t)] = v
    /\ \A l \in DOMAIN warehouse \ gone : warehouse'[l] = warehouse[l]
    /\ DOMAIN warehouse' \subseteq Loc
    /\ \A l \in DOMAIN warehouse' : warehouse'[l] \in Version /\ l.n <= written'
    /\ written \in Nat /\ written' = written + 1

\* Every write leaves it so.
LEMMA Writing ==
    ASSUME IInv, NEW t \in Tables, NEW v \in Version, NEW gone,
           WriteMetadata(MetadataLocation(t), v, gone)
    PROVE  Wrote(t, v, gone)
<1>1. /\ MetadataLocation(t) \notin DOMAIN warehouse /\ MetadataLocation(t) \in Loc /\ StoreShape
      /\ MetadataLocation(t).n = written + 1
  BY NewName DEF IInv
<1>2. /\ DOMAIN warehouse' = (DOMAIN warehouse \ gone) \cup {MetadataLocation(t)}
      /\ warehouse'[MetadataLocation(t)] = v
      /\ \A l \in DOMAIN warehouse \ gone : warehouse'[l] = warehouse[l]
      /\ written \in Nat /\ written' = written + 1
  BY <1>1 DEF WriteMetadata, StoreShape
<1>3. \A l \in DOMAIN warehouse' : l \in Loc /\ warehouse'[l] \in Version /\ l.n <= written'
  <2> SUFFICES ASSUME NEW l \in DOMAIN warehouse'
               PROVE  l \in Loc /\ warehouse'[l] \in Version /\ l.n <= written'
    OBVIOUS
  <2>1. CASE l = MetadataLocation(t)
    BY <1>1, <1>2, <2>1
  <2>2. CASE l \in DOMAIN warehouse \ gone
    <3>1. l \in Loc /\ warehouse[l] \in Version /\ l.n \in Nat /\ l.n <= written
      BY <1>1, <2>2 DEF StoreShape, Loc
    <3> QED BY <1>2, <2>2, <3>1
  <2> QED BY <1>2, <2>1, <2>2
<1> QED BY <1>2, <1>3 DEF Wrote

\* If only files of tables whose creators asked for it are deleted, the snapshots
\* there were find theirs as before.
LEMMA OldSnapsKeep ==
    ASSUME IInv, NEW t \in Tables, NEW v \in Version, NEW gone,
           WriteMetadata(MetadataLocation(t), v, gone),
           \A l \in gone : l.table \in asked, asked \subseteq asked',
           NEW i \in DOMAIN snaps, snaps'[i] = snaps[i]
    PROVE  SnapInv(i)'
<1> DEFINE loc == MetadataLocation(t)
<1>a. Wrote(t, v, gone)
  BY Writing
<1>0. /\ StoreShape /\ SnapInv(i)
      /\ DOMAIN warehouse' = (DOMAIN warehouse \ gone) \cup {loc}
      /\ \A l \in DOMAIN warehouse \ gone : warehouse'[l] = warehouse[l]
      /\ written \in Nat /\ written' = written + 1
      /\ \A u \in Tables : snaps[i].pointers[u] # loc
  BY <1>a, NewName DEF IInv, Wrote
<1> HIDE DEF loc
<1>1. Lockstep(i)'
  BY <1>0, PointerType DEF SnapInv, Lockstep
<1>2. Resolves(i)'
  <2> SUFFICES ASSUME NEW u \in Tables \ asked', snaps[i].pointers[u] # Nil
               PROVE  snaps[i].pointers[u] \in DOMAIN warehouse'
    BY DEF Resolves
  <2>1. snaps[i].pointers[u] \in DOMAIN warehouse /\ snaps[i].pointers[u].table = u
    BY <1>0 DEF SnapInv, Resolves, Lockstep
  <2> QED BY <1>0, <2>1
<1>3. Declared(i)'
  BY <1>0 DEF SnapInv, Declared
<1> QED BY <1>1, <1>2, <1>3 DEF SnapInv

\* So are those whose properties forbid it kept apart from the ones that allow it.
LEMMA StaysGuarded ==
    ASSUME IInv, NEW t \in Tables, NEW v \in Version, NEW gone,
           WriteMetadata(MetadataLocation(t), v, gone),
           asked \subseteq asked', Unsafe(v) => t \in asked'
    PROVE  Guarded'
<1> DEFINE loc == MetadataLocation(t)
<1>a. Wrote(t, v, gone)
  BY Writing
<1>0. /\ Guarded /\ loc.table = t /\ warehouse'[loc] = v
      /\ DOMAIN warehouse' = (DOMAIN warehouse \ gone) \cup {loc}
      /\ \A l \in DOMAIN warehouse \ gone : warehouse'[l] = warehouse[l]
  BY <1>a, NewName DEF IInv, Wrote
<1> HIDE DEF loc
<1> QED BY <1>0 DEF Guarded, Unsafe

\* Commits leave readers and their answers alone.
LEMMA ReadersStay ==
    ASSUME IInv, handle' = handle, asked \subseteq asked',
           \A i \in DOMAIN snaps : i \in DOMAIN snaps' /\ snaps'[i] = snaps[i]
    PROVE  /\ handle' \in [Readers -> Handle \cup {Nil}]
           /\ \A r \in Readers : handle'[r] # Nil => HandleInv(handle[r])'
<1>1. handle' \in [Readers -> Handle \cup {Nil}]
  BY DEF IInv
<1>2. ASSUME NEW r \in Readers, handle[r] # Nil
      PROVE  HandleInv(handle[r])'
  <2>1. HandleInv(handle[r])
    BY <1>2 DEF IInv
  <2>2. \A t \in Tables : Proper(handle[r].snap, t)' = Proper(handle[r].snap, t)
    BY <2>1 DEF HandleInv, Proper
  <2> QED BY <2>1, <2>2 DEF HandleInv
<1> QED BY <1>1, <1>2

\* A commit that writes no table version.
LEMMA PlainCommit ==
    ASSUME IInv, NEW b \in Branches, NEW s \in Snap, Publish(b, s),
           s.pointers = Current(b).pointers, s.arrays = Current(b).arrays,
           \A t \in Tables : s.bindings[t] # Nil => "iceberg:" \in s.conventions,
           UNCHANGED <<tags, warehouse, written, asked, handle>>
    PROVE  IInv'
<1>0. StoreShape /\ Guarded /\ \A i \in DOMAIN snaps : SnapInv(i)
  BY DEF IInv
<1>1. /\ Len(snaps) \in Nat \ {0} /\ DOMAIN snaps = 1..Len(snaps)
      /\ Len(snaps') = Len(snaps) + 1 /\ DOMAIN snaps' = 1..(Len(snaps) + 1)
      /\ \A i \in DOMAIN snaps : snaps'[i] = snaps[i] /\ snaps[i] \in Snap
      /\ snaps'[Len(snaps) + 1] = s
  BY <1>0, Committing
<1>2. StoreShape'
  BY <1>0, <1>1, Committing DEF StoreShape
<1>3. ASSUME NEW i \in DOMAIN snaps'
      PROVE  SnapInv(i)'
  <2>1. PICK j \in DOMAIN snaps : /\ snaps'[i].pointers = snaps[j].pointers
                                  /\ snaps'[i].arrays = snaps[j].arrays
    BY <1>0, <1>1, CurrentType
  <2>2. Lockstep(i)'
    BY <1>0, <1>1, <2>1, PointerType DEF SnapInv, Lockstep
  <2>3. Resolves(i)'
    BY <1>0, <1>1, <2>1 DEF SnapInv, Resolves
  <2>4. Declared(i)'
    BY <1>0, <1>1 DEF SnapInv, Declared
  <2> QED BY <2>2, <2>3, <2>4 DEF SnapInv
<1>4. Guarded'
  BY <1>0, <1>1 DEF Guarded
<1> QED BY <1>1, <1>2, <1>3, <1>4, ReadersStay DEF IInv

\* A commit that writes the next version of table t.
LEMMA VersionCommit ==
    ASSUME IInv, NEW b \in Branches, NEW s \in Snap, Publish(b, s),
           NEW t \in Tables, NEW v \in Version, NEW gone,
           WriteMetadata(MetadataLocation(t), v, gone), \A l \in gone : l.table \in asked,
           s.pointers = [Current(b).pointers EXCEPT ![t] = MetadataLocation(t)],
           s.arrays[t] = v.rows,
           \A u \in Tables \ {t} : s.arrays[u] = Current(b).arrays[u],
           \A u \in Tables : s.bindings[u] # Nil => "iceberg:" \in s.conventions,
           asked \subseteq asked', asked' \subseteq Tables, Unsafe(v) => t \in asked',
           UNCHANGED <<tags, handle>>
    PROVE  IInv'
<1> DEFINE loc == MetadataLocation(t)
<1>0. StoreShape /\ Guarded /\ \A i \in DOMAIN snaps : SnapInv(i)
  BY DEF IInv
<1>1. /\ Len(snaps) \in Nat \ {0} /\ DOMAIN snaps = 1..Len(snaps)
      /\ Len(snaps') = Len(snaps) + 1 /\ DOMAIN snaps' = 1..(Len(snaps) + 1)
      /\ \A i \in DOMAIN snaps : snaps'[i] = snaps[i] /\ snaps[i] \in Snap
      /\ snaps'[Len(snaps) + 1] = s
  BY <1>0, Committing
<1>a. Wrote(t, v, gone)
  BY Writing
<1>2. /\ DOMAIN warehouse' = (DOMAIN warehouse \ gone) \cup {loc} /\ warehouse'[loc] = v
      /\ \A l \in DOMAIN warehouse \ gone : warehouse'[l] = warehouse[l]
      /\ written \in Nat /\ written' = written + 1
  BY <1>a DEF Wrote
<1>3. /\ loc # Nil /\ loc.table = t /\ loc.n = written + 1 /\ loc \notin DOMAIN warehouse
      /\ \A i \in DOMAIN snaps : \A u \in Tables : snaps[i].pointers[u] # loc
  BY NewName
<1>4. s.pointers[t] = loc /\ \A u \in Tables \ {t} : s.pointers[u] = Current(b).pointers[u]
  BY <1>0, CurrentType DEF Snap
<1>5. StoreShape'
  <2>1. /\ snaps' \in Seq(Snap) /\ snaps' # << >> /\ tip' \in [Branches -> DOMAIN snaps']
        /\ DOMAIN snaps \subseteq DOMAIN snaps'
    BY <1>0, <1>1, Committing
  <2>2. /\ DOMAIN warehouse' \subseteq Loc /\ written' \in Nat
        /\ \A l \in DOMAIN warehouse' : warehouse'[l] \in Version /\ l.n <= written'
    BY <1>2, <1>a DEF Wrote
  <2> QED BY <1>0, <2>1, <2>2 DEF StoreShape
<1>6. ASSUME NEW i \in DOMAIN snaps
      PROVE  SnapInv(i)'
  BY <1>1, <1>6, OldSnapsKeep
<1>8. Guarded'
  BY StaysGuarded
<1> HIDE DEF loc
<1>7. ASSUME NEW i, i = Len(snaps) + 1
      PROVE  SnapInv(i)'
  <2>1. /\ tip[b] \in DOMAIN snaps /\ Current(b) = snaps[tip[b]] /\ SnapInv(tip[b])
        /\ snaps'[i] = s
    BY <1>0, <1>1, <1>7, CurrentType
  <2>2. ASSUME NEW u \in Tables
        PROVE  /\ s.pointers[u] = Nil => s.arrays[u] = 0
               /\ s.pointers[u] # Nil => s.pointers[u].table = u /\ s.pointers[u].n <= written'
               /\ s.pointers[u] \in DOMAIN warehouse' =>
                     warehouse'[s.pointers[u]].rows = s.arrays[u]
               /\ u \notin asked' => s.pointers[u] \in DOMAIN warehouse' \cup {Nil}
    <3>1. CASE u = t
      BY <1>1, <1>2, <1>3, <1>4, <3>1
    <3>2. CASE u # t
      <4>1. /\ s.pointers[u] = snaps[tip[b]].pointers[u] /\ s.arrays[u] = snaps[tip[b]].arrays[u]
            /\ s.pointers[u] # loc
        BY <1>3, <1>4, <2>1, <3>2
      <4>2. u \notin asked' => s.pointers[u] \in DOMAIN warehouse' \cup {Nil}
        BY <1>2, <2>1, <4>1 DEF SnapInv, Resolves, Lockstep
      <4> QED BY <1>0, <1>1, <1>2, <2>1, <4>1, <4>2, PointerType, SMTT(30) DEF SnapInv, Lockstep
    <3> QED BY <3>1, <3>2
  <2>3. Lockstep(i)' /\ Resolves(i)'
    BY <2>1, <2>2 DEF Lockstep, Resolves
  <2>4. Declared(i)'
    BY <2>1 DEF Declared
  <2> QED BY <2>3, <2>4 DEF SnapInv
<1>10. \A i \in DOMAIN snaps' : SnapInv(i)'
  BY <1>1, <1>6, <1>7
<1> QED BY <1>1, <1>5, <1>8, <1>10, ReadersStay DEF IInv

(***************************************************************************)
(* The steps.                                                              *)
(***************************************************************************)

\* A declaration adds to the root group's attributes.
LEMMA DeclareType ==
    ASSUME NEW s \in Snap, NEW t \in Tables, NEW location \in Locations
    PROVE  LET d == Declare(s, t, location) IN
           /\ d \in Snap /\ d.pointers = s.pointers /\ d.arrays = s.arrays
           /\ "iceberg:" \in d.conventions /\ s.conventions \subseteq d.conventions
           /\ d.bindings[t] # Nil
           /\ \A u \in Tables \ {t} : d.bindings[u] = s.bindings[u]
BY LocationAssumption DEF Declare, Snap

\* The transaction of create_table.
LEMMA CreateKeeps ==
    ASSUME IInv, NEW b \in Branches, NEW t \in Tables, NEW location \in Locations,
           NEW props \in Properties, CreateTable(b, t, location, props)
    PROVE  IInv'
<1> DEFINE d   == Declare(Current(b), t, location)
           loc == MetadataLocation(t)
           s   == [d EXCEPT !.pointers[t] = loc]
           v   == FirstVersion(props)
           no  == {}
<1>0. StoreShape /\ Current(b) \in Snap /\ Current(b) = snaps[tip[b]] /\ SnapInv(tip[b])
  BY CurrentType DEF IInv
<1>1. /\ d \in Snap /\ d.pointers = Current(b).pointers /\ d.arrays = Current(b).arrays
      /\ "iceberg:" \in d.conventions
  BY <1>0, DeclareType
<1>2. UNCHANGED <<tags, handle>>
  BY DEF CreateTable
<1>3. CASE Current(b).pointers[t] # Nil
  <2>1. Publish(b, d) /\ UNCHANGED <<warehouse, written, asked>>
    BY <1>3 DEF CreateTable
  <2> HIDE DEF d
  <2> QED BY <1>1, <1>2, <2>1, PlainCommit
<1>4. CASE Current(b).pointers[t] = Nil
  <2>1. /\ Publish(b, s) /\ WriteMetadata(loc, v, no) /\ \A l \in no : l.table \in asked
        /\ asked' = IF TRUE \in {props.gc, props.purge} THEN asked \cup {t} ELSE asked
    BY <1>4 DEF CreateTable
  <2>2. v \in Version /\ (Unsafe(v) => t \in asked') /\ v.rows = 0
    <3>1. /\ props.gc \in BOOLEAN \cup {Nil} /\ props.purge \in BOOLEAN \cup {Nil}
      BY PropertyAssumption
    <3>2. /\ TableProperties(props) \in [gc : BOOLEAN, purge : BOOLEAN]
          /\ TableProperties(props).gc \/ TableProperties(props).purge
                => TRUE \in {props.gc, props.purge}
      BY <3>1 DEF TableProperties, SAFETY_PROPERTIES
    <3>3. /\ v.rows = 0 /\ v.props = TableProperties(props) /\ v \in Version
      BY <3>2 DEF FirstVersion, Version
    <3>4. Unsafe(v) => TRUE \in {props.gc, props.purge}
      BY <3>2, <3>3 DEF Unsafe
    <3> QED BY <2>1, <3>3, <3>4
  <2>3. asked \subseteq asked' /\ asked' \subseteq Tables
    BY <1>0, <2>1 DEF StoreShape
  <2>4. loc \in Loc
    BY NewName
  <2>5. Current(b).arrays[t] = 0
    BY <1>0, <1>4 DEF SnapInv, Lockstep
  <2> HIDE DEF d, v, loc, no
  <2>6. /\ s \in Snap /\ s.pointers = [Current(b).pointers EXCEPT ![t] = loc]
        /\ s.arrays = Current(b).arrays /\ s.conventions = d.conventions
    BY <1>1, <2>4 DEF Snap
  <2> HIDE DEF s
  <2> QED BY <1>1, <1>2, <2>1, <2>2, <2>3, <2>5, <2>6, VersionCommit DEF loc
<1> QED BY <1>3, <1>4

\* The version an append writes, and the files it has PyIceberg delete.
LEMMA Appending ==
    ASSUME IInv, NEW i \in DOMAIN snaps, NEW t \in Tables,
           snaps[i].pointers[t] \in DOMAIN warehouse
    PROVE  LET old == snaps[i].pointers[t]
               v   == NextVersion(warehouse[old], old.n)
           IN  /\ v \in Version /\ v.rows = snaps[i].arrays[t] + 1
               /\ Unsafe(v) => t \in asked
               /\ \A l \in Purged(t, warehouse[old]) : l.table \in asked
<1> DEFINE old == snaps[i].pointers[t]
           w   == warehouse[old]
           log == Append(IF Len(w.log) < Kept THEN w.log ELSE Tail(w.log), old.n)
<1>1. /\ StoreShape /\ Guarded /\ old \in DOMAIN warehouse /\ old # Nil /\ old.table = t
      /\ w.rows = snaps[i].arrays[t] /\ w \in Version /\ old.n \in Nat
  BY NilAssumption DEF IInv, SnapInv, Lockstep, StoreShape, Loc
<1>2. Unsafe(w) => t \in asked
  BY <1>1 DEF Guarded
<1> HIDE DEF w, old
<1>3. log \in Seq(Nat)
  <2>1. w.log \in Seq(Nat) /\ Kept \in Nat \ {0}
    BY <1>1, BoundAssumption DEF Version
  <2> QED BY <1>1, <2>1
<1> HIDE DEF log
<1>4. /\ NextVersion(w, old.n) = [w EXCEPT !.rows = w.rows + 1, !.log = log]
      /\ w.rows \in Nat
  BY <1>1 DEF NextVersion, log, Version
<1>5. /\ NextVersion(w, old.n) \in Version /\ NextVersion(w, old.n).rows = w.rows + 1
      /\ NextVersion(w, old.n).props = w.props
  <2>1. PICK n \in Nat : n = w.rows + 1
    BY <1>4
  <2>2. NextVersion(w, old.n) = [w EXCEPT !.rows = n, !.log = log]
    BY <1>4, <2>1
  <2>3. w \in Version
    BY <1>1
  <2> QED BY <1>3, <2>1, <2>2, <2>3 DEF Version
<1>6. Unsafe(NextVersion(w, old.n)) => t \in asked
  BY <1>2, <1>5 DEF Unsafe
<1>7. \A l \in Purged(t, w) : l.table \in asked
  BY <1>2 DEF Purged, Unsafe
<1> QED BY <1>1, <1>5, <1>6, <1>7 DEF w, old

\* The transaction of an ingest.
LEMMA IngestKeeps ==
    ASSUME IInv, NEW b \in Branches, NEW t \in Tables, Ingest(b, t)
    PROVE  IInv'
<1> DEFINE cur == Current(b)
           old == Current(b).pointers[t]
           loc == MetadataLocation(t)
           s   == [cur EXCEPT !.arrays[t] = @ + 1, !.pointers[t] = loc]
           v   == NextVersion(warehouse[old], old.n)
           gone == Purged(t, warehouse[old])
<1>0. /\ StoreShape /\ cur \in Snap /\ cur = snaps[tip[b]] /\ SnapInv(tip[b])
      /\ loc \in Loc /\ tip[b] \in DOMAIN snaps
  BY CurrentType, NewName DEF IInv
<1>1. /\ old \in DOMAIN warehouse /\ Publish(b, s) /\ WriteMetadata(loc, v, gone)
      /\ UNCHANGED <<tags, asked, handle>>
  BY DEF Ingest, StageAppend
<1>3. /\ v \in Version /\ v.rows = cur.arrays[t] + 1 /\ (Unsafe(v) => t \in asked)
      /\ \A l \in gone : l.table \in asked
  BY <1>0, <1>1, Appending
<1>5. \A u \in Tables : cur.bindings[u] # Nil => "iceberg:" \in cur.conventions
  BY <1>0 DEF SnapInv, Declared
<1> HIDE DEF cur, v, loc, gone
<1>6. /\ s \in Snap /\ s.pointers = [cur.pointers EXCEPT ![t] = loc]
      /\ s.arrays[t] = cur.arrays[t] + 1 /\ \A u \in Tables \ {t} : s.arrays[u] = cur.arrays[u]
      /\ s.bindings = cur.bindings /\ s.conventions = cur.conventions
  <2> DEFINE a == [cur.arrays EXCEPT ![t] = @ + 1]
             p == [cur.pointers EXCEPT ![t] = loc]
  <2>1. /\ a \in [Tables -> Nat] /\ a[t] = cur.arrays[t] + 1
        /\ \A u \in Tables \ {t} : a[u] = cur.arrays[u]
        /\ p \in [Tables -> Loc \cup {Nil}]
    BY <1>0 DEF Snap
  <2>2. s = [cur EXCEPT !.arrays = a, !.pointers = p]
    BY <1>0 DEF Snap
  <2> HIDE DEF a, s
  <2>3. /\ s \in Snap /\ s.arrays = a /\ s.pointers = p
        /\ s.bindings = cur.bindings /\ s.conventions = cur.conventions
    BY <1>0, <2>1, <2>2 DEF Snap
  <2> QED BY <2>1, <2>3
<1> HIDE DEF s
<1>7. /\ s.pointers = [Current(b).pointers EXCEPT ![t] = MetadataLocation(t)]
      /\ s.arrays[t] = v.rows
      /\ \A u \in Tables \ {t} : s.arrays[u] = Current(b).arrays[u]
      /\ \A u \in Tables : s.bindings[u] # Nil => "iceberg:" \in s.conventions
      /\ WriteMetadata(MetadataLocation(t), v, gone)
  BY <1>1, <1>3, <1>5, <1>6 DEF cur, loc
<1>8. asked \subseteq asked' /\ asked' \subseteq Tables /\ (Unsafe(v) => t \in asked')
  BY <1>0, <1>1, <1>3 DEF StoreShape
<1> QED BY <1>1, <1>3, <1>6, <1>7, <1>8, VersionCommit

\* An append that is never published leaves a file no snapshot points at, and
\* deletes none that a snapshot needs.
LEMMA AbandonKeeps ==
    ASSUME IInv, NEW b \in Branches, NEW t \in Tables, Abandon(b, t)
    PROVE  IInv'
<1> DEFINE old  == Current(b).pointers[t]
           v    == NextVersion(warehouse[old], old.n)
           gone == Purged(t, warehouse[old])
<1>0. /\ StoreShape /\ tip[b] \in DOMAIN snaps /\ Current(b) = snaps[tip[b]]
      /\ old \in DOMAIN warehouse /\ WriteMetadata(MetadataLocation(t), v, gone)
      /\ UNCHANGED <<snaps, tip, tags, asked, handle>>
  BY CurrentType DEF IInv, Abandon, StageAppend
<1>1. /\ v \in Version /\ (Unsafe(v) => t \in asked)
      /\ \A l \in gone : l.table \in asked
  BY <1>0, Appending
<1> HIDE DEF v, gone
<1>2. StoreShape'
  <2>1. Wrote(t, v, gone)
    BY <1>0, <1>1, Writing
  <2> QED BY <1>0, <2>1 DEF StoreShape, Wrote
<1>3. Guarded'
  BY <1>0, <1>1, StaysGuarded
<1>4. \A i \in DOMAIN snaps' : SnapInv(i)'
  BY <1>0, <1>1, OldSnapsKeep
<1> QED BY <1>0, <1>2, <1>3, <1>4, ReadersStay DEF IInv

\* Another convention is registered.
LEMMA ConventionKeeps ==
    ASSUME IInv, NEW b \in Branches, AddConvention(b)
    PROVE  IInv'
<1> DEFINE s == [Current(b) EXCEPT !.conventions = @ \cup {"other"}]
<1>0. StoreShape /\ Current(b) \in Snap /\ Current(b) = snaps[tip[b]] /\ SnapInv(tip[b])
  BY CurrentType DEF IInv
<1>1. Publish(b, s) /\ UNCHANGED <<tags, warehouse, written, asked, handle>>
  BY DEF AddConvention
<1>2. /\ s \in Snap /\ s.pointers = Current(b).pointers /\ s.arrays = Current(b).arrays
      /\ s.bindings = Current(b).bindings /\ Current(b).conventions \subseteq s.conventions
  BY <1>0 DEF Snap
<1>3. \A t \in Tables : s.bindings[t] # Nil => "iceberg:" \in s.conventions
  BY <1>0, <1>2 DEF SnapInv, Declared
<1> HIDE DEF s
<1> QED BY <1>1, <1>2, <1>3, PlainCommit

\* A tag is created.
LEMMA TagKeeps ==
    ASSUME IInv, NEW b \in Branches, NEW tag \in Tags, CreateTag(b, tag)
    PROVE  IInv'
<1>0. /\ StoreShape /\ UNCHANGED <<snaps, tip, warehouse, written, asked, handle>>
      /\ tags' = [tags EXCEPT ![tag] = tip[b]]
  BY DEF IInv, CreateTag
<1>1. StoreShape'
  BY <1>0 DEF StoreShape
<1>2. Guarded' /\ \A i \in DOMAIN snaps' : SnapInv(i)'
  BY <1>0 DEF IInv, Guarded, SnapInv, Lockstep, Resolves, Declared
<1> QED BY <1>0, <1>1, <1>2, ReadersStay DEF IInv

\* Iceberg's cleanup takes files only of a table whose creator asked for it.
LEMMA MaintainKeeps ==
    ASSUME IInv, NEW t \in Tables, Maintain(t)
    PROVE  IInv'
<1> DEFINE loc == Current(Main).pointers[t]
<1>0. /\ StoreShape /\ Guarded /\ \A i \in DOMAIN snaps : SnapInv(i)
      /\ UNCHANGED <<snaps, tip, tags, written, asked, handle>>
  BY DEF IInv, Maintain
<1>1. /\ loc \in DOMAIN warehouse /\ warehouse[loc].props.gc
      /\ warehouse' = [l \in {l \in DOMAIN warehouse : l.table # t \/ l = loc} |-> warehouse[l]]
  BY DEF Maintain
<1>2. t \in asked
  <2>1. tip[Main] \in DOMAIN snaps /\ Current(Main) = snaps[tip[Main]]
    BY <1>0, BranchAssumption, CurrentType
  <2>2. loc.table = t
    BY <1>0, <1>1, <2>1, NilAssumption DEF SnapInv, Lockstep, StoreShape
  <2> QED BY <1>0, <1>1, <2>2 DEF Guarded, Unsafe
<1>3. /\ DOMAIN warehouse' \subseteq DOMAIN warehouse
      /\ \A l \in DOMAIN warehouse' : warehouse'[l] = warehouse[l]
      /\ \A l \in DOMAIN warehouse : l.table # t => l \in DOMAIN warehouse'
  BY <1>1
<1> HIDE DEF loc
<1>4. StoreShape' /\ Guarded'
  BY <1>0, <1>3 DEF StoreShape, Guarded
<1>5. ASSUME NEW i \in DOMAIN snaps
      PROVE  SnapInv(i)'
  <2>1. Lockstep(i)'
    BY <1>0, <1>3 DEF SnapInv, Lockstep
  <2>2. Resolves(i)'
    <3> SUFFICES ASSUME NEW u \in Tables \ asked, snaps[i].pointers[u] # Nil
                 PROVE  snaps[i].pointers[u] \in DOMAIN warehouse'
      BY <1>0 DEF Resolves
    <3>1. snaps[i].pointers[u] \in DOMAIN warehouse /\ snaps[i].pointers[u].table = u
      BY <1>0 DEF SnapInv, Resolves, Lockstep
    <3> QED BY <1>2, <1>3, <3>1
  <2>3. Declared(i)'
    BY <1>0 DEF SnapInv, Declared
  <2> QED BY <2>1, <2>2, <2>3 DEF SnapInv
<1> QED BY <1>0, <1>4, <1>5, ReadersStay DEF IInv

\* A reader's step leaves the store alone, and all other readers.
LEMMA ReaderStep ==
    ASSUME IInv, UNCHANGED <<snaps, tip, tags, warehouse, written, asked>>,
           NEW r \in Readers, NEW h \in Handle, handle' = [handle EXCEPT ![r] = h], HandleInv(h)
    PROVE  IInv'
<1>1. StoreShape' /\ Guarded' /\ \A i \in DOMAIN snaps' : SnapInv(i)'
  BY DEF IInv, StoreShape, Guarded, SnapInv, Lockstep, Resolves, Declared
<1>2. handle' \in [Readers -> Handle \cup {Nil}]
  BY DEF IInv
<1>3. ASSUME NEW q \in Readers, handle'[q] # Nil
      PROVE  HandleInv(handle[q])'
  <2>1. HandleInv(handle'[q])
    BY <1>3 DEF IInv
  <2> QED BY <2>1 DEF HandleInv, Proper
<1> QED BY <1>1, <1>2, <1>3 DEF IInv

\* read resolves its arguments to a snapshot of the repository.
LEMMA ReadKeeps ==
    ASSUME IInv, NEW r \in Readers, NEW a \in Arguments, Read(r, a)
    PROVE  IInv'
<1> DEFINE h == [snap |-> SnapshotFor(a), store |-> Nil, answers |-> [t \in Tables |-> {}]]
<1>0. StoreShape
  BY DEF IInv
<1>1. SnapshotFor(a) \in DOMAIN snaps
  BY <1>0, BranchAssumption DEF Read, SnapshotFor, Arguments, StoreShape
<1>2. h \in Handle /\ HandleInv(h)
  BY <1>0, <1>1 DEF Handle, HandleInv, StoreShape
<1> QED BY <1>2, ReaderStep DEF Read

\* The shape of a reader's snapshot.
LEMMA HandleType ==
    ASSUME IInv, NEW r \in Readers, handle[r] # Nil
    PROVE  handle[r] \in Handle /\ HandleInv(handle[r])
BY DEF IInv

\* The arrays are opened at the reader's snapshot.
LEMMA OpenKeeps ==
    ASSUME IInv, NEW r \in Readers, OpenGroup(r)
    PROVE  IInv'
<1> DEFINE h == [handle[r] EXCEPT !.store = handle[r].snap]
<1>0. handle[r] \in Handle /\ HandleInv(handle[r])
  BY HandleType DEF OpenGroup
<1>1. handle' = [handle EXCEPT ![r] = h] /\ UNCHANGED <<snaps, tip, tags, warehouse, written, asked>>
  BY DEF OpenGroup
<1>2. /\ h \in Handle /\ h.snap = handle[r].snap /\ h.store = handle[r].snap
      /\ h.answers = handle[r].answers
  BY <1>0 DEF Handle
<1> HIDE DEF h
<1>3. HandleInv(h)
  BY <1>0, <1>2 DEF HandleInv
<1> QED BY <1>1, <1>2, <1>3, ReaderStep

\* What HybridSnapshot.table answers.
LEMMA AnswerIs ==
    ASSUME IInv, NEW r \in Readers, NEW t \in Tables, handle[r] # Nil
    PROVE  /\ Answer(r, t) \in Answers
           /\ \/ Answer(r, t) = Proper(handle[r].snap, t)
              \/ Answer(r, t) = [error |-> "FileNotFoundError"] /\ t \in asked
<1> DEFINE i == handle[r].snap
           l == snaps[i].pointers[t]
<1>0. /\ StoreShape /\ i \in DOMAIN snaps /\ SnapInv(i)
      /\ PointersOf(r)[t] = l /\ ReadBindings(r)[t] = snaps[i].bindings[t]
  BY HandleType DEF IInv, HandleInv, PointersOf, ReadBindings
<1>1. snaps[i].arrays[t] \in Nat
  BY <1>0, PointerType
<1> HIDE DEF i
<1>2. CASE l # Nil /\ l \in DOMAIN warehouse
  <2>1. Answer(r, t) = [rows |-> warehouse[l].rows]
    BY <1>0, <1>2 DEF Answer
  <2>2. warehouse[l].rows = snaps[i].arrays[t]
    BY <1>0, <1>2 DEF SnapInv, Lockstep
  <2> QED BY <1>1, <1>2, <2>1, <2>2 DEF Proper, Answers, i
<1>3. CASE l # Nil /\ l \notin DOMAIN warehouse
  <2>1. Answer(r, t) = [error |-> "FileNotFoundError"]
    BY <1>0, <1>3 DEF Answer
  <2>2. t \in asked
    BY <1>0, <1>3 DEF SnapInv, Resolves
  <2> QED BY <2>1, <2>2 DEF Answers
<1>4. CASE l = Nil
  <2>1. Answer(r, t) = [error |-> IF snaps[i].bindings[t] = Nil THEN "KeyError" ELSE "ValueError"]
    BY <1>0, <1>4 DEF Answer
  <2> QED BY <1>4, <2>1 DEF Answers, Proper, i
<1> QED BY <1>2, <1>3, <1>4

\* A table is loaded.
LEMMA LoadKeeps ==
    ASSUME IInv, NEW r \in Readers, NEW t \in Tables, LoadTable(r, t)
    PROVE  IInv'
<1> DEFINE h == [handle[r] EXCEPT !.answers[t] = @ \cup {Answer(r, t)}]
<1>0. handle[r] # Nil /\ handle[r] \in Handle /\ HandleInv(handle[r])
  BY HandleType DEF LoadTable
<1>1. handle' = [handle EXCEPT ![r] = h] /\ UNCHANGED <<snaps, tip, tags, warehouse, written, asked>>
  BY DEF LoadTable
<1>2. /\ h \in Handle /\ h.snap = handle[r].snap /\ h.store = handle[r].store
      /\ h.answers[t] = handle[r].answers[t] \cup {Answer(r, t)}
      /\ \A u \in Tables \ {t} : h.answers[u] = handle[r].answers[u]
  BY <1>0, AnswerIs DEF Handle
<1> HIDE DEF h
<1>3. HandleInv(h)
  BY <1>0, <1>2, AnswerIs DEF HandleInv
<1> QED BY <1>1, <1>2, <1>3, ReaderStep

(***************************************************************************)
(* The invariant holds.                                                    *)
(***************************************************************************)

\* It holds of an empty repository.
LEMMA InitInv == Init => IInv
<1> SUFFICES ASSUME Init
             PROVE  IInv
  OBVIOUS
<1>1. /\ Len(snaps) = 1 /\ DOMAIN snaps = {1} /\ DOMAIN warehouse = {}
      /\ snaps[1].bindings = [t \in Tables |-> Nil] /\ snaps[1].pointers = [t \in Tables |-> Nil]
      /\ snaps[1].arrays = [t \in Tables |-> 0]
  BY DEF Init
<1>2. snaps \in Seq(Snap) /\ snaps # << >>
  BY DEF Init, Snap
<1>3. StoreShape
  BY <1>1, <1>2 DEF Init, StoreShape
<1>4. SnapInv(1)
  BY <1>1 DEF SnapInv, Lockstep, Resolves, Declared
<1>5. Guarded
  BY <1>1 DEF Guarded
<1>6. handle \in [Readers -> Handle \cup {Nil}] /\ \A r \in Readers : handle[r] = Nil
  BY DEF Init
<1> QED BY <1>1, <1>3, <1>4, <1>5, <1>6 DEF IInv

\* Every step keeps it.
LEMMA StepInv == IInv /\ [Next]_vars => IInv'
<1> SUFFICES ASSUME IInv, [Next]_vars
             PROVE  IInv'
  OBVIOUS
<1>1. CASE Write
  BY <1>1, CreateKeeps, IngestKeeps, AbandonKeeps, ConventionKeeps, TagKeeps DEF Write
<1>2. CASE \E t \in Tables : Maintain(t)
  BY <1>2, MaintainKeeps
<1>3. ASSUME NEW r \in Readers,
             \/ \E a \in Arguments : Read(r, a)
             \/ OpenGroup(r)
             \/ \E t \in Tables : LoadTable(r, t)
      PROVE  IInv'
  BY <1>3, ReadKeeps, OpenKeeps, LoadKeeps
<1>4. CASE UNCHANGED vars
  <2>1. StoreShape' /\ Guarded' /\ \A i \in DOMAIN snaps' : SnapInv(i)'
    BY <1>4 DEF vars, IInv, StoreShape, Guarded, SnapInv, Lockstep, Resolves,
                Declared
  <2> QED BY <1>4, <2>1, ReadersStay DEF vars, IInv
<1> QED BY <1>1, <1>2, <1>3, <1>4 DEF Next

\* So it always holds.
LEMMA Invariance == Spec => []IInv
BY InitInv, StepInv, PTL DEF Spec

(***************************************************************************)
(* The theorems.                                                           *)
(***************************************************************************)

\* Whatever snapshot a tag or a reader is at, the metadata of every table whose
\* creator overrode no safety property is there to be read: SAFETY_PROPERTIES keep
\* both of Iceberg's cleanups off it, the one that only knows the version on main
\* and the one every append makes of its metadata log, published or abandoned.
THEOREM PinnedVersionsStay == Spec => []PinnedVersionsResolve
<1>1. IInv => PinnedVersionsResolve
  <2> SUFFICES ASSUME IInv, NEW t \in Tables \ asked
               PROVE  /\ \A tag \in {tag \in Tags : tags[tag] # Nil} :
                            PointersAtTag(tag)[t] \in DOMAIN warehouse \cup {Nil}
                      /\ \A r \in {r \in Readers : handle[r] # Nil} :
                            PointersOf(r)[t] \in DOMAIN warehouse \cup {Nil}
    BY DEF PinnedVersionsResolve
  <2>1. \A i \in DOMAIN snaps : snaps[i].pointers[t] \in DOMAIN warehouse \cup {Nil}
    BY DEF IInv, SnapInv, Resolves
  <2>2. \A tag \in Tags : tags[tag] # Nil => tags[tag] \in DOMAIN snaps
    BY DEF IInv, StoreShape
  <2>3. \A r \in Readers : handle[r] # Nil => handle[r].snap \in DOMAIN snaps
    BY DEF IInv, HandleInv
  <2> QED BY <2>1, <2>2, <2>3 DEF PointersAtTag, PointersOf
<1> QED BY <1>1, Invariance, PTL

\* A set whose elements all are x has at most one.
LEMMA AtMostOne ==
    ASSUME NEW S, NEW x, S \subseteq {x}
    PROVE  Cardinality(S) <= 1
<1>1. CASE S = {}
  <2>1. Cardinality(S) = 0
    BY <1>1, FS_EmptySet, Zenon
  <2> QED BY <2>1
<1>2. CASE S = {x}
  <2>1. Cardinality(S) = 1
    BY <1>2, FS_Singleton, Zenon
  <2> QED BY <2>1
<1> QED BY <1>1, <1>2

\* The rows of a proper answer are the arrays of the snapshot.
LEMMA ProperRows ==
    ASSUME IInv, NEW r \in Readers, handle[r] # Nil, NEW t \in Tables,
           NEW a \in handle[r].answers[t], "rows" \in DOMAIN a
    PROVE  a.rows = snaps[handle[r].snap].arrays[t]
<1>1. a = Proper(handle[r].snap, t) \/ a = [error |-> "FileNotFoundError"]
  BY HandleType DEF HandleInv
<1>2. \A e : "rows" \notin DOMAIN [error |-> e]
  OBVIOUS
<1> QED BY <1>1, <1>2 DEF Proper

\* A reader sees arrays and table at one snapshot: the rows it is given are as
\* many as the arrays there, whenever it asks, and for a table that is not cleaned
\* up every answer is the same.
THEOREM ReadsAreLockstep == Spec => []LockstepReads
<1>1. IInv => LockstepReads
  <2> SUFFICES ASSUME IInv, NEW r \in Readers, handle[r] # Nil, NEW t \in Tables
               PROVE  LET rows == {a.rows : a \in {a \in handle[r].answers[t] :
                                                       "rows" \in DOMAIN a}} IN
                      /\ Cardinality(rows) <= 1
                      /\ handle[r].store # Nil => rows \subseteq {snaps[handle[r].store].arrays[t]}
                      /\ t \notin asked => Cardinality(handle[r].answers[t]) <= 1
    BY DEF LockstepReads
  <2> DEFINE rows == {a.rows : a \in {a \in handle[r].answers[t] : "rows" \in DOMAIN a}}
  <2>1. rows \subseteq {snaps[handle[r].snap].arrays[t]}
    BY ProperRows
  <2>2. handle[r].store # Nil => handle[r].store = handle[r].snap
    BY DEF IInv, HandleInv
  <2>3. t \notin asked => handle[r].answers[t] \subseteq {Proper(handle[r].snap, t)}
    BY HandleType DEF HandleInv
  <2> HIDE DEF rows
  <2>4. Cardinality(rows) <= 1 /\ (t \notin asked => Cardinality(handle[r].answers[t]) <= 1)
    BY <2>1, <2>3, AtMostOne
  <2>5. handle[r].store # Nil => rows \subseteq {snaps[handle[r].store].arrays[t]}
    BY <2>1, <2>2
  <2> QED BY <2>4, <2>5 DEF rows
<1> QED BY <1>1, Invariance, PTL

\* What a step may never do to the root group of branch c.
GroupGrows(c) ==
    /\ Current(c).conventions \subseteq Current(c)'.conventions
    /\ \A t \in Tables : Current(c).bindings[t] # Nil =>
          /\ Current(c)'.bindings[t] # Nil
          /\ "iceberg:" \in Current(c)'.conventions

\* A commit on branch b of a snapshot s that only adds to the root group's
\* attributes.
LEMMA CommitGrows ==
    ASSUME IInv, NEW b \in Branches, NEW c \in Branches, NEW s \in Snap, Publish(b, s),
           Current(b).conventions \subseteq s.conventions,
           \A t \in Tables : Current(b).bindings[t] # Nil => s.bindings[t] # Nil
    PROVE  GroupGrows(c)
<1>0. /\ StoreShape /\ tip[c] \in DOMAIN snaps /\ tip[b] \in DOMAIN snaps
      /\ Current(c) = snaps[tip[c]] /\ Declared(tip[c])
  BY CurrentType DEF IInv, SnapInv
<1>1. Current(c)' = snaps'[tip'[c]]
  BY DEF Current
<1>2. Current(c)' = IF c = b THEN s ELSE Current(c)
  BY <1>0, <1>1, Committing
<1> QED BY <1>0, <1>2 DEF GroupGrows, Declared

\* Only commits touch the root group.
LEMMA NoCommitGrows ==
    ASSUME IInv, NEW c \in Branches, UNCHANGED <<snaps, tip>>
    PROVE  GroupGrows(c)
<1>1. Current(c)' = Current(c) /\ Declared(tip[c]) /\ Current(c) = snaps[tip[c]]
  BY CurrentType DEF IInv, SnapInv, Current
<1> QED BY <1>1 DEF GroupGrows, Declared

\* convention.declare merges: no commit takes a convention or a table's binding
\* off the root group of a branch, and a bound table is declared under the
\* convention.
THEOREM DeclarationsAreKept == Spec => DeclarationsStay
<1>1. IInv /\ [Next]_vars => [\A c \in Branches : GroupGrows(c)]_vars
  <2> SUFFICES ASSUME IInv, Next, NEW c \in Branches
               PROVE  GroupGrows(c)
    OBVIOUS
  <2>0. StoreShape
    BY DEF IInv
  <2>1. ASSUME NEW b \in Branches, NEW t \in Tables, NEW l \in Locations,
               NEW props \in Properties, CreateTable(b, t, l, props)
        PROVE  GroupGrows(c)
    <3> DEFINE d == Declare(Current(b), t, l)
               s == IF Current(b).pointers[t] = Nil
                    THEN [d EXCEPT !.pointers[t] = MetadataLocation(t)] ELSE d
    <3>1. Publish(b, s)
      BY <2>1 DEF CreateTable
    <3>2. /\ d \in Snap /\ Current(b).conventions \subseteq d.conventions
          /\ d.bindings[t] # Nil
          /\ \A u \in Tables \ {t} : d.bindings[u] = Current(b).bindings[u]
      BY <2>0, CurrentType, DeclareType
    <3> HIDE DEF d
    <3>3. s \in Snap /\ s.conventions = d.conventions /\ s.bindings = d.bindings
      BY <3>2, NewName DEF Snap
    <3> HIDE DEF s
    <3>4. /\ Current(b).conventions \subseteq s.conventions
          /\ \A u \in Tables : Current(b).bindings[u] # Nil => s.bindings[u] # Nil
      BY <3>2, <3>3
    <3> QED BY <3>1, <3>3, <3>4, CommitGrows
  <2>2. ASSUME NEW b \in Branches, NEW t \in Tables, Ingest(b, t)
        PROVE  GroupGrows(c)
    <3> DEFINE s == [Current(b) EXCEPT !.arrays[t] = @ + 1, !.pointers[t] = MetadataLocation(t)]
    <3>1. Publish(b, s)
      BY <2>2 DEF Ingest
    <3>2. s \in Snap /\ s.conventions = Current(b).conventions /\ s.bindings = Current(b).bindings
      <4>1. Current(b) \in Snap /\ MetadataLocation(t) \in Loc
        BY <2>0, CurrentType, NewName
      <4>2. /\ [Current(b).arrays EXCEPT ![t] = @ + 1] \in [Tables -> Nat]
            /\ [Current(b).pointers EXCEPT ![t] = MetadataLocation(t)] \in [Tables -> Loc \cup {Nil}]
        BY <4>1 DEF Snap
      <4> QED BY <4>1, <4>2 DEF Snap
    <3> HIDE DEF s
    <3> QED BY <3>1, <3>2, CommitGrows
  <2>3. ASSUME NEW b \in Branches, AddConvention(b)
        PROVE  GroupGrows(c)
    <3> DEFINE s == [Current(b) EXCEPT !.conventions = @ \cup {"other"}]
    <3>1. Publish(b, s)
      BY <2>3 DEF AddConvention
    <3>2. /\ s \in Snap /\ Current(b).conventions \subseteq s.conventions
          /\ s.bindings = Current(b).bindings
      BY <2>0, CurrentType DEF Snap
    <3> HIDE DEF s
    <3> QED BY <3>1, <3>2, CommitGrows
  <2>4. CASE UNCHANGED <<snaps, tip>>
    BY <2>4, NoCommitGrows
  <2> QED BY <2>1, <2>2, <2>3, <2>4
          DEF Next, Write, Abandon, CreateTag, Maintain, Read, OpenGroup, LoadTable
<1>2. [\A c \in Branches : GroupGrows(c)]_vars
        => [\A b \in Branches :
              /\ Current(b).conventions \subseteq Current(b)'.conventions
              /\ \A t \in Tables : Current(b).bindings[t] # Nil =>
                    /\ Current(b)'.bindings[t] # Nil
                    /\ "iceberg:" \in Current(b)'.conventions]_vars
  BY DEF GroupGrows
<1> QED BY <1>1, <1>2, Invariance, PTL DEF Spec, DeclarationsStay
=============================================================================
