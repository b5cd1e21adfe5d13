-------------------------------- MODULE Reading --------------------------------
(***************************************************************************)
(* Reading a store that others go on writing: HybridRepo.read and          *)
(* HybridSnapshot, the pointer map of a snapshot, branch or tag, the       *)
(* read-only catalog behind a table, the declaration of tables on the root *)
(* group, and the table properties that hold off Iceberg's own cleanup.    *)
(*                                                                         *)
(* A transaction is one step here, published or given up: HybridStore is   *)
(* about how it comes to be one.  A reader's steps interleave with         *)
(* commits, tags and Iceberg's cleanup.                                    *)
(***************************************************************************)
EXTENDS Naturals, Sequences, FiniteSets

CONSTANTS
    Readers, Tables, Branches, Tags,
    Main,       \* the branch read by default, and the one maintenance works on
    Locations,  \* the roots a caller may give a table's files
    Properties, \* the safety properties callers give a table, Nil for one left out
    Kept,       \* the previous versions a metadata.json lists: previous-versions-max
    MaxSnaps,   \* bound: snapshots of the repository
    MaxFiles,   \* bound: metadata.json files ever written
    Nil

ASSUME BranchAssumption   == Main \in Branches
ASSUME LocationAssumption == Nil \notin Locations
ASSUME PropertyAssumption ==
    Properties \subseteq [gc : BOOLEAN \cup {Nil}, purge : BOOLEAN \cup {Nil}]
ASSUME BoundAssumption    == {MaxSnaps, MaxFiles} \subseteq Nat /\ Kept \in Nat \ {0}

\* The name of a metadata.json: the n-th ever written.
Loc == [table : Tables, n : Nat]
ASSUME NilAssumption      == Nil \notin Loc

VARIABLES
    snaps,      \* the Icechunk snapshots, in commit order
    tip, tags,  \* the snapshot each branch and each tag names
    warehouse,  \* metadata.json files: [table, n] -> rows, properties, metadata log
    written,    \* how many there ever were
    asked,      \* the tables whose creator overrode a safety property
    handle      \* each reader's HybridSnapshot, Nil before it has one

vars == <<snaps, tip, tags, warehouse, written, asked, handle>>

Current(b) == snaps[tip[b]]

\* A commit on branch b.
Publish(b, s) ==
    /\ Len(snaps) < MaxSnaps
    /\ snaps' = Append(snaps, s)
    /\ tip' = [tip EXCEPT ![b] = Len(snaps) + 1]

\* IcechunkCatalog._metadata_location: a name never used before, under the
\* warehouse whatever location the table was given.
MetadataLocation(t) == [table |-> t, n |-> written + 1]

\* A metadata.json is written, and the files in gone are deleted.
WriteMetadata(loc, version, gone) ==
    /\ written < MaxFiles
    /\ written' = written + 1
    /\ warehouse' = [l \in (DOMAIN warehouse \ gone) \cup {loc} |->
                        IF l = loc THEN version ELSE warehouse[l]]

(***************************************************************************)
(* Writers.                                                                *)
(***************************************************************************)

\* A fault for the checks to catch: the list of conventions is written afresh.
DeclareAlone(s, t, location) ==
    [s EXCEPT !.conventions = {"iceberg:"}, !.bindings[t] = location]

\* convention.declare: registers the convention and merges in the binding.
Declare(s, t, location) ==
    [s EXCEPT !.conventions = @ \cup {"iceberg:"}, !.bindings[t] = location]

\* A fault for the checks to catch: metadata files are deleted after commits.
PurgingProperties == [gc |-> FALSE, purge |-> TRUE]

\* gc.enabled, and write.metadata.delete-after-commit.enabled (purge).
SAFETY_PROPERTIES == [gc |-> FALSE, purge |-> FALSE]

\* A fault for the checks to catch: only the caller's properties, over Iceberg's
\* own defaults.
CallerProperties(props) ==
    [gc |-> IF props.gc = Nil THEN TRUE ELSE props.gc,
     purge |-> IF props.purge = Nil THEN FALSE ELSE props.purge]

\* {**SAFETY_PROPERTIES, **properties}
TableProperties(props) ==
    [gc    |-> IF props.gc = Nil THEN SAFETY_PROPERTIES.gc ELSE props.gc,
     purge |-> IF props.purge = Nil THEN SAFETY_PROPERTIES.purge ELSE props.purge]

\* The first version of a table, as create_table writes it.
FirstVersion(props) == [rows |-> 0, props |-> TableProperties(props), log |-> << >>]

\* The version commit_table writes for an append of one row: the version before
\* goes onto the metadata log, which keeps the last few.
NextVersion(v, n) ==
    [v EXCEPT !.rows = @ + 1, !.log = Append(IF Len(@) < Kept THEN @ ELSE Tail(@), n)]

\* What PyIceberg deletes once that is written: the file that fell off the log.
Purged(t, v) ==
    IF v.props.purge /\ Len(v.log) = Kept THEN {[table |-> t, n |-> Head(v.log)]} ELSE {}

\* An append to the table whose current metadata is old: written and staged.
StageAppend(t, old) ==
    /\ old \in DOMAIN warehouse
    /\ WriteMetadata(MetadataLocation(t), NextVersion(warehouse[old], old.n),
                     Purged(t, warehouse[old]))

\* A transaction whose one call is create_table: the table is declared; if it
\* does not exist its first version is written.  Without either, commit() raises.
CreateTable(b, t, location, props) ==
    LET declared == Declare(Current(b), t, location)
        loc      == MetadataLocation(t)
        new      == Current(b).pointers[t] = Nil
    IN  /\ new \/ declared # Current(b)
        /\ Publish(b, IF new THEN [declared EXCEPT !.pointers[t] = loc] ELSE declared)
        /\ IF new
           THEN /\ WriteMetadata(loc, FirstVersion(props), {})
                /\ asked' = IF TRUE \in {props.gc, props.purge} THEN asked \cup {t} ELSE asked
           ELSE UNCHANGED <<warehouse, written, asked>>
        /\ UNCHANGED <<tags, handle>>

\* A transaction that writes an array and appends the row that describes it.
Ingest(b, t) ==
    LET loc == MetadataLocation(t) IN
    /\ Publish(b, [Current(b) EXCEPT !.arrays[t] = @ + 1, !.pointers[t] = loc])
    /\ StageAppend(t, Current(b).pointers[t])
    /\ UNCHANGED <<tags, asked, handle>>

\* An append whose metadata.json no commit will publish: its commit lost to
\* another writer and is replayed, or the transaction is given up.  (A creation
\* given up leaves only a file that no version and no log refers to.)
Abandon(b, t) ==
    /\ StageAppend(t, Current(b).pointers[t])
    /\ UNCHANGED <<snaps, tip, tags, asked, handle>>

\* Other software registers a convention of its own on the root group.
AddConvention(b) ==
    /\ "other" \notin Current(b).conventions
    /\ Publish(b, [Current(b) EXCEPT !.conventions = @ \cup {"other"}])
    /\ UNCHANGED <<tags, warehouse, written, asked, handle>>

\* Repository.create_tag
CreateTag(b, tag) ==
    /\ tags[tag] = Nil
    /\ tags' = [tags EXCEPT ![tag] = tip[b]]
    /\ UNCHANGED <<snaps, tip, warehouse, written, asked, handle>>

\* Iceberg's expiry and orphan cleanup, which go by the table's version on main
\* alone: unless gc.enabled forbids it, every other version goes.
Maintain(t) ==
    LET loc == Current(Main).pointers[t] IN
    /\ loc \in DOMAIN warehouse /\ warehouse[loc].props.gc
    /\ warehouse' = [l \in {l \in DOMAIN warehouse : l.table # t \/ l = loc} |-> warehouse[l]]
    /\ UNCHANGED <<snaps, tip, tags, written, asked, handle>>

(***************************************************************************)
(* Readers.                                                                *)
(***************************************************************************)

\* The arguments of read: a branch, a tag, a snapshot id, or Nil for each.
Arguments == [branch : Branches \cup {Nil}, tag : Tags \cup {Nil},
              id : DOMAIN snaps \cup {Nil}]

Given(a) == {f \in {"branch", "tag", "id"} : a[f] # Nil}

\* _snapshot_for: the one reference given; none at all means main.
SnapshotFor(a) ==
    CASE a.id # Nil     -> a.id
      [] a.tag # Nil    -> tags[a.tag]
      [] a.branch # Nil -> tip[a.branch]
      [] OTHER          -> tip[Main]

\* HybridRepo.read.  Two references raise, and so does an unknown tag.
Read(r, a) ==
    /\ Cardinality(Given(a)) <= 1 /\ SnapshotFor(a) # Nil
    /\ handle' = [handle EXCEPT ![r] =
           [snap |-> SnapshotFor(a), store |-> Nil, answers |-> [t \in Tables |-> {}]]]
    /\ UNCHANGED <<snaps, tip, tags, warehouse, written, asked>>

\* HybridSnapshot.store and group: a session opened on first use, then kept.
OpenGroup(r) ==
    /\ handle[r] # Nil /\ handle[r].store = Nil
    /\ handle' = [handle EXCEPT ![r].store = handle[r].snap]
    /\ UNCHANGED <<snaps, tip, tags, warehouse, written, asked>>

\* A fault for the checks to catch: the pointers of the branch, not the snapshot.
PointersAtBranch(r) == Current(Main).pointers

\* HybridSnapshot.pointers: read from the snapshot's commit metadata each time.
PointersOf(r) == snaps[handle[r].snap].pointers

\* read_pointers_at_tag
PointersAtTag(tag) == snaps[tags[tag]].pointers

\* HybridSnapshot.bindings
ReadBindings(r) == snaps[handle[r].snap].bindings

\* What HybridSnapshot.table answers, as rows or the error it raises.
Answer(r, t) ==
    LET loc == PointersOf(r)[t] IN
    CASE loc # Nil /\ loc \in DOMAIN warehouse    -> [rows |-> warehouse[loc].rows]
      [] loc # Nil /\ loc \notin DOMAIN warehouse -> [error |-> "FileNotFoundError"]
      [] loc = Nil /\ ReadBindings(r)[t] = Nil    -> [error |-> "KeyError"]
      [] OTHER                                    -> [error |-> "ValueError"]

LoadTable(r, t) ==
    /\ handle[r] # Nil
    /\ handle' = [handle EXCEPT ![r].answers[t] = @ \cup {Answer(r, t)}]
    /\ UNCHANGED <<snaps, tip, tags, warehouse, written, asked>>

Init ==
    /\ snaps = <<[arrays |-> [t \in Tables |-> 0], conventions |-> {},
                  bindings |-> [t \in Tables |-> Nil], pointers |-> [t \in Tables |-> Nil]]>>
    /\ tip = [b \in Branches |-> 1]
    /\ tags = [tag \in Tags |-> Nil]
    /\ warehouse = << >>
    /\ written = 0
    /\ asked = {}
    /\ handle = [r \in Readers |-> Nil]

Write ==
    \E b \in Branches :
        \/ \E t \in Tables, l \in Locations, props \in Properties : CreateTable(b, t, l, props)
        \/ \E t \in Tables : Ingest(b, t) \/ Abandon(b, t)
        \/ AddConvention(b)
        \/ \E tag \in Tags : CreateTag(b, tag)

Next ==
    \/ Write
    \/ \E t \in Tables : Maintain(t)
    \/ \E r \in Readers :
          \/ \E a \in Arguments : Read(r, a)
          \/ OpenGroup(r)
          \/ \E t \in Tables : LoadTable(r, t)

Spec == Init /\ [][Next]_vars

(***************************************************************************)
(* Properties.                                                             *)
(***************************************************************************)

\* Arrays and the table that describes them, at a single snapshot: whatever is
\* committed, tagged or cleaned up between the reader's calls, the rows it is
\* given are as many as the arrays it sees, and asking again gives the same
\* answer - or, for a table whose creator overrode a safety property, no file.
LockstepReads ==
    \A r \in {r \in Readers : handle[r] # Nil} : \A t \in Tables :
        LET rows == {a.rows : a \in {a \in handle[r].answers[t] : "rows" \in DOMAIN a}} IN
        /\ Cardinality(rows) <= 1
        /\ handle[r].store # Nil => rows \subseteq {snaps[handle[r].store].arrays[t]}
        /\ t \notin asked => Cardinality(handle[r].answers[t]) <= 1

\* A tag pins a table version with the arrays: the files of every version a tag
\* or a reader's snapshot points at stay, through expiry, cleanup and the trimming
\* of the metadata log on every append, published or not - unless the creator of
\* the table overrode one of the SAFETY_PROPERTIES.
PinnedVersionsResolve ==
    \A t \in Tables \ asked :
        /\ \A tag \in {tag \in Tags : tags[tag] # Nil} :
              PointersAtTag(tag)[t] \in DOMAIN warehouse \cup {Nil}
        /\ \A r \in {r \in Readers : handle[r] # Nil} :
              PointersOf(r)[t] \in DOMAIN warehouse \cup {Nil}

\* Declaring a table never takes a convention or another table's binding off the
\* root group, and the convention is registered from the first binding on.
DeclarationsStay ==
    [][\A b \in Branches :
          /\ Current(b).conventions \subseteq Current(b)'.conventions
          /\ \A t \in Tables : Current(b).bindings[t] # Nil =>
                /\ Current(b)'.bindings[t] # Nil
                /\ "iceberg:" \in Current(b)'.conventions]_vars
=============================================================================
