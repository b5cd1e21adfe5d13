------------------------------ MODULE HybridStore ------------------------------
(***************************************************************************)
(* Concurrent hybrid transactions on one Icechunk repository:              *)
(* transaction.py with the catalog.py, pointer.py and convention.py it     *)
(* calls.                                                                  *)
(*                                                                         *)
(* Shared state is the Icechunk repository (snapshots and branch tips) and *)
(* the warehouse of metadata.json files.  Everything else belongs to one   *)
(* writer, which runs one HybridTransaction: it stages work, calls         *)
(* commit(), and commit() replays on conflict.  A step is atomic when it   *)
(* touches shared state at most once, so the two reads of the branch tip   *)
(* in _recover (read_pointers_at_branch, then session.rebase) are two      *)
(* steps and other writers may commit between them.                        *)
(***************************************************************************)
EXTENDS IcebergTable, FiniteSets

CONSTANTS
    Writers,     \* the transactions, one per writer
    Managed,     \* the writers that use the transaction as a context manager
    Seeder,      \* the author of the store's first commit
    Tables, Keys, Chunks, Branches,
    SeedTables,  \* the tables of the first commit; none: a repository just created
    SeedKeys,    \* the keys of the rows those tables start with, in one file
    Ops,         \* the table operations writers may ask a transaction for
    DirectOps,   \* the ones they may call on tx.catalog, past the intents
    MaxOps,      \* bound: intents of a transaction
    MaxRetries,  \* max_retries of every transaction
    MaxCalls,    \* bound: calls of commit() on a transaction
    MaxFaults    \* bound: storage errors in a behaviour

Authors == Writers \cup {Seeder}
Kinds   == {"create", "append", "delete", "overwrite"}

\* TableIntent: data are the keys of the rows given, pred the keys selected.
Op  == [kind : Kinds, table : Tables, data : SUBSET Keys, pred : SUBSET Keys]

\* A metadata.json location: the uuid is the writer's n-th file.  A table
\* operation writes one file and records one snapshot, so the location also
\* names the Iceberg snapshot.
Loc == [table : Tables, by : Authors, n : Nat]

ASSUME WriterAssumption == Seeder \notin Writers /\ Managed \subseteq Writers
ASSUME NilAssumption    == Nil \notin Loc /\ Nil \notin Authors
ASSUME KeyAssumption    == Keys \subseteq Nat /\ SeedKeys \subseteq Keys
ASSUME OpAssumption     == Ops \subseteq Op /\ DirectOps \subseteq Op
ASSUME SeedAssumption   == SeedTables \subseteq Tables
ASSUME BranchAssumption == Branches # {}
ASSUME BoundAssumption  ==
    {MaxOps, MaxRetries, MaxCalls, MaxFaults} \subseteq Nat

VARIABLES
    snaps,      \* the Icechunk snapshots, in commit order
    tip,        \* the snapshot each branch points at
    warehouse,  \* metadata location -> table version, for every file written
    faults,     \* storage errors so far
    pc,         \* where each writer's transaction is
    session,    \* its Icechunk session: base snapshot and uncommitted changes
    catalog,    \* its IcechunkCatalog: pointers, staged, files written
    plan,       \* what was staged: branch, intents, captured base snapshots
    loop        \* the locals of commit(): attempt, next intent, error

repoVars   == <<snaps, tip>>
writerVars == <<pc, session, catalog, plan, loop>>
vars       == <<snaps, tip, warehouse, faults, pc, session, catalog, plan, loop>>

Row      == [key : Keys, by : Authors]
File     == [orig : Loc, rows : SUBSET Row]
Recorded == [id : Loc, added : SUBSET File]   \* an Iceberg snapshot
Metadata == [files : SUBSET File, snaps : Seq(Recorded)]
Pointers == [Tables -> Loc \cup {Nil}]

\* An Icechunk snapshot: the arrays, the root group and its iceberg:tables
\* attribute, the pointer map in the commit metadata, and what the commit
\* itself wrote (wrote, wroteRoot), which is what a rebase compares.
Snapshot == [parent : Nat, branch : Branches, by : Authors,
             chunks : [Chunks -> Authors \cup {Nil}],
             root : BOOLEAN, attrs : SUBSET Tables, pointers : Pointers,
             wrote : SUBSET Chunks, wroteRoot : BOOLEAN]

Session == [branch : Branches, snap : Nat, root : BOOLEAN,
            attrs : SUBSET Tables, chunks : SUBSET Chunks]
Catalog == [pointers : Pointers, staged : Pointers, written : Nat]
Plan    == [branch : Branches, start : Nat, intents : Seq(Op),
            direct : Seq(Op), chunks : SUBSET Chunks,
            base : Pointers, captured : SUBSET Tables]
Errors  == {"none", "session branch", "body raised", "no changes",
            "no such table", "storage", "answer lost", "ConflictError",
            "UnreplayableChangeError", "TableConflictError",
            "RebaseFailedError"}
Loop    == [unmanaged : SUBSET Tables, next : Nat \ {0}, attempt : 0..MaxRetries,
            calls : 0..MaxCalls, err : Errors]

Phases  == {"idle", "open", "apply", "recover", "rebase", "committed", "failed"}

(***************************************************************************)
(* Reading and writing one transaction's state.                            *)
(***************************************************************************)

NoPointers == [t \in Tables |-> Nil]

\* IcechunkCatalog.current_pointers: base pointers overlaid with the staged.
CurrentPointers(c) ==
    [t \in Tables |-> IF c.staged[t] # Nil THEN c.staged[t] ELSE c.pointers[t]]

\* The keys of the staged dict.
StagedTables(c) == {t \in Tables : c.staged[t] # Nil}

\* A fault for the checks to catch: the abandoned staged versions stay staged.
RebasedKeepingStaged(c, pointers) == [c EXCEPT !.pointers = pointers]

\* IcechunkCatalog.rebase_onto
RebasedOnto(c, pointers) ==
    [c EXCEPT !.pointers = pointers, !.staged = NoPointers]

\* session.has_uncommitted_changes
ArrayChanges(w) == session[w].root \/ session[w].chunks # {}

\* Whether the root group exists in the session's view.
HasRoot(w) == session[w].root \/ snaps[session[w].snap].root

\* Session.discard_changes
Discarded(s) == [s EXCEPT !.root = FALSE, !.chunks = {}]

\* A raised error ends the call.  A context manager discards the session.
Fail(w, err) ==
    /\ pc' = [pc EXCEPT ![w] = "failed"]
    /\ loop' = [loop EXCEPT ![w].err = err]
    /\ session' = [session EXCEPT ![w] = IF w \in Managed THEN Discarded(@) ELSE @]
    /\ UNCHANGED <<snaps, tip, warehouse, catalog, plan>>

(***************************************************************************)
(* What an operation does to the table version at a location.              *)
(***************************************************************************)

\* The rows an operation of writer w gives to append or overwrite.
DataRows(w, op) == {[key |-> k, by |-> w] : k \in op.data}

\* An operation other than CreateTable needs the table (load_table).
Missing(c, op) == op.kind # "create" /\ CurrentPointers(c)[op.table] = Nil

\* Whether applying the operation writes a metadata.json: a CreateTable of an
\* existing table returns early, a delete that selects no row stages nothing.
WritesMetadata(c, op) ==
    LET loc == CurrentPointers(c)[op.table] IN
    /\ op.kind = "create" => loc = Nil
    /\ op.kind = "delete" => Touched(warehouse[loc], op.pred) # {}

\* The table version the operation makes of m.
Result(w, op, m, id) ==
    CASE op.kind = "create"    -> NewTable
      [] op.kind = "append"    -> Appended(m, id, DataRows(w, op))
      [] op.kind = "delete"    -> Deleted(m, id, op.pred)
      [] op.kind = "overwrite" -> Overwritten(m, id, op.pred, DataRows(w, op))

\* A fault for the checks to catch: a metadata file is named by its version
\* number, with no unique token.
VersionedLoc(w, t) ==
    LET loc == CurrentPointers(catalog[w])[t]
    IN  [table |-> t, by |-> Seeder,
         n |-> IF loc = Nil THEN 0 ELSE Len(warehouse[loc].snaps)]

\* IcechunkCatalog._metadata_location: a name no other file has.
NextLoc(w, t) == [table |-> t, by |-> w, n |-> catalog[w].written + 1]

\* IcechunkCatalog.create_table and commit_table: write a metadata.json for
\* the new version under a fresh name and stage its location.
Stage(w, op) ==
    LET loc  == CurrentPointers(catalog[w])[op.table]
        new  == NextLoc(w, op.table)
        base == IF loc = Nil THEN NewTable ELSE warehouse[loc]
    IN  /\ warehouse' = [l \in DOMAIN warehouse \cup {new} |->
                            IF l = new THEN Result(w, op, base, new)
                                       ELSE warehouse[l]]
        /\ catalog' = [catalog EXCEPT ![w] =
               [pointers |-> @.pointers,
                staged   |-> [@.staged EXCEPT ![op.table] = new],
                written  |-> @.written + 1]]

(***************************************************************************)
(* Opening a transaction and staging work in it.                           *)
(***************************************************************************)

\* A fault for the checks to catch: a session of any branch is accepted.
AnySession(branch, sessionBranch) == TRUE

\* A supplied session must be on the transaction's branch.
SessionAccepted(branch, sessionBranch) == sessionBranch = branch

\* HybridTransaction.__init__ on branch b with a session on branch sb: its
\* own (sb = b) or a supplied one.
Open(w, b, sb) ==
    /\ pc[w] = "idle"
    /\ SessionAccepted(b, sb)
    /\ pc' = [pc EXCEPT ![w] = "open"]
    /\ session' = [session EXCEPT ![w] =
           [branch |-> sb, snap |-> tip[sb], root |-> FALSE,
            attrs |-> snaps[tip[sb]].attrs, chunks |-> {}]]
    /\ catalog' = [catalog EXCEPT ![w].pointers = snaps[tip[sb]].pointers]
    /\ plan' = [plan EXCEPT ![w].branch = b, ![w].start = tip[sb]]
    /\ UNCHANGED <<snaps, tip, warehouse, faults, loop>>

RefuseSession(w, b, sb) ==
    /\ pc[w] = "idle"
    /\ ~SessionAccepted(b, sb)
    /\ Fail(w, "session branch")
    /\ UNCHANGED faults

\* Another operation may be recorded as an intent.
MayRecord(w) == pc[w] = "open" /\ Len(plan[w].intents) < MaxOps

\* A fault for the checks to catch: tx.group replaces the root group.
GroupedAfresh(w) == [session[w] EXCEPT !.root = TRUE, !.chunks = {}]

\* tx.group: the session with its root group, created if there is none.
Grouped(w) == [session[w] EXCEPT !.root = @ \/ ~HasRoot(w)]

\* convention.declare on the session's root group: the attributes are written
\* only if the binding is new.
Declared(s, t) ==
    [s EXCEPT !.root = @ \/ t \notin s.attrs, !.attrs = @ \cup {t}]

\* HybridTransaction.create_table: the table is declared on the root group and
\* the intent is recorded.
CreateTable(w, op) ==
    /\ MayRecord(w) /\ op.kind = "create"
    /\ session' = [session EXCEPT ![w] = Declared(Grouped(w), op.table)]
    /\ plan' = [plan EXCEPT ![w].intents = Append(@, op)]
    /\ UNCHANGED <<snaps, tip, warehouse, faults, pc, catalog, loop>>

\* HybridTransaction.append
AppendRows(w, op) ==
    /\ MayRecord(w) /\ op.kind = "append"
    /\ plan' = [plan EXCEPT ![w].intents = Append(@, op)]
    /\ UNCHANGED <<snaps, tip, warehouse, faults, pc, session, catalog, loop>>

\* _capture_base_snapshot: the first removal on a table pins the snapshot the
\* catalog resolves it to, staged versions included; None if the table is
\* not in the base pointers or holds no snapshot.
BaseSnapshot(w, t) ==
    IF t \in plan[w].captured THEN plan[w].base[t]
    ELSE IF catalog[w].pointers[t] = Nil THEN Nil
    ELSE CurrentSnapshotId(warehouse[CurrentPointers(catalog[w])[t]])

\* HybridTransaction.delete and overwrite
RemoveRows(w, op) ==
    /\ MayRecord(w) /\ op.kind \in {"delete", "overwrite"}
    /\ plan' = [plan EXCEPT ![w].intents = Append(@, op),
                            ![w].base[op.table] = BaseSnapshot(w, op.table),
                            ![w].captured = @ \cup {op.table}]
    /\ UNCHANGED <<snaps, tip, warehouse, faults, pc, session, catalog, loop>>

\* An array write through tx.group, which creates the root group if needed.
WriteChunk(w, c) ==
    /\ pc[w] = "open" /\ c \notin session[w].chunks
    /\ session' = [session EXCEPT ![w].root = @ \/ ~HasRoot(w),
                                  ![w].chunks = @ \cup {c}]
    /\ plan' = [plan EXCEPT ![w].chunks = @ \cup {c}]
    /\ UNCHANGED <<snaps, tip, warehouse, faults, pc, catalog, loop>>

\* tx.catalog.load_table(t).append(...) and the like: staged at once, and no
\* intent records it.  One per transaction is enough.
Direct(w, op) ==
    /\ pc[w] = "open" /\ plan[w].direct = << >>
    /\ ~Missing(catalog[w], op) /\ WritesMetadata(catalog[w], op)
    /\ Stage(w, op)
    /\ plan' = [plan EXCEPT ![w].direct = Append(@, op)]
    /\ UNCHANGED <<snaps, tip, faults, pc, session, loop>>

\* The body of the with statement raises: __exit__ discards the session.
BodyRaises(w) ==
    /\ pc[w] = "open" /\ w \in Managed
    /\ Fail(w, "body raised")
    /\ UNCHANGED faults

(***************************************************************************)
(* commit()                                                                *)
(***************************************************************************)

\* The call starts: remember what was staged past the intents.  A transaction
\* that is not a context manager may be committed again after an error; not
\* after a lost answer, since what Icechunk's session is by then is not known.
BeginCommit(w) ==
    /\ \/ pc[w] = "open"
       \/ /\ pc[w] = "failed" /\ w \notin Managed
          /\ loop[w].err \notin {"session branch", "answer lost"}
    /\ loop[w].calls < MaxCalls
    /\ pc' = [pc EXCEPT ![w] = "apply"]
    /\ loop' = [loop EXCEPT ![w] =
           [unmanaged |-> StagedTables(catalog[w]), next |-> 1, attempt |-> 0,
            calls |-> @.calls + 1, err |-> "none"]]
    /\ UNCHANGED <<snaps, tip, warehouse, faults, session, catalog, plan>>

Applying(w)   == pc[w] = "apply" /\ loop[w].next <= Len(plan[w].intents)
AllApplied(w) == pc[w] = "apply" /\ loop[w].next > Len(plan[w].intents)
Intent(w)     == plan[w].intents[loop[w].next]

\* intent.apply for the next intent, which stages a new table version ...
ApplyIntent(w) ==
    /\ Applying(w)
    /\ ~Missing(catalog[w], Intent(w)) /\ WritesMetadata(catalog[w], Intent(w))
    /\ Stage(w, Intent(w))
    /\ loop' = [loop EXCEPT ![w].next = @ + 1]
    /\ UNCHANGED <<snaps, tip, faults, pc, session, plan>>

\* ... or has nothing to do ...
ApplyNothing(w) ==
    /\ Applying(w)
    /\ ~Missing(catalog[w], Intent(w)) /\ ~WritesMetadata(catalog[w], Intent(w))
    /\ loop' = [loop EXCEPT ![w].next = @ + 1]
    /\ UNCHANGED <<snaps, tip, warehouse, faults, pc, session, catalog, plan>>

\* ... or raises NoSuchTableError.
ApplyMissing(w) ==
    /\ Applying(w)
    /\ Missing(catalog[w], Intent(w))
    /\ Fail(w, "no such table")
    /\ UNCHANGED faults

\* A storage error: reading or writing the warehouse while an intent is
\* applied, or in session.commit before the branch moved.  (One raised inside
\* _recover is left out: it publishes nothing either.)
StorageFault(w) ==
    /\ pc[w] = "apply" /\ faults < MaxFaults
    /\ faults' = faults + 1
    /\ Fail(w, "storage")

NothingToPublish(w) == StagedTables(catalog[w]) = {} /\ ~ArrayChanges(w)

\* A fault for the checks to catch: a replay that has nothing left to do is
\* not allowed to commit.
AllowTableOnly(w) == StagedTables(catalog[w]) # {} /\ ~ArrayChanges(w)

\* allow_empty
AllowEmpty(w) ==
    \/ StagedTables(catalog[w]) # {} /\ ~ArrayChanges(w)
    \/ NothingToPublish(w)

\* Icechunk's compare-and-swap on the branch.
AtTip(w) == session[w].snap = tip[session[w].branch]

\* A fault for the checks to catch: the tables a transaction did not touch are
\* left out of the map it publishes.
StagedPointersOnly(w) == catalog[w].staged

\* commit_metadata: the whole pointer map, unchanged tables carried forward.
CommitMetadata(w) == CurrentPointers(catalog[w])

\* The snapshot session.commit would make: our array changes on the session's
\* base, and the pointer map given as commit metadata.
NewSnapshot(w) ==
    LET s == session[w]
        p == snaps[s.snap]
    IN  [parent    |-> s.snap,
         branch    |-> s.branch,
         by        |-> w,
         chunks    |-> [c \in Chunks |-> IF c \in s.chunks THEN w ELSE p.chunks[c]],
         root      |-> HasRoot(w),
         attrs     |-> IF s.root THEN s.attrs ELSE p.attrs,
         pointers  |-> CommitMetadata(w),
         wrote     |-> s.chunks,
         wroteRoot |-> s.root]

\* The call goes on to publish: not the empty transaction commit() refuses on
\* its first attempt, nor one session.commit would refuse as empty.
Trying(w) ==
    /\ ~(NothingToPublish(w) /\ loop[w].attempt = 0)
    /\ ArrayChanges(w) \/ AllowEmpty(w)

RefuseEmpty(w) ==
    /\ AllApplied(w) /\ ~Trying(w)
    /\ Fail(w, "no changes")
    /\ UNCHANGED faults

\* session.commit succeeds.
Publish(w) ==
    /\ AllApplied(w) /\ Trying(w) /\ AtTip(w)
    /\ snaps' = Append(snaps, NewSnapshot(w))
    /\ tip' = [tip EXCEPT ![session[w].branch] = Len(snaps) + 1]
    /\ pc' = [pc EXCEPT ![w] = "committed"]
    /\ session' = [session EXCEPT ![w] = Discarded(@)]
    /\ UNCHANGED <<warehouse, faults, catalog, plan, loop>>

\* session.commit moves the branch, but raises a storage error: the answer was
\* lost on its way back.  It is no ConflictError, so commit() raises it.
AnswerLost(w) ==
    /\ AllApplied(w) /\ Trying(w) /\ AtTip(w)
    /\ faults < MaxFaults
    /\ faults' = faults + 1
    /\ snaps' = Append(snaps, NewSnapshot(w))
    /\ tip' = [tip EXCEPT ![session[w].branch] = Len(snaps) + 1]
    /\ pc' = [pc EXCEPT ![w] = "failed"]
    /\ loop' = [loop EXCEPT ![w].err = "answer lost"]
    /\ session' = [session EXCEPT ![w] = IF w \in Managed THEN Discarded(@) ELSE @]
    /\ UNCHANGED <<warehouse, catalog, plan>>

\* A fault for the checks to catch: the retry limit is off by one.
ConflictOnceMore(w) ==
    /\ AllApplied(w) /\ Trying(w) /\ ~AtTip(w)
    /\ loop[w].attempt <= MaxRetries
    /\ pc' = [pc EXCEPT ![w] = "recover"]
    /\ UNCHANGED <<snaps, tip, warehouse, faults, session, catalog, plan, loop>>

\* session.commit raises ConflictError and there is a retry left ...
Conflict(w) ==
    /\ AllApplied(w) /\ Trying(w) /\ ~AtTip(w)
    /\ loop[w].attempt < MaxRetries
    /\ pc' = [pc EXCEPT ![w] = "recover"]
    /\ UNCHANGED <<snaps, tip, warehouse, faults, session, catalog, plan, loop>>

\* A fault for the checks to catch: past the limit the session is committed
\* again as it is, without end.
ExhaustedTriesAgain(w) ==
    /\ AllApplied(w) /\ Trying(w) /\ ~AtTip(w)
    /\ loop[w].attempt = MaxRetries
    /\ UNCHANGED vars

\* ... or none.
Exhausted(w) ==
    /\ AllApplied(w) /\ Trying(w) /\ ~AtTip(w)
    /\ loop[w].attempt = MaxRetries
    /\ Fail(w, "ConflictError")
    /\ UNCHANGED faults

(***************************************************************************)
(* _recover()                                                              *)
(***************************************************************************)

\* A fault for the checks to catch: work staged past the intents is thought
\* covered when some intent is on the same table.
OrphanedByName(w) ==
    StagedTables(catalog[w])
        \ {plan[w].intents[i].table : i \in DOMAIN plan[w].intents}

\* _assert_staged_is_covered: staged work no intent can rebuild.
Orphaned(w) ==
    loop[w].unmanaged \cup
    (StagedTables(catalog[w])
        \ {plan[w].intents[i].table : i \in DOMAIN plan[w].intents})

\* _validate_removal of a delete or overwrite at the winner's pointers.
RemovalConflict(w, op, pointers) ==
    LET loc == pointers[op.table] IN
    /\ loc # Nil
    /\ CurrentSnapshotId(warehouse[loc]) # Nil
    /\ \/ plan[w].base[op.table] = Nil
       \/ ConflictingAdds(warehouse[loc], plan[w].base[op.table], op.pred) # {}

\* _validate_replayable: some intent cannot be rebuilt on those pointers.
Unreplayable(w, pointers) ==
    \E i \in DOMAIN plan[w].intents :
        /\ plan[w].intents[i].kind \in {"delete", "overwrite"}
        /\ RemovalConflict(w, plan[w].intents[i], pointers)

\* A fault for the checks to catch: the pointers of the session's own base are
\* read again instead of the winner's.
SessionPointers(w) == snaps[session[w].snap].pointers

\* read_pointers_at_branch: the tip of the transaction's branch, now.
TipPointers(w) == snaps[tip[plan[w].branch]].pointers

RefuseUncovered(w) ==
    /\ pc[w] = "recover"
    /\ Orphaned(w) # {}
    /\ Fail(w, "UnreplayableChangeError")
    /\ UNCHANGED faults

RefuseRemoval(w) ==
    /\ pc[w] = "recover"
    /\ Orphaned(w) = {} /\ Unreplayable(w, TipPointers(w))
    /\ Fail(w, "TableConflictError")
    /\ UNCHANGED faults

\* The checks pass: adopt the winner's pointers.  The rebase is still to come.
Adopt(w) ==
    /\ pc[w] = "recover"
    /\ Orphaned(w) = {} /\ ~Unreplayable(w, TipPointers(w))
    /\ catalog' = [catalog EXCEPT ![w] = RebasedOnto(@, TipPointers(w))]
    /\ pc' = [pc EXCEPT ![w] = "rebase"]
    /\ UNCHANGED <<snaps, tip, warehouse, faults, session, plan, loop>>

\* The commits session.rebase carries the changes over.
Intervening(w) ==
    {i \in session[w].snap + 1 .. tip[session[w].branch] :
        snaps[i].branch = session[w].branch}

\* ZarrMetadataDoubleUpdate on the root group: the solver has no strategy.
RootClash(w) ==
    session[w].root /\ \E i \in Intervening(w) : snaps[i].wroteRoot

\* Both sides wrote a chunk: the solver may keep ours or refuse.
ChunkClash(w) ==
    \E i \in Intervening(w) : snaps[i].wrote \cap session[w].chunks # {}

\* A fault for the checks to catch: the session is reopened at the tip, which
\* loses the chunks written through it.
RebaseReopening(w) ==
    /\ pc[w] = "rebase"
    /\ ~RootClash(w)
    /\ session' = [session EXCEPT ![w] = [Discarded(@) EXCEPT !.snap = tip[session[w].branch]]]
    /\ loop' = [loop EXCEPT ![w].attempt = @ + 1, ![w].next = 1]
    /\ pc' = [pc EXCEPT ![w] = "apply"]
    /\ UNCHANGED <<snaps, tip, warehouse, faults, catalog, plan>>

\* A fault for the checks to catch: the retry forgets to rebase the session.
RebaseNothing(w) ==
    /\ pc[w] = "rebase"
    /\ ~RootClash(w)
    /\ loop' = [loop EXCEPT ![w].attempt = @ + 1, ![w].next = 1]
    /\ pc' = [pc EXCEPT ![w] = "apply"]
    /\ UNCHANGED <<snaps, tip, warehouse, faults, session, catalog, plan>>

\* session.rebase onto the tip of the session's branch, as it is now, and
\* the next turn of commit()'s loop.
Rebase(w) ==
    /\ pc[w] = "rebase"
    /\ ~RootClash(w)
    /\ session' = [session EXCEPT ![w].snap = tip[session[w].branch]]
    /\ loop' = [loop EXCEPT ![w].attempt = @ + 1, ![w].next = 1]
    /\ pc' = [pc EXCEPT ![w] = "apply"]
    /\ UNCHANGED <<snaps, tip, warehouse, faults, catalog, plan>>

RebaseFails(w) ==
    /\ pc[w] = "rebase"
    /\ RootClash(w) \/ ChunkClash(w)
    /\ Fail(w, "RebaseFailedError")
    /\ UNCHANGED faults

(***************************************************************************)
(* The specification.                                                      *)
(***************************************************************************)

SeedLoc(t)   == [table |-> t, by |-> Seeder, n |-> 0]
SeedTable(t) ==
    IF SeedKeys = {} THEN NewTable
    ELSE Appended(NewTable, SeedLoc(t), {[key |-> k, by |-> Seeder] : k \in SeedKeys})

\* The snapshot every branch starts at: the seed commit, or the empty one of
\* a repository just created.
FirstSnapshot(b) ==
    [parent |-> 0, branch |-> b, by |-> Seeder,
     chunks |-> [c \in Chunks |-> Nil],
     root |-> SeedTables # {}, attrs |-> SeedTables,
     pointers |-> [t \in Tables |-> IF t \in SeedTables THEN SeedLoc(t) ELSE Nil],
     wrote |-> {}, wroteRoot |-> SeedTables # {}]

\* The branch of the first snapshot; until it is opened, also the place
\* holder of a transaction.
FirstBranch == CHOOSE b \in Branches : TRUE

Init ==
    /\ snaps = <<FirstSnapshot(FirstBranch)>>
    /\ tip = [b \in Branches |-> 1]
    /\ warehouse = [l \in {SeedLoc(t) : t \in SeedTables} |-> SeedTable(l.table)]
    /\ faults = 0
    /\ pc = [w \in Writers |-> "idle"]
    /\ session = [w \in Writers |-> [branch |-> FirstBranch, snap |-> 1,
                                     root |-> FALSE, attrs |-> {}, chunks |-> {}]]
    /\ plan = [w \in Writers |-> [branch |-> FirstBranch, start |-> 1,
                                  intents |-> << >>, direct |-> << >>,
                                  chunks |-> {}, base |-> NoPointers,
                                  captured |-> {}]]
    /\ catalog = [w \in Writers |-> [pointers |-> NoPointers, staged |-> NoPointers,
                                     written |-> 0]]
    /\ loop = [w \in Writers |-> [unmanaged |-> {}, next |-> 1, attempt |-> 0,
                                  calls |-> 0, err |-> "none"]]

\* The steps of the caller's code before and between calls of commit().
Caller(w) ==
    \/ \E b, sb \in Branches : Open(w, b, sb) \/ RefuseSession(w, b, sb)
    \/ \E op \in Ops : CreateTable(w, op) \/ AppendRows(w, op) \/ RemoveRows(w, op)
    \/ \E c \in Chunks : WriteChunk(w, c)
    \/ \E op \in DirectOps : Direct(w, op)
    \/ BodyRaises(w)
    \/ BeginCommit(w)

\* The steps of a running commit().
Commit(w) ==
    \/ ApplyIntent(w) \/ ApplyNothing(w) \/ ApplyMissing(w)
    \/ RefuseEmpty(w) \/ Publish(w) \/ Conflict(w) \/ Exhausted(w)
    \/ RefuseUncovered(w) \/ RefuseRemoval(w) \/ Adopt(w)
    \/ Rebase(w) \/ RebaseFails(w)

\* Every transaction has ended and no caller goes on.
Terminated ==
    /\ \A w \in Writers : pc[w] \in {"committed", "failed"}
    /\ UNCHANGED vars

Next ==
    \/ \E w \in Writers : Caller(w) \/ Commit(w) \/ StorageFault(w) \/ AnswerLost(w)
    \/ Terminated

Spec == Init /\ [][Next]_vars

\* A running commit() is a thread that keeps taking steps; nothing makes a
\* caller call commit() in the first place.
FairSpec == Spec /\ \A w \in Writers : WF_vars(Commit(w))

(***************************************************************************)
(* Reading.                                                                *)
(***************************************************************************)

\* HybridSnapshot.table at snapshot i: the pointer in the commit metadata
\* resolves the table; without one, the declaration says why there is none.
ReadTable(i, t) ==
    CASE snaps[i].pointers[t] # Nil                               -> "table"
      [] snaps[i].pointers[t] = Nil /\ t \notin snaps[i].attrs -> "KeyError"
      [] OTHER                                         -> "ValueError: malformed"

(***************************************************************************)
(* Properties.                                                             *)
(***************************************************************************)

\* The rows a pointer map gives a table.
RowsAt(pointers, t) ==
    IF pointers[t] = Nil THEN {} ELSE Rows(warehouse[pointers[t]])

\* Whether an operation of w puts a row in table t, and whether it takes it out.
Gives(w, op, t, r) ==
    op.table = t /\ op.kind \in {"append", "overwrite"} /\ r \in DataRows(w, op)
Takes(op, t, r) ==
    op.table = t /\ op.kind \in {"delete", "overwrite"} /\ r.key \in op.pred

\* What operations of w, run alone and in order, make of the rows of table t: a
\* row is there if it was or an operation gave it, and no operation took it since.
InOrder(w, ops, t, rows) ==
    {r \in Row :
        \/ r \in rows /\ \A j \in DOMAIN ops : ~Takes(ops[j], t, r)
        \/ \E i \in DOMAIN ops :
              /\ Gives(w, ops[i], t, r)
              /\ \A j \in DOMAIN ops : i < j => ~Takes(ops[j], t, r)}

\* What w's whole transaction does to table t, run alone on those rows.
Serially(w, t, rows) == InOrder(w, plan[w].direct \o plan[w].intents, t, rows)

\* Every variable keeps its shape, and the retry counter of commit() never
\* passes max_retries.
TypeOK ==
    /\ snaps \in Seq(Snapshot)
    /\ tip \in [Branches -> 1..Len(snaps)]
    /\ DOMAIN warehouse \subseteq Loc
    /\ \A l \in DOMAIN warehouse : warehouse[l] \in Metadata
    /\ faults \in 0..MaxFaults
    /\ pc \in [Writers -> Phases]
    /\ session \in [Writers -> Session]
    /\ catalog \in [Writers -> Catalog]
    /\ plan \in [Writers -> Plan]
    /\ loop \in [Writers -> Loop]

\* No lost update: each commit's table versions descend from those of the
\* commit it was made on, so what a reader saw at the parent is still in the
\* table's history (transaction.py, _recover and commit).
PublishedDescends ==
    \A i \in 2..Len(snaps) : \A t \in Tables :
        LET old == snaps[snaps[i].parent].pointers[t]
            new == snaps[i].pointers[t]
        IN  old # Nil =>
                /\ new # Nil
                /\ Len(warehouse[old].snaps) <= Len(warehouse[new].snaps)
                /\ SubSeq(warehouse[new].snaps, 1, Len(warehouse[old].snaps))
                       = warehouse[old].snaps

\* Serializability: the rows each commit publishes are those its operations,
\* run alone and in order on the parent commit's rows, would have produced -
\* whatever was replayed on the way, and the work done directly on tx.catalog
\* included.
PublishedIsSerial ==
    \A i \in 2..Len(snaps) : \A t \in Tables :
        RowsAt(snaps[i].pointers, t) =
            Serially(snaps[i].by, t, RowsAt(snaps[snaps[i].parent].pointers, t))

\* Both halves or neither: reading a table at any snapshot never meets the
\* store HybridSnapshot._unresolvable calls malformed, and no table is resolved
\* that its root group does not declare.
DeclaredResolves ==
    \A i \in DOMAIN snaps : \A t \in Tables :
        /\ ReadTable(i, t) # "ValueError: malformed"
        /\ ReadTable(i, t) = "table" => t \in snaps[i].attrs

\* All or nothing: a transaction that committed has all its array writes in
\* exactly one snapshot, on the branch it named, and so has one that raised
\* because the answer of its commit was lost; any other transaction left no row,
\* no chunk and no snapshot a reader can reach.
AllOrNothing ==
    \A w \in Writers :
        LET own == {i \in DOMAIN snaps : snaps[i].by = w} IN
        IF pc[w] = "committed" \/ loop[w].err = "answer lost"
        THEN \E i \in own :
                /\ own = {i}
                /\ snaps[i].branch = plan[w].branch
                /\ snaps[i].wrote = plan[w].chunks
                /\ \A c \in plan[w].chunks : snaps[i].chunks[c] = w
        ELSE /\ own = {}
             /\ \A i \in DOMAIN snaps :
                    /\ \A c \in Chunks : snaps[i].chunks[c] # w
                    /\ \A t \in Tables : \A r \in RowsAt(snaps[i].pointers, t) : r.by # w

\* How often the author of a row asked for it to be added.
Asked(r) ==
    IF r.by = Seeder THEN 1
    ELSE LET ops == plan[r.by].direct \o plan[r.by].intents
         IN  Cardinality({i \in DOMAIN ops : r.key \in ops[i].data})

\* A retry appends nothing twice: a row is in no more data files of a table
\* version a reader can reach than the operations that asked for it (the
\* replay of commit() after rebase_onto).
AppendedOnce ==
    \A i \in DOMAIN snaps : \A t \in Tables :
        snaps[i].pointers[t] # Nil =>
            LET m == warehouse[snaps[i].pointers[t]] IN
            \A r \in Rows(m) : Cardinality({f \in m.files : r \in f.rows}) <= Asked(r)

\* Snapshot isolation of removals: every row a staged version removes from the
\* version it was built on was already there when the transaction started.
\* Rows another writer added since then are never deleted unseen, however many
\* conflicts were replayed (_validate_removal and conflicting_adds).
NoBlindRemoval ==
    \A w \in Writers : \A t \in Tables :
        catalog[w].staged[t] # Nil =>
            RowsAt(catalog[w].pointers, t) \ RowsAt(catalog[w].staged, t)
                \subseteq RowsAt(snaps[plan[w].start].pointers, t)

\* commit() gives up with ConflictError only after max_retries + 1 commits of
\* others landed on its branch since it started: no attempt is wasted on a tip
\* it had already lost to.
ExhaustionIsEarned ==
    \A w \in Writers :
        loop[w].err = "ConflictError" =>
            Cardinality({i \in plan[w].start + 1 .. Len(snaps) :
                            snaps[i].branch = plan[w].branch /\ snaps[i].by # w})
                > MaxRetries

\* A transaction is refused as empty only if it asked for nothing: none of its
\* operations changes a row of the tables as they were when it started, and it
\* wrote no chunk.  A replay the winner left nothing to do for is no such error.
RefusedOnlyIfEmpty ==
    \A w \in Writers :
        loop[w].err = "no changes" =>
            /\ plan[w].chunks = {}
            /\ \A t \in Tables :
                  LET rows == RowsAt(snaps[plan[w].start].pointers, t)
                  IN  Serially(w, t, rows) = rows

\* Time travel: what any snapshot resolves to never changes - not the snapshot,
\* and not the table versions it points at, which later commits, replays and
\* abandoned attempts write next to (catalog.py, _metadata_location).
SnapshotsAreImmutable ==
    [][\A i \in DOMAIN snaps :
          /\ snaps'[i] = snaps[i]
          /\ \A t \in Tables :
                snaps[i].pointers[t] # Nil =>
                    warehouse'[snaps[i].pointers[t]] = warehouse[snaps[i].pointers[t]]]_vars

\* The files of its starting version that a transaction's deletes touch.
Targeted(w) ==
    UNION { LET loc == snaps[plan[w].start].pointers[plan[w].intents[i].table]
            IN  IF loc = Nil THEN {}
                ELSE Touched(warehouse[loc], plan[w].intents[i].pred) :
            i \in {i \in DOMAIN plan[w].intents : plan[w].intents[i].kind = "delete"} }

\* What README.md says of concurrent deletes: two transactions that started
\* from the same snapshot never both commit deletes that touch one data file.
SameFileDeletesExclude ==
    \A v, w \in Writers :
        /\ v # w
        /\ pc[v] = "committed" /\ pc[w] = "committed"
        /\ plan[v].start = plan[w].start
        => Targeted(v) \cap Targeted(w) = {}

\* A call of commit() ends: it publishes or raises, however the other writers
\* interleave with it.
CommitTerminates ==
    \A w \in Writers :
        pc[w] \in {"apply", "recover", "rebase"} ~> pc[w] \in {"committed", "failed"}
=============================================================================
