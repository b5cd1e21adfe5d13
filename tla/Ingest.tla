-------------------------------- MODULE Ingest --------------------------------
(***************************************************************************)
(* The demo's batch ingest: store.py's ensure_table, ingest.py's           *)
(* ingest_batch and the write_granule_to_store it calls, run by several    *)
(* processes on one store.                                                 *)
(*                                                                         *)
(* The transaction underneath is HybridTransaction, cut down to what a     *)
(* batch asks of it: one append intent, and array nodes staged in its      *)
(* session.  Its recovery still reads the tip twice (Adopt, then Rebase).  *)
(* A granule's arrays are written part by part (a level of a band, or a    *)
(* band's attributes); the session is private until the commit, so only    *)
(* the number of parts written when the writer returns or raises matters.  *)
(***************************************************************************)
EXTENDS Naturals, Sequences, FiniteSets

CONSTANTS
    Batches,     \* the processes, each ingesting one batch
    Granules,
    NoBbox,      \* the granules whose row has no bbox: malformed records
    Inputs,      \* the batches' possible rows, as sequences of granules
    Parts,       \* the parts of a granule's arrays, at least one
    MaxRetries,  \* max_retries of every transaction
    MaxFaults,   \* bound: failed cleanups and storage errors in a behaviour
    Nil

ASSUME BatchAssumption == Nil \notin Batches
ASSUME InputAssumption == Inputs \subseteq Seq(Granules) /\ NoBbox \subseteq Granules
ASSUME PartAssumption  == Parts \in Nat \ {0}
ASSUME LimitAssumption == {MaxRetries, MaxFaults} \subseteq Nat

VARIABLES
    commits,  \* the snapshots of main, in commit order
    faults,   \* failed cleanups, and storage errors, so far
    pc,       \* where each process is
    given,    \* the rows it was given
    tx,       \* its transaction: base snapshot, staged nodes, adopted table version
    result    \* the locals of ingest_batch: next row, keep, skipped, error

vars == <<commits, faults, pc, given, tx, result>>

Node   == [parts : 0..Parts, by : Batches \cup {Nil}]
NoNode == [parts |-> 0, by |-> Nil]

\* A table row: the n-th one its batch kept, pointing at /{granule}.
Row    == [granule : Granules, by : Batches, n : Nat]

\* A snapshot of the store: whether commit metadata points at the granules
\* table, the rows it resolves to, and the array nodes.  seen is no part of it:
\* the tip when its author last read the pointers, by which properties tell
\* commits made past the window of _recover.
Commit == [table : BOOLEAN, rows : SUBSET Row, nodes : [Granules -> Node], seen : Nat]

\* What a process may end with.
Errors == {"none", "no changes", "no bbox", "BatchFailed", "ConflictError",
           "RebaseFailedError", "storage"}

Tx     == [base : Nat, staged : [Granules -> 0..Parts], rows : SUBSET Row,
           seen : Nat, attempt : 0..MaxRetries]
Result == [next : Nat, keep : Seq(Granules), skipped : SUBSET Granules, err : Errors]

Phases == {"ensure", "absent", "creating", "start", "loop", "commit", "recover",
           "rebase", "returned", "raised"}

Tip           == Len(commits)
NothingStaged == [g \in Granules |-> 0]

\* A transaction opened on main.
Opened == [base |-> Tip, staged |-> NothingStaged, rows |-> commits[Tip].rows,
           seen |-> Tip, attempt |-> 0]

\* An error leaves the process; its session is discarded, or dropped with it.
Raise(b, err) ==
    /\ pc' = [pc EXCEPT ![b] = "raised"]
    /\ result' = [result EXCEPT ![b].err = err]
    /\ tx' = [tx EXCEPT ![b].staged = NothingStaged]
    /\ UNCHANGED given

FaultsLeft    == faults.cleanup + faults.storage < MaxFaults
StorageFailed == FaultsLeft /\ faults' = [faults EXCEPT !.storage = @ + 1]

(***************************************************************************)
(* ensure_table                                                            *)
(***************************************************************************)

\* The pointers at main name the table: nothing to do.
TableThere(b) ==
    /\ pc[b] = "ensure" /\ commits[Tip].table
    /\ pc' = [pc EXCEPT ![b] = "start"]
    /\ UNCHANGED <<commits, faults, given, tx, result>>

TableAbsent(b) ==
    /\ pc[b] = "ensure" /\ ~commits[Tip].table
    /\ pc' = [pc EXCEPT ![b] = "absent"]
    /\ UNCHANGED <<commits, faults, given, tx, result>>

\* The transaction is opened after the check, on the tip as it is by then.
OpenCreation(b) ==
    /\ pc[b] = "absent"
    /\ tx' = [tx EXCEPT ![b] = Opened]
    /\ pc' = [pc EXCEPT ![b] = "creating"]
    /\ UNCHANGED <<commits, faults, given, result>>

\* The table, declared on the root group, lands on main.
CreationLands(b) ==
    /\ pc[b] = "creating" /\ ~commits[tx[b].base].table
    /\ tx[b].base = Tip
    /\ commits' = Append(commits, [commits[Tip] EXCEPT !.table = TRUE,
                                                       !.seen = tx[b].seen])

CreateTable(b) ==
    /\ CreationLands(b)
    /\ pc' = [pc EXCEPT ![b] = "start"]
    /\ UNCHANGED <<faults, given, tx, result>>

\* Another process created it since.  If before the transaction was opened, the
\* declaration and the intent find nothing to do and commit() raises ValueError;
\* if after, both wrote the root group's attributes and the rebase fails.
CreationRaises(b) ==
    /\ pc[b] = "creating"
    /\ \/ commits[tx[b].base].table /\ Raise(b, "no changes")
       \/ /\ ~commits[tx[b].base].table /\ tx[b].base # Tip
          /\ Raise(b, "RebaseFailedError")
    /\ UNCHANGED <<commits, faults>>

(***************************************************************************)
(* ingest_batch: the loop over the rows                                    *)
(***************************************************************************)

\* with_stac_hash raises before anything is staged.
RejectRows(b) ==
    /\ pc[b] = "start"
    /\ \E i \in DOMAIN given[b] : given[b][i] \in NoBbox
    /\ Raise(b, "no bbox")
    /\ UNCHANGED <<commits, faults>>

OpenBatch(b) ==
    /\ pc[b] = "start"
    /\ \A i \in DOMAIN given[b] : given[b][i] \notin NoBbox
    /\ tx' = [tx EXCEPT ![b] = Opened]
    /\ pc' = [pc EXCEPT ![b] = "loop"]
    /\ UNCHANGED <<commits, faults, given, result>>

InLoop(b)    == pc[b] = "loop" /\ result[b].next <= Len(given[b])
LoopDone(b)  == pc[b] = "loop" /\ result[b].next > Len(given[b])
Granule(b)   == given[b][result[b].next]
Committed(b) == {result[b].keep[i] : i \in DOMAIN result[b].keep}

\* A fault for the checks to catch: only the nodes of this batch are looked at.
StagedHere(b, g) == tx[b].staged[g] > 0

\* _granule_exists: some node is at /{granule_id} in the session, published
\* before it was opened or staged in it.
GranuleExists(b, g) == tx[b].staged[g] > 0 \/ commits[tx[b].base].nodes[g].parts > 0

\* _record_skip, and on to the next row.
Skip(b) == result' = [result EXCEPT ![b].skipped = @ \cup {Granule(b)},
                                    ![b].next = @ + 1]

\* Staged earlier in the batch, or already in the store.
SkipGranule(b) ==
    /\ InLoop(b)
    /\ Granule(b) \in Committed(b) \/ GranuleExists(b, Granule(b))
    /\ Skip(b)
    /\ UNCHANGED <<commits, faults, pc, given, tx>>

Writing(b) ==
    InLoop(b) /\ Granule(b) \notin Committed(b) /\ ~GranuleExists(b, Granule(b))

\* The writer stages every part, and the row is kept.
WriteGranule(b) ==
    /\ Writing(b)
    /\ tx' = [tx EXCEPT ![b].staged[Granule(b)] = Parts]
    /\ result' = [result EXCEPT ![b].keep = Append(@, Granule(b)), ![b].next = @ + 1]
    /\ UNCHANGED <<commits, faults, pc, given>>

\* A fault for the checks to catch: what the writer staged is left in place.
LeftBehind(n) == n

\* delete_dir of what the writer had staged of the granule.
CleanedUp(n) == 0

\* A fault for the checks to catch: a failed granule is reported as committed.
WriterRaisesCounted(b) ==
    /\ Writing(b)
    /\ tx' = [tx EXCEPT ![b].staged[Granule(b)] = 0]
    /\ result' = [result EXCEPT ![b].keep = Append(@, Granule(b)), ![b].next = @ + 1]
    /\ UNCHANGED <<commits, faults, pc, given>>

\* The writer raises with n parts staged: what is there is deleted, and the
\* granule skipped.
WriterRaises(b) ==
    /\ Writing(b)
    /\ \E n \in 0..Parts : tx' = [tx EXCEPT ![b].staged[Granule(b)] = CleanedUp(n)]
    /\ Skip(b)
    /\ UNCHANGED <<commits, faults, pc, given>>

\* The same, but the delete raises too, having deleted some or none of the
\* parts; that only goes into the reason.
CleanupFails(b) ==
    /\ Writing(b) /\ FaultsLeft
    /\ \E n \in 1..Parts : tx' = [tx EXCEPT ![b].staged[Granule(b)] = n]
    /\ faults' = [faults EXCEPT !.cleanup = @ + 1]
    /\ Skip(b)
    /\ UNCHANGED <<commits, pc, given>>

\* BatchFailed
NothingKept(b) ==
    /\ LoopDone(b) /\ result[b].keep = << >>
    /\ Raise(b, "BatchFailed")
    /\ UNCHANGED <<commits, faults>>

\* The kept rows become the transaction's one append.
AppendRows(b) ==
    /\ LoopDone(b) /\ result[b].keep # << >>
    /\ pc' = [pc EXCEPT ![b] = "commit"]
    /\ UNCHANGED <<commits, faults, given, tx, result>>

(***************************************************************************)
(* tx.commit() of a batch                                                  *)
(***************************************************************************)

\* The rows the batch appends.
OwnRows(b) == {[granule |-> result[b].keep[i], by |-> b, n |-> i] :
                    i \in DOMAIN result[b].keep}

\* The array nodes of the new snapshot: the staged ones over the base's.
MergedNodes(b) ==
    [g \in Granules |-> IF tx[b].staged[g] > 0
                        THEN [parts |-> tx[b].staged[g], by |-> b]
                        ELSE commits[tx[b].base].nodes[g]]

\* The batch lands on main.
BatchLands(b) ==
    /\ pc[b] = "commit" /\ tx[b].base = Tip
    /\ commits' = Append(commits, [table |-> TRUE, rows |-> tx[b].rows \cup OwnRows(b),
                                   nodes |-> MergedNodes(b), seen |-> tx[b].seen])

Publish(b) ==
    /\ BatchLands(b)
    /\ pc' = [pc EXCEPT ![b] = "returned"]
    /\ UNCHANGED <<faults, given, tx, result>>

\* A fault for the checks to catch: the last attempt is retried as well.
ConflictOnceMore(b) ==
    /\ pc[b] = "commit" /\ tx[b].base # Tip
    /\ pc' = [pc EXCEPT ![b] = "recover"]
    /\ UNCHANGED <<commits, faults, given, tx, result>>

Conflict(b) ==
    /\ pc[b] = "commit" /\ tx[b].base # Tip /\ tx[b].attempt < MaxRetries
    /\ pc' = [pc EXCEPT ![b] = "recover"]
    /\ UNCHANGED <<commits, faults, given, tx, result>>

Exhausted(b) ==
    /\ pc[b] = "commit" /\ tx[b].base # Tip /\ tx[b].attempt = MaxRetries
    /\ Raise(b, "ConflictError")
    /\ UNCHANGED <<commits, faults>>

\* A storage error anywhere before main moved, in commit() or ahead of it.
StorageFault(b) ==
    /\ pc[b] \notin {"returned", "raised"}
    /\ StorageFailed
    /\ Raise(b, "storage")
    /\ UNCHANGED commits

\* session.commit moved main, and its answer was lost: the same error, the same
\* except clause, but what was staged is published.
AnswerLost(b) ==
    /\ CreationLands(b) \/ BatchLands(b)
    /\ StorageFailed
    /\ Raise(b, "storage")

\* A fault for the checks to catch: the table version is not read again.
BaseRows(b) == commits[tx[b].base].rows

\* read_pointers_at_branch, resolved to the rows of the table.
TipRows(b) == commits[Tip].rows

Adopt(b) ==
    /\ pc[b] = "recover"
    /\ tx' = [tx EXCEPT ![b].rows = TipRows(b), ![b].seen = Tip]
    /\ pc' = [pc EXCEPT ![b] = "rebase"]
    /\ UNCHANGED <<commits, faults, given, result>>

\* Both sides created a node at one path: the solver has no strategy.
NodeClash(b) ==
    \E g \in Granules : tx[b].staged[g] > 0 /\ commits[Tip].nodes[g].parts > 0

Rebase(b) ==
    /\ pc[b] = "rebase" /\ ~NodeClash(b)
    /\ tx' = [tx EXCEPT ![b].base = Tip, ![b].attempt = @ + 1]
    /\ pc' = [pc EXCEPT ![b] = "commit"]
    /\ UNCHANGED <<commits, faults, given, result>>

RebaseFails(b) ==
    /\ pc[b] = "rebase" /\ NodeClash(b)
    /\ Raise(b, "RebaseFailedError")
    /\ UNCHANGED <<commits, faults>>

(***************************************************************************)
(* The specification.                                                      *)
(***************************************************************************)

\* A repository just created, and no process has begun.
Init ==
    /\ commits = <<[table |-> FALSE, rows |-> {},
                    nodes |-> [g \in Granules |-> NoNode], seen |-> 0]>>
    /\ faults = [cleanup |-> 0, storage |-> 0]
    /\ pc = [b \in Batches |-> "ensure"]
    /\ given \in [Batches -> Inputs]
    /\ tx = [b \in Batches |-> Opened]
    /\ result = [b \in Batches |-> [next |-> 1, keep |-> << >>, skipped |-> {},
                                    err |-> "none"]]

EnsureTable(b) ==
    TableThere(b) \/ TableAbsent(b) \/ OpenCreation(b) \/ CreateTable(b) \/ CreationRaises(b)

IngestBatch(b) ==
    \/ RejectRows(b) \/ OpenBatch(b)
    \/ SkipGranule(b) \/ WriteGranule(b) \/ WriterRaises(b) \/ CleanupFails(b)
    \/ NothingKept(b) \/ AppendRows(b)
    \/ Publish(b) \/ Conflict(b) \/ Exhausted(b)
    \/ Adopt(b) \/ Rebase(b) \/ RebaseFails(b)

Fault(b) == StorageFault(b) \/ AnswerLost(b)

Step(b) == EnsureTable(b) \/ IngestBatch(b) \/ Fault(b)

\* Every process has ended.
Terminated == (\A b \in Batches : pc[b] \in {"returned", "raised"}) /\ UNCHANGED vars

Next == (\E b \in Batches : Step(b)) \/ Terminated

Spec == Init /\ [][Next]_vars

(***************************************************************************)
(* Properties.                                                             *)
(***************************************************************************)

RowsOf(c, g) == {r \in commits[c].rows : r.granule = g}

\* Every variable keeps its shape.
TypeOK ==
    /\ commits \in Seq(Commit) /\ commits # << >>
    /\ faults \in [cleanup : 0..MaxFaults, storage : 0..MaxFaults]
    /\ pc \in [Batches -> Phases]
    /\ given \in [Batches -> Inputs]
    /\ tx \in [Batches -> Tx]
    /\ result \in [Batches -> Result]

\* The invariant the store exists for, one way (ingest_batch): wherever a reader
\* looks, a row's arrays are all there, written by the batch that wrote the row -
\* not by another that took the granule for new.
RowsHaveArrays ==
    \A c \in DOMAIN commits : \A r \in commits[c].rows :
        commits[c].nodes[r.granule] = [parts |-> Parts, by |-> r.by]

\* Whether commit c was built on the table version of the commit before it: no
\* other process published between its author's read of the pointers and the
\* rebase that followed.
Undisturbed(c) == commits[c].seen = c - 1

\* The other way: arrays without a row are never published, whatever the writer
\* had staged of a granule when it raised - as long as cleanups work, and up to
\* the first commit that fell into the window of _recover.
ArraysHaveRow ==
    \A c \in DOMAIN commits :
        faults.cleanup = 0 /\ (\A d \in 1..c : Undisturbed(d)) =>
            \A g \in Granules : commits[c].nodes[g].parts > 0 => RowsOf(c, g) # {}

\* What the docstring of ingest_batch says: a row and its arrays are always
\* published together.
RowAndArraysTogether ==
    \A c \in DOMAIN commits : \A g \in Granules :
        commits[c].nodes[g].parts > 0 <=> RowsOf(c, g) # {}

\* No granule has two rows, though ids repeat within a batch and concurrent
\* batches hold the same granule.
OneRowPerGranule ==
    \A c \in DOMAIN commits : \A g \in Granules : Cardinality(RowsOf(c, g)) <= 1

\* Ingest only appends: what one commit published of the table and of a
\* granule, the next still has, exactly as it was; its rows too, unless the next
\* fell into the window of _recover.
PublishedStays ==
    \A c \in 2..Len(commits) :
        /\ commits[c-1].table => commits[c].table
        /\ Undisturbed(c) => commits[c-1].rows \subseteq commits[c].rows
        /\ \A g \in Granules :
              commits[c-1].nodes[g].parts > 0 => commits[c].nodes[g] = commits[c-1].nodes[g]

\* What commit c holds of batch b: anything at all, and the granules whose row
\* and all of whose arrays it has from b.
Holds(c, b) ==
    (\E r \in commits[c].rows : r.by = b) \/ (\E g \in Granules : commits[c].nodes[g].by = b)

WholeGranules(c, b) ==
    {g \in Granules : /\ commits[c].nodes[g] = [parts |-> Parts, by |-> b]
                      /\ \E r \in RowsOf(c, g) : r.by = b}

\* ingest_batch is all or nothing, and BatchResult the truth: the commit of a
\* batch that returned holds a row and all the arrays of just the granules it
\* lists as committed, and it lists every other one it was given as skipped.  Of
\* a batch that raised nothing is ever in the store - or, after a storage error,
\* which the caller cannot tell from a lost answer, everything it kept, in one
\* commit.  (commit()'s "nothing is published", which ingest_batch's except
\* clause repeats, holds only without that second case.)
ResultIsTrue ==
    \A b \in Batches : LET own == tx[b].base + 1 IN
        /\ pc[b] = "returned" =>
              /\ WholeGranules(own, b) = Committed(b)
              /\ {given[b][i] : i \in DOMAIN given[b]} = Committed(b) \cup result[b].skipped
        /\ pc[b] = "raised" =>
              \/ \A c \in DOMAIN commits : ~Holds(c, b)
              \/ /\ result[b].err = "storage" /\ own \in DOMAIN commits
                 /\ WholeGranules(own, b) = Committed(b)
                 /\ \A c \in 1..tx[b].base : ~Holds(c, b)
=============================================================================
