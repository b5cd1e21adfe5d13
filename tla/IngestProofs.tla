----------------------------- MODULE IngestProofs -----------------------------
(***************************************************************************)
(* Theorems about Ingest, for any number of processes, granules, rows and  *)
(* parts, and any limits on retries and faults.                            *)
(***************************************************************************)
EXTENDS Ingest, FiniteSetTheorems, TLAPS

(***************************************************************************)
(* The inductive invariant.                                                *)
(***************************************************************************)

\* What a transaction holds on to: the table version of a snapshot it saw, which
\* is not newer than its base except between the two reads of _recover.
Bases(b) ==
    /\ tx[b].base \in DOMAIN commits /\ tx[b].seen \in DOMAIN commits
    /\ tx[b].rows = commits[tx[b].seen].rows
    /\ pc[b] \notin {"rebase", "raised"} => tx[b].seen <= tx[b].base

\* Nothing staged is at a path its base has a node at.
Apart(b) ==
    \A g \in Granules : tx[b].staged[g] > 0 => commits[tx[b].base].nodes[g].parts = 0

\* A row is kept once, and only with all its parts staged; what else is staged is
\* left from a failed cleanup.
Kept(b) ==
    LET keep == result[b].keep IN
    /\ \A i, j \in DOMAIN keep : keep[i] = keep[j] => i = j
    /\ pc[b] # "raised" => \A i \in DOMAIN keep : tx[b].staged[keep[i]] = Parts
    /\ faults.cleanup = 0 => \A g \in Granules : tx[b].staged[g] > 0 => g \in Committed(b)

Early == {"ensure", "absent", "creating", "start"}
Late  == {"commit", "recover", "rebase", "returned"}

\* The rows passed are those kept and those skipped.
Accounted(b) ==
    /\ result[b].next > 0
    /\ \A i \in DOMAIN given[b] :
          i < result[b].next => given[b][i] \in Committed(b) \cup result[b].skipped
    /\ Committed(b) \cup result[b].skipped \subseteq {given[b][i] : i \in DOMAIN given[b]}
    /\ pc[b] \in Early => result[b].keep = << >> /\ tx[b].staged = NothingStaged
    /\ pc[b] \in Late => result[b].next > Len(given[b])

\* Nothing of a batch is in the store.
Unseen(b) == \A c \in DOMAIN commits : ~Holds(c, b)

\* All it kept is, from the commit after its last base on.
Landed(b) ==
    /\ tx[b].base + 1 \in DOMAIN commits
    /\ WholeGranules(tx[b].base + 1, b) = Committed(b)
    /\ \A c \in 1..tx[b].base : ~Holds(c, b)

\* A batch that returned has landed; one that raised may have, after a storage
\* error; any other has not.
Outcome(b) ==
    /\ pc[b] = "returned" => Landed(b)
    /\ pc[b] = "raised"   => Unseen(b) \/ (Landed(b) /\ result[b].err = "storage")
    /\ pc[b] \notin {"returned", "raised"} => Unseen(b)

\* A commit is tried again only with a retry left.
Retrying(b) == pc[b] \in {"recover", "rebase"} => tx[b].attempt < MaxRetries

\* A granule's node, once published, is in every later snapshot.
NodesStay ==
    \A c, d \in DOMAIN commits : c <= d => \A g \in Granules :
        commits[c].nodes[g].parts > 0 => commits[d].nodes[g] = commits[c].nodes[g]

\* No two rows of a snapshot are of one granule.
RowsDiffer ==
    \A c \in DOMAIN commits : \A r, s \in commits[c].rows : r.granule = s.granule => r = s

BatchInv(b) == /\ Bases(b) /\ Apart(b) /\ Kept(b) /\ Accounted(b)
               /\ Outcome(b) /\ Retrying(b)
StoreInv    == NodesStay /\ RowsHaveArrays /\ RowsDiffer /\ ArraysHaveRow /\ PublishedStays
IInv        == TypeOK /\ StoreInv /\ \A b \in Batches : BatchInv(b)

(***************************************************************************)
(* The shape of the state.                                                 *)
(***************************************************************************)

\* What a transaction opened on main is.
LEMMA OpenedType ==
    ASSUME TypeOK
    PROVE  /\ Opened \in Tx /\ Tip \in Nat \ {0} /\ Tip \in DOMAIN commits
           /\ commits[Tip] \in Commit /\ NothingStaged \in [Granules -> 0..Parts]
<1>1. Tip \in Nat \ {0} /\ Tip \in DOMAIN commits /\ commits[Tip] \in Commit
  BY DEF TypeOK, Tip
<1>2. NothingStaged \in [Granules -> 0..Parts]
  BY PartAssumption DEF NothingStaged
<1>3. 0 \in 0..MaxRetries
  BY LimitAssumption
<1> QED BY <1>1, <1>2, <1>3 DEF Opened, Tx, Commit

\* The row a batch is at names a granule.
LEMMA GranuleType ==
    ASSUME TypeOK, NEW b \in Batches, Accounted(b), InLoop(b)
    PROVE  /\ Granule(b) \in Granules
           /\ result[b].next \in DOMAIN given[b]
<1>1. given[b] \in Seq(Granules)
  BY InputAssumption DEF TypeOK
<1>2. result[b].next \in 1..Len(given[b])
  BY <1>1 DEF TypeOK, Result, Accounted, InLoop
<1> QED BY <1>1, <1>2 DEF Granule

\* The parts of a staged granule, after a write or a cleanup.
LEMMA StagingType ==
    ASSUME TypeOK, NEW b \in Batches, NEW g \in Granules, NEW n \in 0..Parts,
           tx' = [tx EXCEPT ![b].staged[g] = n]
    PROVE  /\ tx' \in [Batches -> Tx]
           /\ tx'[b] = [tx[b] EXCEPT !.staged = [tx[b].staged EXCEPT ![g] = n]]
           /\ \A c \in Batches \ {b} : tx'[c] = tx[c]
BY DEF TypeOK, Tx

\* The locals of a batch after a row was skipped.
LEMMA SkipType ==
    ASSUME TypeOK, NEW b \in Batches, Granule(b) \in Granules, Skip(b)
    PROVE  /\ result' \in [Batches -> Result]
           /\ result'[b] = [result[b] EXCEPT !.skipped = @ \cup {Granule(b)}, !.next = @ + 1]
           /\ \A c \in Batches \ {b} : result'[c] = result[c]
<1>1. [result[b] EXCEPT !.skipped = @ \cup {Granule(b)}, !.next = @ + 1] \in Result
  <2>1. result[b] \in Result
    BY DEF TypeOK
  <2>2. /\ result[b].skipped \cup {Granule(b)} \in SUBSET Granules
        /\ result[b].next + 1 \in Nat
    BY <2>1 DEF Result
  <2> QED BY <2>1, <2>2 DEF Result
<1>2. result' = [result EXCEPT ![b] = [result[b] EXCEPT !.skipped = @ \cup {Granule(b)},
                                                        !.next = @ + 1]]
  BY DEF TypeOK, Result, Skip
<1> QED BY <1>1, <1>2 DEF TypeOK

\* The locals of a batch after a row was kept.
LEMMA KeepType ==
    ASSUME TypeOK, NEW b \in Batches, Granule(b) \in Granules,
           result' = [result EXCEPT ![b].keep = Append(@, Granule(b)), ![b].next = @ + 1]
    PROVE  /\ result' \in [Batches -> Result]
           /\ result'[b] = [result[b] EXCEPT !.keep = Append(@, Granule(b)), !.next = @ + 1]
           /\ \A c \in Batches \ {b} : result'[c] = result[c]
<1>1. Append(result[b].keep, Granule(b)) \in Seq(Granules)
  BY DEF TypeOK, Result
<1>2. [result[b] EXCEPT !.keep = Append(@, Granule(b)), !.next = @ + 1] \in Result
  BY <1>1 DEF TypeOK, Result
<1>3. result' = [result EXCEPT ![b] = [result[b] EXCEPT !.keep = Append(@, Granule(b)),
                                                        !.next = @ + 1]]
  BY DEF TypeOK, Result
<1> QED BY <1>2, <1>3 DEF TypeOK

\* The steps by which a batch ends with an error.
Raises(b) == \E e \in Errors : Raise(b, e)

\* The error paths of ensure_table and ingest_batch.
Failure(b) == \/ CreationRaises(b) \/ RejectRows(b) \/ NothingKept(b) \/ Exhausted(b)
              \/ RebaseFails(b) \/ Fault(b)

\* Each of them is such a step, and only a lost answer leaves anything on main.
LEMMA Raising ==
    ASSUME NEW b \in Batches, Failure(b)
    PROVE  Raises(b) /\ (AnswerLost(b) \/ commits' = commits)
BY DEF Failure, Fault, CreationRaises, RejectRows, NothingKept, Exhausted, StorageFault, AnswerLost,
       RebaseFails, Raises, Errors

\* The state a batch is in once it has raised.
LEMMA RaiseType ==
    ASSUME TypeOK, NEW b \in Batches, Raises(b)
    PROVE  /\ pc' \in [Batches -> Phases] /\ tx' \in [Batches -> Tx]
           /\ result' \in [Batches -> Result]
           /\ pc'[b] = "raised"
           /\ tx'[b] = [tx[b] EXCEPT !.staged = NothingStaged]
           /\ \A f \in {"next", "keep", "skipped"} : result'[b][f] = result[b][f]
           /\ \A c \in Batches \ {b} :
                 pc'[c] = pc[c] /\ tx'[c] = tx[c] /\ result'[c] = result[c]
           /\ given' = given
<1>1. NothingStaged \in [Granules -> 0..Parts]
  BY OpenedType
<1>2. PICK e \in Errors : Raise(b, e)
  BY DEF Raises
<1> QED BY <1>1, <1>2, ZenonT(40) DEF Raise, TypeOK, Phases, Tx, Result

\* The snapshot a batch publishes.
LEMMA PublishedType ==
    ASSUME TypeOK, NEW b \in Batches, Bases(b)
    PROVE  /\ OwnRows(b) \in SUBSET Row /\ MergedNodes(b) \in [Granules -> Node]
           /\ [table |-> TRUE, rows |-> tx[b].rows \cup OwnRows(b),
               nodes |-> MergedNodes(b), seen |-> tx[b].seen] \in Commit
<1>1. OwnRows(b) \in SUBSET Row
  BY DEF OwnRows, Row, TypeOK, Result
<1>2. MergedNodes(b) \in [Granules -> Node]
  <2>1. commits[tx[b].base].nodes \in [Granules -> Node]
    <3>1. commits[tx[b].base] \in Commit
      BY DEF TypeOK, Bases
    <3> QED BY <3>1 DEF Commit
  <2>2. tx[b].staged \in [Granules -> 0..Parts]
    BY DEF TypeOK, Tx
  <2> QED BY <2>1, <2>2 DEF MergedNodes, Node
<1> QED BY <1>1, <1>2 DEF TypeOK, Tx, Commit

\* main after a commit landed on it.
LEMMA LandingType ==
    ASSUME TypeOK, NEW b \in Batches, Bases(b), CreationLands(b) \/ BatchLands(b)
    PROVE  commits' \in Seq(Commit) /\ commits' # << >>
<1>1. CASE CreationLands(b)
  <2>1. [commits[Tip] EXCEPT !.table = TRUE, !.seen = tx[b].seen] \in Commit
    BY OpenedType DEF TypeOK, Commit, Tx
  <2> QED BY <1>1, <2>1 DEF CreationLands, TypeOK
<1>2. CASE BatchLands(b)
  BY <1>2, PublishedType, SMTT(30) DEF BatchLands, TypeOK
<1> QED BY <1>1, <1>2

\* What a step of batch b leaves alone.
Others(b) ==
    /\ given' = given
    /\ faults'.cleanup = 0 => faults.cleanup = 0
    /\ \A c \in Batches \ {b} : pc'[c] = pc[c] /\ tx'[c] = tx[c] /\ result'[c] = result[c]

\* Every step of a batch keeps the shape of the state and leaves the others alone.
LEMMA StepType ==
    ASSUME IInv, NEW b \in Batches, Step(b)
    PROVE  TypeOK' /\ Others(b)
<1> USE DEF Others
<1>0. TypeOK /\ Bases(b) /\ Accounted(b) /\ Retrying(b)
  BY DEF IInv, BatchInv
<1> USE <1>0
<1>1. CASE TableThere(b)
  BY <1>1 DEF TableThere, TypeOK, Phases
<1>2. CASE TableAbsent(b)
  BY <1>2 DEF TableAbsent, TypeOK, Phases
<1>3. CASE OpenCreation(b)
  BY <1>3, OpenedType DEF OpenCreation, TypeOK, Phases
<1>4. CASE CreateTable(b)
  BY <1>4, LandingType DEF CreateTable, TypeOK, Phases
<1>5. CASE CreationRaises(b)
  BY <1>5, Raising, RaiseType DEF Failure, CreationRaises, TypeOK
<1>6. CASE RejectRows(b)
  BY <1>6, Raising, RaiseType DEF Failure, RejectRows, TypeOK
<1>7. CASE OpenBatch(b)
  BY <1>7, OpenedType DEF OpenBatch, TypeOK, Phases
<1>8. CASE SkipGranule(b)
  BY <1>8, GranuleType, SkipType DEF SkipGranule, TypeOK
<1>9. CASE WriteGranule(b)
  <2>1. Granule(b) \in Granules
    BY <1>9, GranuleType DEF WriteGranule, Writing
  <2>2. Parts \in 0..Parts
    BY PartAssumption
  <2> QED BY <1>9, <2>1, <2>2, StagingType, KeepType DEF WriteGranule, TypeOK
<1>10. CASE WriterRaises(b)
  <2>1. Granule(b) \in Granules
    BY <1>10, GranuleType DEF WriterRaises, Writing
  <2>2. 0 \in 0..Parts
    BY PartAssumption
  <2>3. tx' = [tx EXCEPT ![b].staged[Granule(b)] = 0]
    BY <1>10 DEF WriterRaises, CleanedUp
  <2> QED BY <1>10, <2>1, <2>2, <2>3, StagingType, SkipType DEF WriterRaises, TypeOK
<1>11. CASE CleanupFails(b)
  <2>1. Granule(b) \in Granules
    BY <1>11, GranuleType DEF CleanupFails, Writing
  <2>2. PICK n \in 1..Parts : tx' = [tx EXCEPT ![b].staged[Granule(b)] = n]
    BY <1>11 DEF CleanupFails
  <2>3. n \in 0..Parts
    BY PartAssumption
  <2>4. /\ faults' \in [cleanup : 0..MaxFaults, storage : 0..MaxFaults]
        /\ faults'.cleanup # 0
    BY <1>11, LimitAssumption DEF CleanupFails, FaultsLeft, TypeOK
  <2> QED BY <1>11, <2>1, <2>2, <2>3, <2>4, StagingType, SkipType DEF CleanupFails, TypeOK
<1>12. CASE NothingKept(b)
  BY <1>12, Raising, RaiseType DEF Failure, NothingKept, TypeOK
<1>13. CASE AppendRows(b)
  BY <1>13 DEF AppendRows, TypeOK, Phases
<1>14. CASE Publish(b)
  BY <1>14, LandingType DEF Publish, TypeOK, Phases
<1>15. CASE Conflict(b)
  BY <1>15 DEF Conflict, TypeOK, Phases
<1>16. CASE Exhausted(b)
  BY <1>16, Raising, RaiseType DEF Failure, Exhausted, TypeOK
<1>17. CASE Fault(b)
  <2>1. /\ faults' \in [cleanup : 0..MaxFaults, storage : 0..MaxFaults]
        /\ faults'.cleanup = faults.cleanup
    BY <1>17, LimitAssumption
       DEF Fault, StorageFault, AnswerLost, StorageFailed, FaultsLeft, TypeOK
  <2>2. commits' \in Seq(Commit) /\ commits' # << >>
    BY <1>17, LandingType DEF Fault, StorageFault, AnswerLost, TypeOK
  <2> QED BY <1>17, <2>1, <2>2, Raising, RaiseType DEF Failure, TypeOK
<1>18. CASE Adopt(b)
  <2>1. TipRows(b) \in SUBSET Row
    BY OpenedType DEF TipRows, Commit
  <2> QED BY <1>18, <2>1, OpenedType DEF Adopt, TypeOK, Phases, Tx
<1>19. CASE Rebase(b)
  <2>1. tx[b].attempt + 1 \in 0..MaxRetries
    BY <1>19, LimitAssumption DEF Rebase, Retrying, TypeOK, Tx
  <2> QED BY <1>19, <2>1, OpenedType DEF Rebase, TypeOK, Phases, Tx
<1>20. CASE RebaseFails(b)
  BY <1>20, Raising, RaiseType DEF Failure, RebaseFails, TypeOK
<1> QED BY <1>1, <1>2, <1>3, <1>4, <1>5, <1>6, <1>7, <1>8, <1>9, <1>10, <1>11, <1>12,
           <1>13, <1>14, <1>15, <1>16, <1>17, <1>18, <1>19, <1>20 DEF Step, EnsureTable, IngestBatch, Fault

(***************************************************************************)
(* The store: a step publishes at most one snapshot, at the tip.           *)
(***************************************************************************)

\* What main is after one more snapshot.
LEMMA Appending ==
    ASSUME TypeOK, NEW s \in Commit, commits' = Append(commits, s)
    PROVE  /\ DOMAIN commits = 1..Tip /\ DOMAIN commits' = 1..(Tip + 1) /\ Tip \in Nat \ {0}
           /\ Tip' = Tip + 1
           /\ \A c \in 1..Tip : commits'[c] = commits[c] /\ commits[c] \in Commit
           /\ commits'[Tip + 1] = s
BY DEF TypeOK, Tip

\* What a snapshot must be for the store to stay as it should: it has all the
\* nodes of the tip, its rows have their arrays and differ in their granules, and
\* if its author's table version was the tip's, it has the tip's rows and brings
\* no array without a row.
Extends(s) ==
    LET old == commits[Tip] IN
    /\ s.table
    /\ \A g \in Granules : old.nodes[g].parts > 0 => s.nodes[g] = old.nodes[g]
    /\ \A r \in s.rows : s.nodes[r.granule] = [parts |-> Parts, by |-> r.by]
    /\ \A q, r \in s.rows : q.granule = r.granule => q = r
    /\ s.seen = Tip =>
          /\ old.rows \subseteq s.rows
          /\ faults'.cleanup = 0 =>
                \A g \in Granules : s.nodes[g].parts > 0 =>
                    old.nodes[g].parts > 0 \/ \E r \in s.rows : r.granule = g

\* Such a snapshot keeps the store's invariants.
LEMMA ExtendsKeepsStore ==
    ASSUME TypeOK, StoreInv, NEW s \in Commit, Extends(s), commits' = Append(commits, s),
           faults'.cleanup = 0 => faults.cleanup = 0
    PROVE  StoreInv'
<1>0. /\ DOMAIN commits = 1..Tip /\ DOMAIN commits' = 1..(Tip + 1) /\ Tip \in Nat \ {0}
      /\ Tip' = Tip + 1 /\ Len(commits') = Tip + 1 /\ Len(commits) = Tip
      /\ \A c \in 1..Tip : commits'[c] = commits[c] /\ commits[c] \in Commit
      /\ commits'[Tip + 1] = s
  BY Appending DEF Tip
<1>1. NodesStay'
  <2> SUFFICES ASSUME NEW c \in 1..(Tip + 1), NEW d \in 1..(Tip + 1), c <= d,
                      NEW g \in Granules, commits'[c].nodes[g].parts > 0
               PROVE  commits'[d].nodes[g] = commits'[c].nodes[g]
    BY <1>0 DEF NodesStay
  <2>1. CASE d \in 1..Tip
    BY <1>0, <2>1 DEF NodesStay, StoreInv
  <2>2. CASE c = Tip + 1
    BY <1>0, <2>2
  <2>3. CASE c \in 1..Tip /\ d = Tip + 1
    <3>1. commits[Tip].nodes[g] = commits[c].nodes[g]
      BY <1>0, <2>3 DEF NodesStay, StoreInv
    <3> QED BY <1>0, <2>3, <3>1 DEF Extends
  <2> QED BY <1>0, <2>1, <2>2, <2>3
<1>2. RowsHaveArrays'
  BY <1>0 DEF RowsHaveArrays, StoreInv, Extends
<1>3. RowsDiffer'
  BY <1>0 DEF RowsDiffer, StoreInv, Extends
<1>4. ArraysHaveRow'
  <2> SUFFICES ASSUME NEW c \in 1..(Tip + 1), faults'.cleanup = 0,
                      \A d \in 1..c : commits'[d].seen = d - 1,
                      NEW g \in Granules, commits'[c].nodes[g].parts > 0
               PROVE  \E r \in commits'[c].rows : r.granule = g
    BY <1>0 DEF ArraysHaveRow, RowsOf, Undisturbed
  <2>1. ASSUME NEW e \in 1..Tip, e <= c, commits[e].nodes[g].parts > 0
        PROVE  \E r \in commits[e].rows : r.granule = g
    <3>1. \A d \in 1..e : commits[d].seen = d - 1
      BY <1>0, <2>1
    <3> QED BY <1>0, <2>1, <3>1 DEF ArraysHaveRow, StoreInv, RowsOf, Undisturbed
  <2>2. CASE c \in 1..Tip
    BY <1>0, <2>1, <2>2
  <2>3. CASE c = Tip + 1
    <3>1. s.seen = Tip
      BY <1>0, <2>3
    <3> QED BY <1>0, <2>1, <2>3, <3>1 DEF Extends
  <2> QED BY <1>0, <2>2, <2>3
<1>5. PublishedStays'
  <2> SUFFICES ASSUME NEW c \in 2..(Tip + 1)
               PROVE  /\ commits'[c-1].table => commits'[c].table
                      /\ commits'[c].seen = c - 1 => commits'[c-1].rows \subseteq commits'[c].rows
                      /\ \A g \in Granules : commits'[c-1].nodes[g].parts > 0 =>
                            commits'[c].nodes[g] = commits'[c-1].nodes[g]
    BY <1>0 DEF PublishedStays, Undisturbed
  <2>1. CASE c \in 2..Tip
    BY <1>0, <2>1 DEF PublishedStays, StoreInv, Undisturbed
  <2>2. CASE c = Tip + 1
    BY <1>0, <2>2 DEF Extends
  <2> QED BY <1>0, <2>1, <2>2
<1> QED BY <1>1, <1>2, <1>3, <1>4, <1>5 DEF StoreInv

\* The snapshots the two publishing steps append.
CreateSnap(b)  == [commits[Tip] EXCEPT !.table = TRUE, !.seen = tx[b].seen]
PublishSnap(b) == [table |-> TRUE, rows |-> tx[b].rows \cup OwnRows(b),
                   nodes |-> MergedNodes(b), seen |-> tx[b].seen]

\* The table's creation leaves rows and nodes as they are.
LEMMA CreateExtends ==
    ASSUME IInv, NEW b \in Batches, CreationLands(b)
    PROVE  Extends(CreateSnap(b)) /\ CreateSnap(b) \in Commit
<1>1. TypeOK /\ StoreInv /\ Tip \in DOMAIN commits /\ commits[Tip] \in Commit
  BY OpenedType DEF IInv
<1>2. CreateSnap(b) \in Commit
  BY <1>1 DEF CreateSnap, Commit, TypeOK, Tx
<1>3. /\ CreateSnap(b).table /\ CreateSnap(b).rows = commits[Tip].rows
      /\ CreateSnap(b).nodes = commits[Tip].nodes
  BY <1>1 DEF CreateSnap, Commit
<1>4. /\ \A r \in commits[Tip].rows :
            commits[Tip].nodes[r.granule] = [parts |-> Parts, by |-> r.by]
      /\ \A q, r \in commits[Tip].rows : q.granule = r.granule => q = r
  BY <1>1 DEF StoreInv, RowsHaveArrays, RowsDiffer
<1> QED BY <1>2, <1>3, <1>4 DEF Extends

\* The rows a batch adopted have their arrays in its base, and its own rows are of
\* other granules.
LEMMA AdoptedRows ==
    ASSUME IInv, NEW b \in Batches, pc[b] = "commit"
    PROVE  /\ \A r \in tx[b].rows :
                 commits[tx[b].base].nodes[r.granule] = [parts |-> Parts, by |-> r.by]
           /\ \A r \in tx[b].rows : r \in Row /\ tx[b].staged[r.granule] = 0
           /\ \A r \in OwnRows(b) : r.granule \in Granules /\ tx[b].staged[r.granule] = Parts
           /\ \A q, r \in OwnRows(b) : q.granule = r.granule => q = r
<1>0. /\ TypeOK /\ Bases(b) /\ Apart(b) /\ Kept(b) /\ NodesStay /\ RowsHaveArrays
      /\ Parts \in Nat \ {0}
  BY PartAssumption DEF IInv, BatchInv, StoreInv
<1>1. /\ tx[b].seen \in DOMAIN commits /\ tx[b].base \in DOMAIN commits
      /\ tx[b].rows = commits[tx[b].seen].rows /\ tx[b].seen <= tx[b].base
      /\ tx[b].rows \subseteq Row
  BY <1>0 DEF Bases, TypeOK, Tx
<1>2. ASSUME NEW r \in tx[b].rows
      PROVE  commits[tx[b].base].nodes[r.granule] = [parts |-> Parts, by |-> r.by]
  <2>1. commits[tx[b].seen].nodes[r.granule] = [parts |-> Parts, by |-> r.by]
    BY <1>0, <1>1 DEF RowsHaveArrays
  <2>2. r.granule \in Granules
    BY <1>1 DEF Row
  <2> QED BY <1>0, <1>1, <2>1, <2>2 DEF NodesStay
<1>3. ASSUME NEW r \in tx[b].rows
      PROVE  r \in Row /\ tx[b].staged[r.granule] = 0
  <2>1. r \in Row /\ r.granule \in Granules
    BY <1>1 DEF Row
  <2>2. tx[b].staged[r.granule] \in 0..Parts
    BY <1>0, <2>1 DEF TypeOK, Tx
  <2>3. ~(tx[b].staged[r.granule] > 0)
    <3>0. commits[tx[b].base].nodes[r.granule] = [parts |-> Parts, by |-> r.by]
      BY <1>2
    <3>1. commits[tx[b].base].nodes[r.granule].parts = Parts
      BY <3>0
    <3> QED BY <1>0, <2>1, <3>1 DEF Apart
  <2> QED BY <1>0, <2>1, <2>2, <2>3
<1>4. result[b].keep \in Seq(Granules)
  BY <1>0 DEF TypeOK, Result
<1>5. \A r \in OwnRows(b) : r.granule \in Granules /\ tx[b].staged[r.granule] = Parts
  BY <1>0, <1>4 DEF OwnRows, Kept
<1>6. \A q, r \in OwnRows(b) : q.granule = r.granule => q = r
  BY <1>0, <1>4 DEF OwnRows, Kept
<1> QED BY <1>2, <1>3, <1>5, <1>6

\* What a batch publishes extends the tip.
LEMMA PublishExtends ==
    ASSUME IInv, NEW b \in Batches, BatchLands(b), faults'.cleanup = 0 => faults.cleanup = 0
    PROVE  Extends(PublishSnap(b)) /\ PublishSnap(b) \in Commit
<1>0. /\ TypeOK /\ StoreInv /\ Bases(b) /\ Apart(b) /\ Kept(b) /\ Parts \in Nat \ {0}
      /\ pc[b] = "commit" /\ tx[b].base = Tip
      /\ faults'.cleanup = 0 => faults.cleanup = 0
  BY PartAssumption DEF IInv, BatchInv, BatchLands
<1>1. PublishSnap(b) \in Commit /\ tx[b].staged \in [Granules -> 0..Parts]
  BY <1>0, PublishedType DEF PublishSnap, TypeOK, Tx
<1>2. /\ PublishSnap(b).table = TRUE /\ PublishSnap(b).rows = tx[b].rows \cup OwnRows(b)
      /\ PublishSnap(b).nodes = MergedNodes(b) /\ PublishSnap(b).seen = tx[b].seen
  BY DEF PublishSnap
<1>3. \A g \in Granules : commits[Tip].nodes[g].parts > 0 =>
          MergedNodes(b)[g] = commits[Tip].nodes[g]
  BY <1>0, <1>1 DEF Apart, MergedNodes
<1>4. \A r \in tx[b].rows \cup OwnRows(b) :
          MergedNodes(b)[r.granule] = [parts |-> Parts, by |-> r.by]
  <2>1. ASSUME NEW r \in tx[b].rows
        PROVE  MergedNodes(b)[r.granule] = [parts |-> Parts, by |-> r.by]
    <3>1. r.granule \in Granules
      BY <1>0, AdoptedRows DEF Row
    <3> QED BY <1>0, <3>1, AdoptedRows DEF MergedNodes
  <2>2. ASSUME NEW r \in OwnRows(b)
        PROVE  MergedNodes(b)[r.granule] = [parts |-> Parts, by |-> r.by]
    <3>1. r.by = b
      BY DEF OwnRows
    <3> QED BY <1>0, <3>1, AdoptedRows DEF MergedNodes
  <2> QED BY <2>1, <2>2
<1>5. \A q, r \in tx[b].rows \cup OwnRows(b) : q.granule = r.granule => q = r
  <2>1. \A q, r \in tx[b].rows : q.granule = r.granule => q = r
    BY <1>0 DEF Bases, StoreInv, RowsDiffer
  <2>2. \A q \in tx[b].rows, r \in OwnRows(b) : q.granule # r.granule
    BY <1>0, AdoptedRows
  <2>3. \A q, r \in OwnRows(b) : q.granule = r.granule => q = r
    BY <1>0, AdoptedRows
  <2> QED BY <2>1, <2>2, <2>3
<1>6. ASSUME tx[b].seen = Tip
      PROVE  /\ commits[Tip].rows \subseteq tx[b].rows \cup OwnRows(b)
             /\ faults'.cleanup = 0 =>
                   \A g \in Granules : MergedNodes(b)[g].parts > 0 =>
                       \/ commits[Tip].nodes[g].parts > 0
                       \/ \E r \in tx[b].rows \cup OwnRows(b) : r.granule = g
  <2>1. tx[b].rows = commits[Tip].rows
    BY <1>0, <1>6 DEF Bases
  <2>2. ASSUME faults'.cleanup = 0, NEW g \in Granules, MergedNodes(b)[g].parts > 0,
               ~(commits[Tip].nodes[g].parts > 0)
        PROVE  \E r \in OwnRows(b) : r.granule = g
    <3>1. tx[b].staged[g] > 0
      BY <1>0, <2>2 DEF MergedNodes
    <3>2. PICK i \in DOMAIN result[b].keep : g = result[b].keep[i]
      BY <1>0, <2>2, <3>1 DEF Kept, Committed
    <3>3. [granule |-> result[b].keep[i], by |-> b, n |-> i] \in OwnRows(b)
      BY <3>2 DEF OwnRows
    <3> QED BY <3>2, <3>3
  <2> QED BY <2>1, <2>2
<1> QED BY <1>1, <1>2, <1>3, <1>4, <1>5, <1>6 DEF Extends

\* A step of a batch leaves main alone or appends a snapshot that extends it.
LEMMA StepKeepsStore ==
    ASSUME IInv, NEW b \in Batches, Step(b)
    PROVE  /\ StoreInv'
           /\ \/ commits' = commits
              \/ CreationLands(b) /\ commits' = Append(commits, CreateSnap(b))
              \/ BatchLands(b) /\ commits' = Append(commits, PublishSnap(b))
<1>0. TypeOK /\ StoreInv /\ (faults'.cleanup = 0 => faults.cleanup = 0)
  BY StepType DEF IInv, Others
<1>1. CASE CreationLands(b)
  <2>1. commits' = Append(commits, CreateSnap(b))
    BY <1>1 DEF CreationLands, CreateSnap
  <2> QED BY <1>0, <1>1, <2>1, CreateExtends, ExtendsKeepsStore
<1>2. CASE BatchLands(b)
  <2>1. commits' = Append(commits, PublishSnap(b))
    BY <1>2 DEF BatchLands, PublishSnap
  <2> QED BY <1>0, <1>2, <2>1, PublishExtends, ExtendsKeepsStore
<1>3. CASE commits' = commits
  BY <1>0, <1>3
     DEF StoreInv, NodesStay, RowsHaveArrays, RowsDiffer, ArraysHaveRow, PublishedStays, RowsOf,
         Undisturbed
<1>4. commits' = commits \/ CreationLands(b) \/ BatchLands(b)
  BY DEF Step, EnsureTable, IngestBatch, Fault, TableThere, TableAbsent, OpenCreation, CreateTable,
         CreationRaises, RejectRows, OpenBatch, SkipGranule, WriteGranule, WriterRaises,
         CleanupFails, NothingKept, AppendRows, Publish, Conflict, Exhausted, StorageFault,
         AnswerLost, Adopt, Rebase, RebaseFails
<1> QED BY <1>1, <1>2, <1>3, <1>4

\* Snapshots are immutable, and a new one comes after all others.
LEMMA Growing ==
    ASSUME IInv, NEW b \in Batches, Step(b)
    PROVE  /\ DOMAIN commits = 1..Tip /\ Tip \in Nat \ {0}
           /\ \A c \in DOMAIN commits : c \in DOMAIN commits' /\ commits'[c] = commits[c]
           /\ commits' # commits =>
                 /\ DOMAIN commits' = 1..(Tip + 1)
                 /\ commits'[Tip + 1] \in {CreateSnap(b), PublishSnap(b)}
                 /\ pc[b] \notin {"returned", "raised"}
                 /\ commits'[Tip + 1] # CreateSnap(b) => BatchLands(b)
<1>1. TypeOK
  BY DEF IInv
<1>2. CASE commits' = commits
  BY <1>1, <1>2 DEF TypeOK, Tip
<1>3. CASE CreationLands(b) /\ commits' = Append(commits, CreateSnap(b))
  <2>1. pc[b] \notin {"returned", "raised"}
    BY <1>3 DEF CreationLands
  <2> QED BY <1>1, <1>3, <2>1, CreateExtends, Appending
<1>4. CASE BatchLands(b) /\ commits' = Append(commits, PublishSnap(b))
  <2>1. pc[b] \notin {"returned", "raised"}
    BY <1>4 DEF BatchLands
  <2>2. faults'.cleanup = 0 => faults.cleanup = 0
    BY StepType DEF Others
  <2> QED BY <1>1, <1>4, <2>1, <2>2, PublishExtends, Appending
<1> QED BY <1>2, <1>3, <1>4, StepKeepsStore

\* A snapshot of batch b holds nothing of a batch c that is not in main.
LEMMA SnapOfOthers ==
    ASSUME IInv, NEW b \in Batches, NEW c \in Batches \ {b}, Unseen(c),
           NEW s \in {CreateSnap(b), PublishSnap(b)}
    PROVE  /\ \A r \in s.rows : r.by # c
           /\ \A g \in Granules : s.nodes[g].by # c
<1>0. /\ TypeOK /\ Bases(b) /\ Tip \in DOMAIN commits /\ commits[Tip] \in Commit
  BY OpenedType DEF IInv, BatchInv
<1>1. CASE s = CreateSnap(b)
  <2>1. s.rows = commits[Tip].rows /\ s.nodes = commits[Tip].nodes
    BY <1>0, <1>1 DEF CreateSnap, Commit
  <2> QED BY <1>0, <2>1 DEF Unseen, Holds
<1>2. CASE s = PublishSnap(b)
  <2>1. s.rows = commits[tx[b].seen].rows \cup OwnRows(b) /\ s.nodes = MergedNodes(b)
    BY <1>0, <1>2 DEF PublishSnap, Bases
  <2>2. \A r \in OwnRows(b) : r.by = b
    BY DEF OwnRows
  <2>3. \A g \in Granules : MergedNodes(b)[g].by = b
                            \/ MergedNodes(b)[g].by = commits[tx[b].base].nodes[g].by
    BY DEF MergedNodes
  <2> QED BY <1>0, <2>1, <2>2, <2>3 DEF Bases, Unseen, Holds
<1> QED BY <1>1, <1>2

\* A step of batch b keeps what holds of another batch c.
LEMMA OthersKeep ==
    ASSUME IInv, NEW b \in Batches, Step(b),
           NEW c \in Batches \ {b}
    PROVE  BatchInv(c)'
<1>0. /\ BatchInv(c) /\ TypeOK /\ pc'[c] = pc[c] /\ tx'[c] = tx[c] /\ result'[c] = result[c]
      /\ given' = given /\ (faults'.cleanup = 0 => faults.cleanup = 0)
  BY StepType DEF IInv, Others
<1>1. /\ DOMAIN commits = 1..Tip /\ Tip \in Nat \ {0}
      /\ \A d \in DOMAIN commits : d \in DOMAIN commits' /\ commits'[d] = commits[d]
  BY Growing
<1>2. Bases(c)' /\ Apart(c)'
  BY <1>0, <1>1 DEF BatchInv, Bases, Apart
<1>3. Kept(c)' /\ Accounted(c)' /\ Retrying(c)'
  <2>1. Committed(c)' = Committed(c)
    BY <1>0 DEF Committed
  <2>2. Kept(c)'
    BY <1>0, <2>1 DEF BatchInv, Kept
  <2>3. Accounted(c)'
    BY <1>0, <2>1 DEF BatchInv, Accounted, NothingStaged
  <2>4. Retrying(c)'
    BY <1>0 DEF BatchInv, Retrying
  <2> QED BY <2>2, <2>3, <2>4
<1>4. Unseen(c) => Unseen(c)'
  <2> SUFFICES ASSUME Unseen(c), NEW d \in DOMAIN commits'
               PROVE  /\ \A r \in commits'[d].rows : r.by # c
                      /\ \A g \in Granules : commits'[d].nodes[g].by # c
    BY DEF Unseen, Holds
  <2>1. CASE d \in DOMAIN commits
    BY <1>1, <2>1 DEF Unseen, Holds
  <2>2. CASE d \notin DOMAIN commits
    <3>1. d = Tip + 1 /\ commits'[d] \in {CreateSnap(b), PublishSnap(b)}
      BY <1>1, <2>2, Growing
    <3> QED BY <3>1, SnapOfOthers
  <2> QED BY <2>1, <2>2
<1>5. Landed(c) => Landed(c)'
  <2> SUFFICES ASSUME Landed(c)
               PROVE  Landed(c)'
    OBVIOUS
  <2> DEFINE own == tx[c].base + 1
  <2>1. /\ tx'[c].base = tx[c].base /\ own \in DOMAIN commits /\ own \in DOMAIN commits'
        /\ commits'[own] = commits[own] /\ Committed(c)' = Committed(c)
    BY <1>0, <1>1 DEF Landed, Committed
  <2>2. \A d \in 1..tx[c].base : commits'[d] = commits[d]
    BY <1>0, <1>1 DEF BatchInv, Bases
  <2> QED BY <2>1, <2>2 DEF Landed, WholeGranules, RowsOf, Holds
<1> QED BY <1>0, <1>2, <1>3, <1>4, <1>5 DEF BatchInv, Outcome

(***************************************************************************)
(* The batch whose step it is.                                             *)
(***************************************************************************)

\* A batch whose commit does not land leaves nothing of its own in the store.
LEMMA StaysUnseen ==
    ASSUME IInv, NEW b \in Batches, Step(b), ~BatchLands(b), pc[b] \notin {"returned", "raised"}
    PROVE  Unseen(b)'
<1>0. Unseen(b) /\ TypeOK /\ Tip \in DOMAIN commits /\ commits[Tip] \in Commit
  BY OpenedType DEF IInv, BatchInv, Outcome
<1> SUFFICES ASSUME NEW d \in DOMAIN commits'
             PROVE  /\ \A r \in commits'[d].rows : r.by # b
                    /\ \A g \in Granules : commits'[d].nodes[g].by # b
  BY DEF Unseen, Holds
<1>1. CASE d \in DOMAIN commits
  BY <1>0, <1>1, Growing DEF Unseen, Holds
<1>2. CASE d \notin DOMAIN commits
  <2>1. commits' # commits
    BY <1>2
  <2>2. d = Tip + 1 /\ commits'[d] = CreateSnap(b)
    BY <1>2, <2>1, Growing
  <2>3. CreateSnap(b).rows = commits[Tip].rows /\ CreateSnap(b).nodes = commits[Tip].nodes
    BY <1>0 DEF CreateSnap, Commit
  <2> QED BY <1>0, <2>2, <2>3 DEF Unseen, Holds
<1> QED BY <1>1, <1>2

\* One whose commit does has all it kept in the store.
LEMMA LandsWhole ==
    ASSUME IInv, NEW b \in Batches, Step(b), BatchLands(b), tx'[b].base = tx[b].base,
           result'[b].keep = result[b].keep
    PROVE  Landed(b)'
<1>0. /\ TypeOK /\ BatchInv(b) /\ Unseen(b) /\ pc[b] = "commit" /\ tx[b].base = Tip
      /\ Parts \in Nat \ {0} /\ Tip \in Nat \ {0}
      /\ faults'.cleanup = 0 => faults.cleanup = 0
  BY PartAssumption, OpenedType, StepType DEF IInv, BatchInv, Outcome, BatchLands, Others
<1>1. commits' = Append(commits, PublishSnap(b)) /\ PublishSnap(b) \in Commit
  BY <1>0, PublishExtends DEF BatchLands, PublishSnap
<1>2. /\ DOMAIN commits = 1..Tip /\ DOMAIN commits' = 1..(Tip + 1)
      /\ \A c \in 1..Tip : commits'[c] = commits[c]
      /\ commits'[Tip + 1] = PublishSnap(b)
  BY <1>0, <1>1, Appending
<1>3. /\ commits'[Tip + 1].rows = tx[b].rows \cup OwnRows(b)
      /\ commits'[Tip + 1].nodes = MergedNodes(b)
      /\ \A r \in tx[b].rows : r.by # b
  BY <1>0, <1>2 DEF PublishSnap, BatchInv, Bases, Unseen, Holds
<1>4. \A r \in OwnRows(b) : r.by = b /\ r.granule \in Committed(b)
  BY DEF OwnRows, Committed
<1>5. \A g \in Committed(b) : \E r \in OwnRows(b) : r.granule = g /\ r.by = b
  <2> SUFFICES ASSUME NEW i \in DOMAIN result[b].keep
               PROVE  \E r \in OwnRows(b) : r.granule = result[b].keep[i] /\ r.by = b
    BY DEF Committed
  <2>1. [granule |-> result[b].keep[i], by |-> b, n |-> i] \in OwnRows(b)
    BY DEF OwnRows
  <2> QED BY <2>1
<1>6. \A g \in Committed(b) : g \in Granules /\ tx[b].staged[g] = Parts
  BY <1>0 DEF BatchInv, Kept, Committed, TypeOK, Result
<1>7. \A g \in Committed(b) : MergedNodes(b)[g] = [parts |-> Parts, by |-> b]
  BY <1>0, <1>6 DEF MergedNodes
<1>8. {g \in Granules : /\ commits'[Tip + 1].nodes[g] = [parts |-> Parts, by |-> b]
                        /\ \E r \in commits'[Tip + 1].rows : r.granule = g /\ r.by = b}
          = Committed(b)
  BY <1>3, <1>4, <1>5, <1>6, <1>7
<1>9. Committed(b)' = Committed(b)
  BY DEF Committed
<1>10. \A c \in 1..Tip :
           /\ \A r \in commits'[c].rows : r.by # b
           /\ \A g \in Granules : commits'[c].nodes[g].by # b
  BY <1>0, <1>2 DEF Unseen, Holds
<1>11. WholeGranules(tx[b].base + 1, b)' = Committed(b)
  <2>1. PICK n : n = Tip + 1
    OBVIOUS
  <2>2. tx'[b].base + 1 = n
    BY <1>0, <2>1
  <2>3. WholeGranules(n, b)' = Committed(b)
    BY <1>8, <2>1 DEF WholeGranules, RowsOf
  <2> QED BY <2>2, <2>3 DEF WholeGranules, RowsOf
<1> QED BY <1>0, <1>2, <1>9, <1>10, <1>11 DEF Landed, Holds

\* A batch that only moves on to its next phase.
LEMMA PhaseKeeps ==
    ASSUME IInv, NEW b \in Batches, 
           TableThere(b) \/ TableAbsent(b) \/ CreateTable(b) \/ AppendRows(b) \/ Conflict(b)
    PROVE  BatchInv(b)'
<1>0. /\ BatchInv(b) /\ TypeOK /\ TypeOK' /\ given' = given /\ faults' = faults
      /\ tx' = tx /\ result' = result
  BY StepType
     DEF Step, EnsureTable, IngestBatch, Fault, IInv, Others, TableThere, TableAbsent, CreateTable, AppendRows,
         Conflict, CreationLands
<1>1. /\ pc[b] \in {"ensure", "creating", "loop", "commit"}
      /\ pc'[b] \in {"absent", "start", "commit", "recover"}
      /\ pc'[b] \in Early => pc[b] \in Early
      /\ pc'[b] \in Late => result[b].next > Len(given[b])
      /\ pc'[b] \in {"recover", "rebase"} => tx[b].attempt < MaxRetries
  BY <1>0 DEF TypeOK, TableThere, TableAbsent, CreateTable, CreationLands, AppendRows, Conflict,
              LoopDone, Early, Late, BatchInv, Accounted
<1>2. /\ DOMAIN commits = 1..Tip
      /\ \A d \in DOMAIN commits : d \in DOMAIN commits' /\ commits'[d] = commits[d]
  BY Growing DEF Step, EnsureTable, IngestBatch, Fault
<1>3. Bases(b)' /\ Apart(b)'
  BY <1>0, <1>1, <1>2 DEF BatchInv, Bases, Apart
<1>4. Kept(b)' /\ Accounted(b)' /\ Retrying(b)'
  <2>1. Committed(b)' = Committed(b)
    BY <1>0 DEF Committed
  <2>2. Kept(b)'
    BY <1>0, <1>1, <2>1 DEF BatchInv, Kept
  <2>3. Accounted(b)'
    BY <1>0, <1>1, <2>1 DEF BatchInv, Accounted, NothingStaged
  <2>4. Retrying(b)'
    BY <1>0, <1>1 DEF Retrying
  <2> QED BY <2>2, <2>3, <2>4
<1>5. Outcome(b)'
  <2>1. ~BatchLands(b)
    BY DEF BatchLands, TableThere, TableAbsent, CreateTable, CreationLands, AppendRows, LoopDone,
           Conflict
  <2>2. Unseen(b)'
    BY <1>1, <2>1, StaysUnseen DEF Step, EnsureTable, IngestBatch
  <2> QED BY <1>1, <2>2 DEF Outcome
<1> QED BY <1>3, <1>4, <1>5 DEF BatchInv

\* A batch that opens a transaction.
LEMMA OpenKeeps ==
    ASSUME IInv, NEW b \in Batches, OpenCreation(b) \/ OpenBatch(b)
    PROVE  BatchInv(b)'
<1>0. /\ BatchInv(b) /\ TypeOK /\ given' = given /\ faults' = faults /\ commits' = commits
      /\ tx'[b] = Opened /\ result' = result
      /\ pc[b] \in Early /\ pc'[b] \in {"creating", "loop"}
  BY DEF IInv, OpenCreation, OpenBatch, TypeOK, Early
<1>1. /\ Tip \in DOMAIN commits /\ result[b].keep = << >>
      /\ tx'[b].base = Tip /\ tx'[b].seen = Tip /\ tx'[b].rows = commits[Tip].rows
      /\ tx'[b].staged = NothingStaged
  BY <1>0, OpenedType DEF Opened, BatchInv, Accounted
<1>2. \A g \in Granules : tx'[b].staged[g] = 0
  BY <1>1 DEF NothingStaged
<1>3. Bases(b)' /\ Apart(b)'
  BY <1>0, <1>1, <1>2, OpenedType DEF Bases, Apart
<1>4. Kept(b)' /\ Accounted(b)' /\ Retrying(b)'
  <2>1. Committed(b)' = Committed(b)
    BY <1>0 DEF Committed
  <2>2. Kept(b)'
    BY <1>0, <1>1, <1>2 DEF Kept
  <2>3. Accounted(b)'
    BY <1>0, <1>1, <2>1 DEF BatchInv, Accounted, NothingStaged, Late
  <2>4. Retrying(b)'
    BY <1>0 DEF Retrying
  <2> QED BY <2>2, <2>3, <2>4
<1>5. Outcome(b)'
  BY <1>0 DEF BatchInv, Outcome, Unseen, Holds, Early
<1> QED BY <1>3, <1>4, <1>5 DEF BatchInv

\* A batch that raises: unless its commit landed, with nothing in the store.
LEMMA RaiseKeeps ==
    ASSUME IInv, NEW b \in Batches, Failure(b), Step(b)
    PROVE  BatchInv(b)'
<1>0. /\ BatchInv(b) /\ TypeOK /\ pc'[b] = "raised"
      /\ tx'[b] = [tx[b] EXCEPT !.staged = NothingStaged]
      /\ result'[b].next = result[b].next /\ result'[b].keep = result[b].keep
      /\ result'[b].skipped = result[b].skipped
      /\ given' = given
  BY Raising, RaiseType DEF IInv
<1>1. /\ tx'[b].base = tx[b].base /\ tx'[b].seen = tx[b].seen /\ tx'[b].rows = tx[b].rows
      /\ tx'[b].staged = NothingStaged
  BY <1>0 DEF TypeOK, Tx
<1>2. \A g \in Granules : tx'[b].staged[g] = 0
  BY <1>1 DEF NothingStaged
<1>3. Bases(b)' /\ Apart(b)'
  BY <1>0, <1>1, <1>2, Growing DEF BatchInv, Bases, Apart
<1>4. Kept(b)' /\ Accounted(b)' /\ Retrying(b)'
  <2>1. Committed(b)' = Committed(b)
    BY <1>0 DEF Committed
  <2>2. Kept(b)'
    BY <1>0, <1>2 DEF BatchInv, Kept
  <2>3. Accounted(b)'
    BY <1>0, <2>1 DEF BatchInv, Accounted, Late, Early
  <2>4. Retrying(b)'
    BY <1>0 DEF Retrying
  <2> QED BY <2>2, <2>3, <2>4
<1>5. pc[b] \notin {"returned", "raised"}
  BY DEF Failure, Fault, CreationRaises, RejectRows, NothingKept, LoopDone, Exhausted, RebaseFails,
         StorageFault, AnswerLost, CreationLands, BatchLands
<1>6. Outcome(b)'
  <2>1. CASE BatchLands(b)
    <3>1. Landed(b)'
      BY <1>0, <1>1, <2>1, LandsWhole
    <3>2. result'[b].err = "storage"
      <4>1. Fault(b)
        BY <2>1, <1>0, Growing
           DEF BatchLands, Failure, CreationRaises, RejectRows, NothingKept, LoopDone, Exhausted,
               RebaseFails
      <4> QED BY <1>0, <4>1 DEF Fault, StorageFault, AnswerLost, Raise, TypeOK, Result
    <3> QED BY <1>0, <3>1, <3>2 DEF Outcome
  <2>2. CASE ~BatchLands(b)
    <3>1. Unseen(b)'
      BY <1>5, <2>2, StaysUnseen
    <3> QED BY <1>0, <3>1 DEF Outcome
  <2> QED BY <2>1, <2>2
<1> QED BY <1>3, <1>4, <1>6 DEF BatchInv

\* What holds of the granule about to be written.
LEMMA BeforeWriting ==
    ASSUME IInv, NEW b \in Batches, Writing(b)
    PROVE  /\ Granule(b) \in Granules /\ Granule(b) \notin Committed(b)
           /\ result[b].next \in DOMAIN given[b] /\ Granule(b) = given[b][result[b].next]
           /\ tx[b].staged[Granule(b)] = 0
           /\ commits[tx[b].base].nodes[Granule(b)].parts = 0
<1>0. TypeOK /\ Bases(b) /\ Accounted(b) /\ InLoop(b)
  BY DEF IInv, BatchInv, Writing
<1>1. Granule(b) \in Granules /\ result[b].next \in DOMAIN given[b]
  BY <1>0, GranuleType
<1>2. tx[b].staged \in [Granules -> 0..Parts] /\ Parts \in Nat
  BY <1>0, PartAssumption DEF TypeOK, Tx
<1>3. commits[tx[b].base] \in Commit
  BY <1>0 DEF TypeOK, Bases
<1>4. commits[tx[b].base].nodes[Granule(b)].parts \in 0..Parts
  BY <1>1, <1>3 DEF Commit, Node
<1>5. tx[b].staged[Granule(b)] \in 0..Parts
  BY <1>1, <1>2
<1>6. /\ Granule(b) \notin Committed(b) /\ ~(tx[b].staged[Granule(b)] > 0)
      /\ ~(commits[tx[b].base].nodes[Granule(b)].parts > 0)
  BY DEF Writing, GranuleExists
<1>7. Granule(b) = given[b][result[b].next]
  BY DEF Granule
<1>8. tx[b].staged[Granule(b)] = 0
  BY <1>2, <1>5, <1>6
<1>9. commits[tx[b].base].nodes[Granule(b)].parts = 0
  BY <1>2, <1>4, <1>6
<1> QED BY <1>1, <1>6, <1>7, <1>8, <1>9, Zenon

\* A step of the loop accounts for the row it passes.
LEMMA LoopAccounts ==
    ASSUME IInv, NEW b \in Batches, InLoop(b), pc' = pc, given' = given,
           result'[b].next = result[b].next + 1,
           Committed(b)' \cup result'[b].skipped
               = Committed(b) \cup result[b].skipped \cup {Granule(b)}
    PROVE  Accounted(b)'
<1>0. /\ TypeOK /\ Accounted(b) /\ pc[b] = "loop"
      /\ result[b].next \in DOMAIN given[b] /\ result[b].next \in Nat
  BY GranuleType DEF IInv, BatchInv, InLoop, TypeOK, Result
<1>1. given[b] \in Seq(Granules)
  BY <1>0, InputAssumption DEF TypeOK
<1>2. ASSUME NEW i \in DOMAIN given[b], i < result[b].next + 1
      PROVE  given[b][i] \in Committed(b)' \cup result'[b].skipped
  <2>1. i < result[b].next \/ given[b][i] = Granule(b)
    BY <1>0, <1>1, <1>2 DEF Granule
  <2> QED BY <1>0, <2>1 DEF Accounted
<1>3. Committed(b)' \cup result'[b].skipped \subseteq {given[b][i] : i \in DOMAIN given[b]}
  BY <1>0 DEF Accounted, Granule
<1> QED BY <1>0, <1>2, <1>3 DEF Accounted, Early, Late

\* A loop step that stages n parts of the granule and skips it.
LEMMA SkipKeeps ==
    ASSUME IInv, NEW b \in Batches, Writing(b), NEW n \in 0..Parts,
           tx' = [tx EXCEPT ![b].staged[Granule(b)] = n], Skip(b), n > 0 => faults'.cleanup # 0,
           UNCHANGED <<commits, pc, given>>, faults'.cleanup = 0 => faults.cleanup = 0
    PROVE  BatchInv(b)'
<1>0. /\ BatchInv(b) /\ TypeOK /\ pc[b] = "loop" /\ InLoop(b) /\ Granule(b) \in Granules
  BY BeforeWriting DEF IInv, Writing, InLoop
<1>1. /\ tx'[b] = [tx[b] EXCEPT !.staged = [tx[b].staged EXCEPT ![Granule(b)] = n]]
      /\ result'[b] = [result[b] EXCEPT !.skipped = @ \cup {Granule(b)}, !.next = @ + 1]
  BY <1>0, StagingType, SkipType
<1>2. /\ tx'[b].base = tx[b].base /\ tx'[b].seen = tx[b].seen /\ tx'[b].rows = tx[b].rows
      /\ tx'[b].attempt = tx[b].attempt
      /\ tx'[b].staged = [tx[b].staged EXCEPT ![Granule(b)] = n]
      /\ result'[b].keep = result[b].keep /\ result'[b].next = result[b].next + 1
      /\ result'[b].skipped = result[b].skipped \cup {Granule(b)}
  BY <1>0, <1>1 DEF TypeOK, Tx, Result
<1>3. /\ tx'[b].staged[Granule(b)] = n
      /\ \A g \in Granules \ {Granule(b)} : tx'[b].staged[g] = tx[b].staged[g]
  BY <1>0, <1>2 DEF TypeOK, Tx
<1>4. Bases(b)'
  BY <1>0, <1>2 DEF BatchInv, Bases
<1>5. Apart(b)'
  BY <1>0, <1>2, <1>3, BeforeWriting DEF BatchInv, Apart
<1>6. Committed(b)' = Committed(b)
  BY <1>2 DEF Committed
<1>7. Kept(b)'
  <2>1. \A i \in DOMAIN result[b].keep : result[b].keep[i] \in Granules \ {Granule(b)}
    BY <1>0, BeforeWriting DEF Committed, TypeOK, Result
  <2>2. n > 0 \/ n = 0
    BY PartAssumption
  <2>3. faults'.cleanup = 0 => \A g \in Granules : tx'[b].staged[g] > 0 => g \in Committed(b)'
    BY <1>0, <1>3, <1>6, <2>2 DEF BatchInv, Kept
  <2> QED BY <1>0, <1>2, <1>3, <2>1, <2>3 DEF BatchInv, Kept
<1>8. Accounted(b)'
  BY <1>0, <1>2, <1>6, LoopAccounts
<1>9. Outcome(b)' /\ Retrying(b)'
  BY <1>0 DEF BatchInv, Outcome, Unseen, Holds, Retrying
<1> QED BY <1>4, <1>5, <1>7, <1>8, <1>9 DEF BatchInv

\* A granule that is kept.
LEMMA WriteKeeps ==
    ASSUME IInv, NEW b \in Batches, WriteGranule(b)
    PROVE  BatchInv(b)'
<1>0. /\ BatchInv(b) /\ TypeOK /\ pc[b] = "loop" /\ InLoop(b) /\ Granule(b) \in Granules
      /\ UNCHANGED <<commits, faults, pc, given>> /\ Parts \in 0..Parts /\ Parts > 0
      /\ Writing(b)
  BY BeforeWriting, PartAssumption DEF IInv, WriteGranule, Writing, InLoop
<1>1. /\ tx'[b] = [tx[b] EXCEPT !.staged = [tx[b].staged EXCEPT ![Granule(b)] = Parts]]
      /\ result'[b] = [result[b] EXCEPT !.keep = Append(@, Granule(b)), !.next = @ + 1]
  BY <1>0, StagingType, KeepType DEF WriteGranule
<1>2. /\ tx'[b].base = tx[b].base /\ tx'[b].seen = tx[b].seen /\ tx'[b].rows = tx[b].rows
      /\ tx'[b].attempt = tx[b].attempt
      /\ tx'[b].staged = [tx[b].staged EXCEPT ![Granule(b)] = Parts]
      /\ result'[b].keep = Append(result[b].keep, Granule(b))
      /\ result'[b].next = result[b].next + 1
      /\ result'[b].skipped = result[b].skipped
  BY <1>0, <1>1 DEF TypeOK, Tx, Result
<1>3. /\ tx'[b].staged[Granule(b)] = Parts
      /\ \A g \in Granules \ {Granule(b)} : tx'[b].staged[g] = tx[b].staged[g]
  BY <1>0, <1>2 DEF TypeOK, Tx
<1>4. Bases(b)'
  BY <1>0, <1>2 DEF BatchInv, Bases
<1>5. Apart(b)'
  BY <1>0, <1>2, <1>3, BeforeWriting DEF BatchInv, Apart
<1>6. PICK k \in Nat : 
          /\ DOMAIN result[b].keep = 1..k /\ DOMAIN result'[b].keep = 1..(k + 1)
          /\ \A i \in 1..k : result'[b].keep[i] = result[b].keep[i]
          /\ result'[b].keep[k + 1] = Granule(b)
          /\ \A i \in 1..k : result[b].keep[i] \in Granules \ {Granule(b)}
  <2>1. result[b].keep \in Seq(Granules)
    BY <1>0 DEF TypeOK, Result
  <2>2. \A i \in DOMAIN result[b].keep : result[b].keep[i] \in Granules \ {Granule(b)}
    BY <1>0, <2>1, BeforeWriting DEF Committed
  <2> WITNESS Len(result[b].keep) \in Nat
  <2> QED BY <1>0, <1>2, <2>1, <2>2
<1>7. Committed(b)' = Committed(b) \cup {Granule(b)}
  BY <1>6 DEF Committed
<1>8. Kept(b)'
  <2>1. \A i, j \in 1..(k + 1) : result'[b].keep[i] = result'[b].keep[j] => i = j
    <3>1. \A i, j \in 1..k : result[b].keep[i] = result[b].keep[j] => i = j
      BY <1>0, <1>6 DEF BatchInv, Kept
    <3>2. \A i \in 1..(k + 1) : i \in 1..k \/ i = k + 1
      OBVIOUS
    <3> QED BY <1>6, <3>1, <3>2
  <2>2. \A i \in 1..(k + 1) : tx'[b].staged[result'[b].keep[i]] = Parts
    BY <1>0, <1>3, <1>6, SMTT(30) DEF BatchInv, Kept
  <2>3. faults'.cleanup = 0 => \A g \in Granules : tx'[b].staged[g] > 0 => g \in Committed(b)'
    BY <1>0, <1>3, <1>7 DEF BatchInv, Kept
  <2> QED BY <1>6, <2>1, <2>2, <2>3 DEF Kept
<1>9. Accounted(b)'
  BY <1>0, <1>2, <1>7, LoopAccounts
<1>10. Outcome(b)' /\ Retrying(b)'
  BY <1>0 DEF BatchInv, Outcome, Unseen, Holds, Retrying
<1> QED BY <1>4, <1>5, <1>8, <1>9, <1>10 DEF BatchInv

\* The other steps of the loop.
LEMMA LoopKeeps ==
    ASSUME IInv, NEW b \in Batches, SkipGranule(b) \/ WriterRaises(b) \/ CleanupFails(b)
    PROVE  BatchInv(b)'
<1>0. TypeOK /\ BatchInv(b)
  BY DEF IInv
<1>1. CASE SkipGranule(b)
  <2>0. /\ InLoop(b) /\ Skip(b) /\ UNCHANGED <<commits, faults, pc, given, tx>> /\ pc[b] = "loop"
    BY <1>1 DEF SkipGranule, InLoop
  <2>1. Granule(b) \in Granules
    BY <1>0, <2>0, GranuleType DEF BatchInv
  <2>2. /\ result'[b].keep = result[b].keep /\ result'[b].next = result[b].next + 1
        /\ result'[b].skipped = result[b].skipped \cup {Granule(b)}
    <3>1. result'[b] = [result[b] EXCEPT !.skipped = @ \cup {Granule(b)}, !.next = @ + 1]
      BY <1>0, <2>0, <2>1, SkipType
    <3> QED BY <1>0, <3>1 DEF TypeOK, Result
  <2>3. Committed(b)' = Committed(b)
    BY <2>2 DEF Committed
  <2>4. Accounted(b)'
    BY <2>0, <2>2, <2>3, LoopAccounts
  <2>5. Kept(b)'
    BY <1>0, <2>0, <2>2, <2>3 DEF BatchInv, Kept
  <2>6. Bases(b)' /\ Apart(b)' /\ Outcome(b)' /\ Retrying(b)'
    BY <1>0, <2>0 DEF BatchInv, Bases, Apart, Outcome, Unseen, Holds, Retrying
  <2> QED BY <2>4, <2>5, <2>6 DEF BatchInv
<1>2. CASE WriterRaises(b)
  <2>1. 0 \in 0..Parts
    BY PartAssumption
  <2>2. tx' = [tx EXCEPT ![b].staged[Granule(b)] = 0]
    BY <1>2 DEF WriterRaises, CleanedUp
  <2>3. Writing(b) /\ Skip(b) /\ UNCHANGED <<commits, pc, given>> /\ faults' = faults
    BY <1>2 DEF WriterRaises
  <2>4. 0 > 0 => faults'.cleanup # 0
    OBVIOUS
  <2> QED BY <2>1, <2>2, <2>3, <2>4, SkipKeeps
<1>3. CASE CleanupFails(b)
  <2>1. PICK n \in 1..Parts : tx' = [tx EXCEPT ![b].staged[Granule(b)] = n]
    BY <1>3 DEF CleanupFails
  <2>2. n \in 0..Parts /\ faults'.cleanup # 0
    BY <1>0, <1>3, PartAssumption, LimitAssumption DEF CleanupFails, TypeOK
  <2> QED BY <1>3, <2>1, <2>2, SkipKeeps DEF CleanupFails
<1> QED BY <1>1, <1>2, <1>3

\* A batch that publishes.
LEMMA PublishKeeps ==
    ASSUME IInv, NEW b \in Batches, Publish(b)
    PROVE  BatchInv(b)'
<1>0. /\ BatchInv(b) /\ TypeOK /\ pc[b] = "commit" /\ pc'[b] = "returned" /\ tx[b].base = Tip
      /\ UNCHANGED <<faults, given, tx, result>>
      /\ commits' = Append(commits, PublishSnap(b)) /\ PublishSnap(b) \in Commit
  BY PublishExtends DEF IInv, Publish, BatchLands, PublishSnap, TypeOK
<1>1. /\ DOMAIN commits = 1..Tip /\ DOMAIN commits' = 1..(Tip + 1) /\ Tip \in Nat \ {0}
      /\ \A c \in 1..Tip : commits'[c] = commits[c]
      /\ commits'[Tip + 1] = PublishSnap(b)
  BY <1>0, Appending
<1>2. Bases(b)' /\ Apart(b)'
  BY <1>0, <1>1 DEF BatchInv, Bases, Apart
<1>3. Committed(b)' = Committed(b)
  BY <1>0 DEF Committed
<1>4. Kept(b)'
  BY <1>0, <1>3 DEF BatchInv, Kept
<1>5. Accounted(b)' /\ Retrying(b)'
  BY <1>0, <1>3 DEF BatchInv, Accounted, Retrying, Early, Late
<1>6. Outcome(b)'
  <2>1. Landed(b)'
    BY <1>0, LandsWhole DEF Publish, Step, IngestBatch
  <2> QED BY <1>0, <2>1 DEF Outcome
<1> QED BY <1>2, <1>4, <1>5, <1>6 DEF BatchInv

\* The two halves of _recover: the table version is adopted, then the base moves
\* to the tip, where no node is at a path staged here.
LEMMA RecoverKeeps ==
    ASSUME IInv, NEW b \in Batches, Adopt(b) \/ Rebase(b)
    PROVE  BatchInv(b)'
<1>0. /\ BatchInv(b) /\ TypeOK /\ UNCHANGED <<commits, faults, given, result>>
      /\ Tip \in DOMAIN commits /\ commits[Tip] \in Commit /\ Tip = Len(commits)
      /\ pc'[b] \in {"rebase", "commit"} /\ pc[b] \in {"recover", "rebase"}
  BY OpenedType DEF IInv, Adopt, Rebase, TypeOK, Tip
<1>1. tx'[b].staged = tx[b].staged
  BY <1>0 DEF Adopt, Rebase, TypeOK, Tx
<1>2. Bases(b)' /\ Apart(b)' /\ Retrying(b)'
  <2>1. CASE Adopt(b)
    <3>1. /\ tx'[b].base = tx[b].base /\ tx'[b].rows = commits[Tip].rows /\ tx'[b].seen = Tip
          /\ pc'[b] = "rebase" /\ pc[b] = "recover" /\ tx'[b].attempt = tx[b].attempt
      BY <1>0, <2>1 DEF Adopt, TipRows, TypeOK, Tx
    <3> QED BY <1>0, <1>1, <3>1 DEF BatchInv, Bases, Apart, Retrying
  <2>2. CASE Rebase(b)
    <3>1. /\ tx'[b].base = Tip /\ tx'[b].rows = tx[b].rows /\ tx'[b].seen = tx[b].seen
          /\ pc'[b] = "commit"
      BY <1>0, <2>2 DEF Rebase, TypeOK, Tx
    <3>2. tx[b].seen <= Tip
      BY <1>0 DEF BatchInv, Bases, TypeOK
    <3>3. \A g \in Granules : tx[b].staged[g] > 0 => commits[Tip].nodes[g].parts = 0
      <4>1. \A g \in Granules : commits[Tip].nodes[g].parts \in Nat
        BY <1>0, PartAssumption DEF Commit, Node
      <4> QED BY <2>2, <4>1 DEF Rebase, NodeClash
    <3> QED BY <1>0, <1>1, <3>1, <3>2, <3>3 DEF BatchInv, Bases, Apart, Retrying
  <2> QED BY <2>1, <2>2
<1>3. Committed(b)' = Committed(b)
  BY <1>0 DEF Committed
<1>4. Kept(b)'
  BY <1>0, <1>1, <1>3 DEF BatchInv, Kept
<1>5. Accounted(b)'
  BY <1>0, <1>3 DEF BatchInv, Accounted, Early, Late
<1>6. Outcome(b)'
  BY <1>0 DEF BatchInv, Outcome, Unseen, Holds
<1> QED BY <1>2, <1>4, <1>5, <1>6 DEF BatchInv

(***************************************************************************)
(* The invariant holds.                                                    *)
(***************************************************************************)

\* It holds of a repository just created.
LEMMA InitInv == Init => IInv
<1> SUFFICES ASSUME Init
             PROVE  IInv
  OBVIOUS
<1>0. /\ Len(commits) = 1 /\ DOMAIN commits = {1} /\ Tip = 1
      /\ commits[1] = [table |-> FALSE, rows |-> {}, nodes |-> [g \in Granules |-> NoNode],
                       seen |-> 0]
      /\ commits[1].rows = {} /\ commits[1].nodes = [g \in Granules |-> NoNode]
  BY DEF Init, Tip
<1>1. NoNode \in Node
  BY PartAssumption DEF NoNode, Node
<1>2. TypeOK
  <2>1. commits \in Seq(Commit) /\ commits # << >>
    <3>1. commits[1] \in Commit
      BY <1>0, <1>1 DEF Commit
    <3> QED BY <3>1, <1>0 DEF Init
  <2>2. Opened \in Tx
    BY <1>0, PartAssumption, LimitAssumption DEF Opened, Tx, NothingStaged
  <2>3. faults \in [cleanup : 0..MaxFaults, storage : 0..MaxFaults]
    BY LimitAssumption DEF Init
  <2>4. [next |-> 1, keep |-> << >>, skipped |-> {}, err |-> "none"] \in Result
    BY DEF Result, Errors
  <2> QED BY <2>1, <2>2, <2>3, <2>4 DEF Init, TypeOK, Phases
<1>3. StoreInv
  BY <1>0 DEF StoreInv, NodesStay, RowsHaveArrays, RowsDiffer, ArraysHaveRow, PublishedStays,
              NoNode
<1>4. ASSUME NEW b \in Batches
      PROVE  BatchInv(b)
  <2>1. /\ tx[b] = Opened /\ pc[b] = "ensure" /\ result[b].next = 1 /\ result[b].keep = << >>
        /\ result[b].skipped = {}
    BY DEF Init
  <2>2. /\ tx[b].base = 1 /\ tx[b].seen = 1 /\ tx[b].rows = {} /\ tx[b].staged = NothingStaged
    BY <1>0, <2>1 DEF Opened
  <2>3. Bases(b) /\ Retrying(b)
    BY <1>0, <2>1, <2>2 DEF Bases, Retrying
  <2>4. Apart(b) /\ Kept(b)
    BY <2>1, <2>2 DEF Apart, Kept, NothingStaged
  <2>5. Committed(b) = {}
    BY <2>1 DEF Committed
  <2>6. Accounted(b)
    <3>1. given[b] \in Seq(Granules)
      BY InputAssumption DEF Init
    <3> QED BY <2>1, <2>2, <2>5, <3>1 DEF Accounted, Late
  <2>7. Outcome(b)
    BY <1>0, <2>1, BatchAssumption DEF Outcome, Unseen, Holds, NoNode
  <2> QED BY <2>3, <2>4, <2>6, <2>7 DEF BatchInv
<1> QED BY <1>2, <1>3, <1>4 DEF IInv

\* Every step keeps it, the actor's part and that of every other batch.
LEMMA StepInv == IInv /\ [Next]_vars => IInv'
<1> SUFFICES ASSUME IInv, [Next]_vars
             PROVE  IInv'
  OBVIOUS
<1>1. ASSUME NEW b \in Batches, Step(b)
      PROVE  IInv'
  <2>1. BatchInv(b)'
    BY <1>1, PhaseKeeps, OpenKeeps, RaiseKeeps, WriteKeeps, LoopKeeps, PublishKeeps, RecoverKeeps
       DEF Failure, Step, EnsureTable, IngestBatch, Fault
  <2>2. \A c \in Batches \ {b} : BatchInv(c)'
    BY <1>1, OthersKeep
  <2> QED BY <1>1, <2>1, <2>2, StepType, StepKeepsStore DEF IInv
<1>2. CASE UNCHANGED vars
  <2>1. TypeOK' /\ StoreInv'
    <3>1. TypeOK'
      BY <1>2 DEF vars, IInv, TypeOK
    <3>2. NodesStay' /\ RowsDiffer'
      BY <1>2 DEF vars, IInv, StoreInv, NodesStay, RowsDiffer
    <3>3. RowsHaveArrays'
      BY <1>2 DEF vars, IInv, StoreInv, RowsHaveArrays
    <3>4. ArraysHaveRow'
      BY <1>2 DEF vars, IInv, StoreInv, ArraysHaveRow, RowsOf, Undisturbed
    <3>5. PublishedStays'
      BY <1>2 DEF vars, IInv, StoreInv, PublishedStays, Undisturbed
    <3> QED BY <3>1, <3>2, <3>3, <3>4, <3>5 DEF StoreInv
  <2>2. ASSUME NEW b \in Batches
        PROVE  BatchInv(b)'
    <3>1. BatchInv(b)
      BY DEF IInv
    <3>2. Committed(b)' = Committed(b)
      BY <1>2 DEF vars, Committed
    <3>3. Bases(b)' /\ Apart(b)' /\ Outcome(b)' /\ Retrying(b)'
      BY <1>2, <3>1, <3>2
         DEF vars, BatchInv, Bases, Apart, Outcome, Unseen, Landed, WholeGranules, RowsOf, Holds,
             Retrying
    <3>4. Kept(b)' /\ Accounted(b)'
      BY <1>2, <3>1, <3>2 DEF vars, BatchInv, Kept, Accounted, NothingStaged
    <3> QED BY <3>3, <3>4 DEF BatchInv
  <2> QED BY <2>1, <2>2 DEF IInv
<1> QED BY <1>1, <1>2 DEF Next, Terminated

\* So it always holds.
LEMMA Invariance == Spec => []IInv
BY InitInv, StepInv, PTL DEF Spec

\* Every variable of the batch ingest keeps its shape; in particular a batch
\* never indexes past its rows, and tries its commit MaxRetries times again at
\* most.
THEOREM TypeCorrect == Spec => []TypeOK
<1>1. IInv => TypeOK
  BY DEF IInv
<1> QED BY <1>1, Invariance, PTL

\* The store's promise, one way: a row ingest_batch published has all its arrays
\* in the same snapshot, written by the batch the row is from, however many
\* batches hold the granule and wherever their commits fall in _recover.
THEOREM RowsKeepTheirArrays == Spec => []RowsHaveArrays
<1>1. IInv => RowsHaveArrays
  BY DEF IInv, StoreInv
<1> QED BY <1>1, Invariance, PTL

\* The other way: no array is published without its row, as long as every cleanup
\* worked and no commit so far fell into the window of _recover.
THEOREM ArraysKeepTheirRow == Spec => []ArraysHaveRow
<1>1. IInv => ArraysHaveRow
  BY DEF IInv, StoreInv
<1> QED BY <1>1, Invariance, PTL

\* Ingest only appends to what is in the store, snapshot after snapshot.
THEOREM IngestAppends == Spec => []PublishedStays
<1>1. IInv => PublishedStays
  BY DEF IInv, StoreInv
<1> QED BY <1>1, Invariance, PTL

\* A granule has one row at most, in every snapshot: the id is looked up in the
\* session, and of two batches that both took it for new the later one's rebase
\* fails.
THEOREM GranulesHaveOneRow == Spec => []OneRowPerGranule
<1>1. IInv => OneRowPerGranule
  <2> SUFFICES ASSUME IInv, NEW c \in DOMAIN commits, NEW g \in Granules
               PROVE  Cardinality(RowsOf(c, g)) <= 1
    BY DEF OneRowPerGranule
  <2>1. \A q, r \in RowsOf(c, g) : q = r
    BY DEF IInv, StoreInv, RowsDiffer, RowsOf
  <2>2. RowsOf(c, g) = {} \/ \E r : RowsOf(c, g) = {r}
    BY <2>1
  <2>3. CASE RowsOf(c, g) = {}
    <3>1. Cardinality(RowsOf(c, g)) = 0
      BY <2>3, FS_EmptySet, Zenon
    <3> QED BY <3>1
  <2>4. ASSUME NEW r, RowsOf(c, g) = {r}
        PROVE  Cardinality(RowsOf(c, g)) <= 1
    <3>1. Cardinality(RowsOf(c, g)) = 1
      BY <2>4, FS_Singleton, Zenon
    <3> QED BY <3>1
  <2> QED BY <2>2, <2>3, <2>4
<1> QED BY <1>1, Invariance, PTL

\* ingest_batch is all or nothing, and a BatchResult tells the truth: a batch
\* that returned published a row and the whole arrays of just the granules it
\* reports as committed and reports all the others as skipped; one that raised
\* left nothing in the store, or, where the storage failed it, all it had kept.
THEOREM ResultsAreTrue == Spec => []ResultIsTrue
<1>1. IInv => ResultIsTrue
  <2> SUFFICES ASSUME IInv, NEW b \in Batches
               PROVE  /\ pc[b] = "returned" =>
                            /\ Landed(b)
                            /\ {given[b][i] : i \in DOMAIN given[b]}
                                  = Committed(b) \cup result[b].skipped
                      /\ pc[b] = "raised" =>
                            Unseen(b) \/ (Landed(b) /\ result[b].err = "storage")
    BY DEF ResultIsTrue, Landed, Unseen
  <2>0. TypeOK /\ BatchInv(b)
    BY DEF IInv
  <2>1. ASSUME pc[b] = "returned"
        PROVE  {given[b][i] : i \in DOMAIN given[b]} = Committed(b) \cup result[b].skipped
    <3>1. given[b] \in Seq(Granules) /\ result[b].next \in Nat
      BY <2>0, InputAssumption DEF TypeOK, Result
    <3>2. \A i \in DOMAIN given[b] : i < result[b].next
      BY <2>0, <2>1, <3>1 DEF BatchInv, Accounted, Late
    <3> QED BY <2>0, <3>2 DEF BatchInv, Accounted
  <2> QED BY <2>0, <2>1 DEF BatchInv, Outcome
<1> QED BY <1>1, Invariance, PTL
=============================================================================
