---------------------------- MODULE MCHybridStore ----------------------------
(* The operations given to TLC for the constants of HybridStore. *)
EXTENDS HybridStoreRefinement, SequencesExt

CONSTANTS tbl1, tbl2

Create(t)          == [kind |-> "create",    table |-> t, data |-> {}, pred |-> {}]
Add(t, ks)         == [kind |-> "append",    table |-> t, data |-> ks, pred |-> {}]
RemoveKeys(t, ks)  == [kind |-> "delete",    table |-> t, data |-> {}, pred |-> ks]
Replace(t, ks, ps) == [kind |-> "overwrite", table |-> t, data |-> ks, pred |-> ps]

\* Operations of every kind but creation, on a table with rows, and direct work
\* with a key of its own, which no intent hides.
MixedOps     == {Add(tbl1, {1}), RemoveKeys(tbl1, {1}), Replace(tbl1, {1}, {1})}
OtherOps     == {Add(tbl1, {2})}

\* On a repository just created: two tables that writers race to create.
FreshOps     == {Create(tbl1), Create(tbl2), Add(tbl1, {1}), RemoveKeys(tbl1, {1})}

\* For three writers: operations that conflict, and ones that do not.
ContendedOps == {Add(tbl1, {1}), Add(tbl1, {2}), RemoveKeys(tbl1, {1})}

\* For deletes of one file.
DeleteOps    == {Add(tbl1, {1}), RemoveKeys(tbl1, {1})}

\* For the race between the two reads of the branch tip.
RaceOps      == {Add(tbl1, {1})}

NoOps        == {}

WriterSymmetry == Permutations(Writers)

\* What one operation of w makes of a table's rows.
Effect(w, op, rows) ==
    CASE op.kind = "create"    -> rows
      [] op.kind = "append"    -> rows \cup DataRows(w, op)
      [] op.kind = "delete"    -> rows \ Matching(rows, op.pred)
      [] op.kind = "overwrite" -> (rows \ Matching(rows, op.pred)) \cup DataRows(w, op)

\* InOrder is what running the operations one after the other gives.
ASSUME InOrderAssumption ==
    \A w \in Writers : \A ops \in SeqOf(Ops \cup DirectOps, 2) : \A t \in Tables :
        \A rows \in SUBSET {r \in Row : r.by \in {w, Seeder}} :
            InOrder(w, ops, t, rows) =
                FoldLeft(LAMBDA acc, op : IF op.table = t THEN Effect(w, op, acc) ELSE acc,
                         rows, ops)
=============================================================================
