----------------------------- MODULE IcebergTable -----------------------------
(***************************************************************************)
(* An Iceberg table version as icechest sees one: the contents of a        *)
(* metadata.json, the PyIceberg operations the intents call on it, and the *)
(* snapshot-isolation check of validation.py.                              *)
(*                                                                         *)
(* A table version has the live data files and the chain of Iceberg        *)
(* snapshots that led to it, each with the data files it added.  A data    *)
(* file is the set of rows it holds and the append that first wrote those  *)
(* rows; a copy-on-write rewrite keeps the origin and shrinks the rows, so *)
(* files with equal rows from two appends stay distinct.  A row predicate  *)
(* is the set of key values it selects.  PyIceberg may record one delete   *)
(* or overwrite as two or three snapshots; only the last one is ever seen  *)
(* outside the operation, so here an operation records one.                *)
(***************************************************************************)
EXTENDS Naturals, Sequences

CONSTANT Nil     \* Python's None, and the missing entry of a dict

(***************************************************************************)
(* Table versions.                                                         *)
(***************************************************************************)

\* The metadata of a table that was just created: no snapshot, no rows.
NewTable == [files |-> {}, snaps |-> << >>]

\* What a scan of the table version returns.
Rows(m) == UNION {f.rows : f \in m.files}

\* table.metadata.current_snapshot_id
CurrentSnapshotId(m) ==
    IF m.snaps = << >> THEN Nil ELSE m.snaps[Len(m.snaps)].id

\* The rows of rs that a predicate selects.
Matching(rs, pred) == {r \in rs : r.key \in pred}

\* The data files in which a predicate selects a row.
Touched(m, pred) == {f \in m.files : Matching(f.rows, pred) # {}}

\* The files a copy-on-write delete writes: what is left of each file it
\* touches.  A file with nothing left is dropped without a replacement.
Rewrites(m, pred) ==
    { g \in { [orig |-> f.orig, rows |-> f.rows \ Matching(f.rows, pred)] :
              f \in Touched(m, pred) } : g.rows # {} }

\* The table version after an operation recorded as snapshot id drops some
\* files and adds others.
WithSnapshot(m, id, dropped, added) ==
    [files |-> (m.files \ dropped) \cup added,
     snaps |-> Append(m.snaps, [id |-> id, added |-> added])]

\* Table.append
Appended(m, id, rs) == WithSnapshot(m, id, {}, {[orig |-> id, rows |-> rs]})

\* Table.delete, when the predicate selects a row
Deleted(m, id, pred) ==
    WithSnapshot(m, id, Touched(m, pred), Rewrites(m, pred))

\* Table.overwrite: the delete followed by the append
Overwritten(m, id, pred, rs) ==
    WithSnapshot(m, id, Touched(m, pred),
                 Rewrites(m, pred) \cup {[orig |-> id, rows |-> rs]})

(***************************************************************************)
(* validation.py: which commits of the window (base, tip] added rows that  *)
(* a predicate may select.                                                 *)
(***************************************************************************)

\* The inclusive metrics evaluator: a file is judged by the range of its key
\* column, so one that holds no selected row may still match.
MayMatch(f, pred) ==
    \E lo, hi \in f.rows : \E k \in pred : lo.key <= k /\ k <= hi.key

\* The position of a snapshot in the chain, 0 when it is not there.
PositionOf(m, id) ==
    IF \E i \in DOMAIN m.snaps : m.snaps[i].id = id
    THEN CHOOSE i \in DOMAIN m.snaps : m.snaps[i].id = id
    ELSE 0

\* A fault for the checks to catch: the walk looks at the tip's own additions and no further back.
MatchingAddsOfTipOnly(m, i, pred) ==
    { m.snaps[j].id : j \in { j \in DOMAIN m.snaps :
        j = Len(m.snaps) /\ \E f \in m.snaps[j].added : MayMatch(f, pred) } }

\* The snapshots of the walk from the tip back to position i, base included,
\* that added a file which may match.
MatchingAdds(m, i, pred) ==
    { m.snaps[j].id : j \in { j \in DOMAIN m.snaps :
        i <= j /\ \E f \in m.snaps[j].added : MayMatch(f, pred) } }

\* validation.conflicting_adds on a table loaded at the winner's version.  A
\* base the winner's history does not hold proves nothing: conflict.
ConflictingAdds(m, base, pred) ==
    LET tipId == CurrentSnapshotId(m)
        i     == PositionOf(m, base)
    IN  IF base = tipId THEN {}
        ELSE IF i = 0 THEN {tipId}
        ELSE MatchingAdds(m, i, pred) \ {base}
=============================================================================
