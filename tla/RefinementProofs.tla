--------------------------- MODULE RefinementProofs ---------------------------
(***************************************************************************)
(* Serializability of the commit protocol, for every number of writers,    *)
(* tables, operations, retries and calls of commit(): what is published is *)
(* what the transaction's operations, run alone and in order on the parent *)
(* commit's rows, give - as long as no commit lands between the two reads  *)
(* of the branch tip in _recover.  And, for one call of commit(): a        *)
(* transaction is refused as empty only if it is, and appends nothing      *)
(* twice.  Last, the protocol implements AtomicStore: a reader sees whole  *)
(* transactions taking effect one at a time, at the tip, and nothing else. *)
(***************************************************************************)
EXTENDS HybridStoreProofs, HybridStoreRefinement, SubsequenceProofs

(***************************************************************************)
(* The invariants.                                                         *)
(***************************************************************************)

\* The rows of a table as the transaction would publish it, and as the pointers
\* it adopted last have it.
Shown(w, t)   == RowsAt(CurrentPointers(catalog[w]), t)
Adopted(w, t) == RowsAt(catalog[w].pointers, t)

\* The intents before this one have been applied since commit() last started or
\* rebased.
Applied(w) == IF pc[w] = "apply" THEN loop[w].next ELSE 1

\* An intent has a say in whether a row is in a table.
Concerns(w, i, t, r) ==
    Gives(w, plan[w].intents[i], t, r) \/ Takes(plan[w].intents[i], t, r)

\* One of the first intents gave the row and none of them took it since.
Given(w, n, t, r) ==
    \E i \in DOMAIN plan[w].intents :
        /\ i < n /\ Gives(w, plan[w].intents[i], t, r)
        /\ \A j \in DOMAIN plan[w].intents : i < j /\ j < n => ~Takes(plan[w].intents[j], t, r)

\* A row the intents applied so far concern is there if they give it; a row no
\* intent concerns is as the direct work left it.  A row only later intents concern
\* may be as an earlier, failed call of commit() left it.
SettledAt(w, n) ==
    \A t \in Tables : \A r \in Row :
        /\ (\E i \in DOMAIN plan[w].intents : i < n /\ Concerns(w, i, t, r)) =>
              (r \in Shown(w, t) <=> Given(w, n, t, r))
        /\ (\A i \in DOMAIN plan[w].intents : ~Concerns(w, i, t, r)) =>
              (r \in Shown(w, t) <=> r \in InOrder(w, plan[w].direct, t, Adopted(w, t)))

Settled(w) == SettledAt(w, Applied(w))

\* Direct work stays staged: _assert_staged_is_covered lets no replay drop it.
Directs(w) ==
    plan[w].direct # << >> =>
        /\ pc[w] \notin {"idle", "rebase"}
        /\ \E op \in DirectOps :
              /\ plan[w].direct = <<op>> /\ catalog[w].staged[op.table] # Nil
              /\ pc[w] \in {"apply", "recover"} => op.table \in loop[w].unmanaged

\* The rows of a commit are those of its author's operations on its parent's rows.
SerialSnaps ==
    \A i \in DOMAIN snaps :
        i # 1 => \A t \in Tables :
            RowsAt(snaps[i].pointers, t) =
                Serially(snaps[i].by, t, RowsAt(snaps[snaps[i].parent].pointers, t))

WInv == IInv /\ LInv /\ \A w \in Writers : Settled(w) /\ Directs(w)
SInv == DInv /\ WInv /\ SerialSnaps

\* A transaction whose one call of commit() has not met a conflict stages on the
\* pointers it started from, and was refused as empty only if it was.
Starting(w) ==
    /\ pc[w] \in {"apply", "recover", "rebase"} => loop[w].calls >= 1
    /\ pc[w] = "failed" /\ w \notin Managed /\ loop[w].err \notin {"session branch", "answer lost"}
          => loop[w].calls >= 1
    /\ pc[w] = "apply" /\ loop[w].attempt = 0 => catalog[w].pointers = Start(w)
    /\ loop[w].err = "no changes" =>
          /\ pc[w] = "failed" /\ plan[w].chunks = {}
          /\ \A t \in Tables : Serially(w, t, RowsAt(Start(w), t)) = RowsAt(Start(w), t)
EInv == WInv /\ \A w \in Writers : Starting(w)

(***************************************************************************)
(* Running operations in order.                                            *)
(***************************************************************************)

\* No operation leaves the rows as they were, and one does what it does.
LEMMA InOrderOfFew ==
    ASSUME NEW w, NEW t, NEW rows, NEW r \in Row, NEW op \in Op
    PROVE  /\ r \in InOrder(w, << >>, t, rows) <=> r \in rows
           /\ r \in InOrder(w, <<op>>, t, rows) <=>
                  Gives(w, op, t, r) \/ (r \in rows /\ ~Takes(op, t, r))
<1>1. r \in InOrder(w, << >>, t, rows) <=> r \in rows
  BY DEF InOrder
<1>2. PICK one : one = <<op>>
  OBVIOUS
<1>3. DOMAIN one = {1} /\ one[1] = op
  BY <1>2
<1>4. r \in InOrder(w, one, t, rows) <=> Gives(w, op, t, r) \/ (r \in rows /\ ~Takes(op, t, r))
  BY <1>3 DEF InOrder
<1> QED BY <1>1, <1>2, <1>4

\* Running two batches is running one after the other.
LEMMA InOrderSplit ==
    ASSUME NEW w, NEW t, NEW rows, NEW r \in Row, NEW d \in Seq(Op), NEW s \in Seq(Op)
    PROVE  r \in InOrder(w, d \o s, t, rows) <=>
               \/ r \in InOrder(w, d, t, rows) /\ \A j \in DOMAIN s : ~Takes(s[j], t, r)
               \/ \E i \in DOMAIN s :
                     Gives(w, s[i], t, r) /\ \A j \in DOMAIN s : i < j => ~Takes(s[j], t, r)
<1>1. PICK ops : ops = d \o s
  OBVIOUS
<1>2. PICK k : k = Len(d)
  OBVIOUS
<1>3. PICK m : m = Len(s)
  OBVIOUS
<1>4. /\ k \in Nat /\ m \in Nat /\ DOMAIN d = 1..k /\ DOMAIN s = 1..m /\ DOMAIN ops = 1..(k + m)
      /\ \A i \in 1..k : ops[i] = d[i]
      /\ \A i \in 1..m : ops[k + i] = s[i]
  BY <1>1, <1>2, <1>3
<1>5. \A i \in 1..(k + m) : i \in 1..k \/ \E j \in 1..m : i = k + j
  <2> TAKE i \in 1..(k + m)
  <2>1. CASE i <= k
    BY <1>4, <2>1
  <2>2. CASE i > k
    <3>1. i - k \in 1..m /\ i = k + (i - k)
      BY <1>4, <2>2
    <3> QED BY <3>1
  <2> QED BY <1>4, <2>1, <2>2
<1>6. \A i \in 1..m : k + i \in 1..(k + m)
  BY <1>4
<1>a. ASSUME NEW i \in Int
      PROVE  (\A j \in DOMAIN ops : i < j => ~Takes(ops[j], t, r)) <=>
                 /\ \A j \in DOMAIN d : i < j => ~Takes(d[j], t, r)
                 /\ \A j \in DOMAIN s : i < k + j => ~Takes(s[j], t, r)
  <2>1. ASSUME \A j \in DOMAIN ops : i < j => ~Takes(ops[j], t, r)
        PROVE  /\ \A j \in DOMAIN d : i < j => ~Takes(d[j], t, r)
               /\ \A j \in DOMAIN s : i < k + j => ~Takes(s[j], t, r)
    <3>1. ASSUME NEW j \in 1..k, i < j PROVE ~Takes(d[j], t, r)
      <4>1. j \in DOMAIN ops /\ ops[j] = d[j]
        BY <1>4
      <4> QED BY <2>1, <3>1, <4>1
    <3>2. ASSUME NEW j \in 1..m, i < k + j PROVE ~Takes(s[j], t, r)
      <4>1. k + j \in DOMAIN ops /\ ops[k + j] = s[j]
        BY <1>4, <1>6
      <4> QED BY <2>1, <3>2, <4>1
    <3> QED BY <1>4, <3>1, <3>2
  <2>2. ASSUME \A j \in DOMAIN d : i < j => ~Takes(d[j], t, r),
               \A j \in DOMAIN s : i < k + j => ~Takes(s[j], t, r),
               NEW j \in DOMAIN ops, i < j
        PROVE  ~Takes(ops[j], t, r)
    <3>1. CASE j \in 1..k
      <4>1. j \in DOMAIN d /\ ops[j] = d[j]
        BY <1>4, <3>1
      <4> QED BY <2>2, <4>1
    <3>2. CASE \E e \in 1..m : j = k + e
      <4>1. PICK e \in 1..m : j = k + e
        BY <3>2
      <4>2. e \in DOMAIN s /\ ops[j] = s[e] /\ i < k + e
        BY <1>4, <2>2, <4>1
      <4> QED BY <2>2, <4>2
    <3> QED BY <1>4, <1>5, <3>1, <3>2
  <2> QED BY <2>1, <2>2
<1>7. (\A j \in DOMAIN ops : ~Takes(ops[j], t, r)) <=>
          (\A j \in DOMAIN d : ~Takes(d[j], t, r)) /\ (\A j \in DOMAIN s : ~Takes(s[j], t, r))
  <2>1. /\ \A j \in DOMAIN ops : 0 < j
        /\ \A j \in DOMAIN d : 0 < j
        /\ \A j \in DOMAIN s : 0 < k + j
    BY <1>4
  <2>2. (\A j \in DOMAIN ops : 0 < j => ~Takes(ops[j], t, r)) <=>
            /\ \A j \in DOMAIN d : 0 < j => ~Takes(d[j], t, r)
            /\ \A j \in DOMAIN s : 0 < k + j => ~Takes(s[j], t, r)
    BY <1>a
  <2> HIDE <1>a
  <2> QED BY <2>1, <2>2
<1>8. ASSUME NEW i \in 1..k
      PROVE  (\A j \in DOMAIN ops : i < j => ~Takes(ops[j], t, r)) <=>
                 /\ \A j \in DOMAIN d : i < j => ~Takes(d[j], t, r)
                 /\ \A j \in DOMAIN s : ~Takes(s[j], t, r)
  <2>1. i \in Int /\ \A j \in DOMAIN s : i < k + j
    BY <1>4
  <2>2. (\A j \in DOMAIN ops : i < j => ~Takes(ops[j], t, r)) <=>
            /\ \A j \in DOMAIN d : i < j => ~Takes(d[j], t, r)
            /\ \A j \in DOMAIN s : i < k + j => ~Takes(s[j], t, r)
    BY <1>a, <2>1
  <2> HIDE <1>a
  <2> QED BY <2>1, <2>2
<1>9. ASSUME NEW i \in 1..m
      PROVE  (\A j \in DOMAIN ops : k + i < j => ~Takes(ops[j], t, r)) <=>
                 (\A j \in DOMAIN s : i < j => ~Takes(s[j], t, r))
  <2>1. /\ k + i \in Int
        /\ \A j \in DOMAIN s : k + i < k + j <=> i < j
        /\ \A j \in DOMAIN d : ~(k + i < j)
    BY <1>4
  <2> QED BY <1>a, <2>1
<1> DEFINE Last(i) == /\ Gives(w, ops[i], t, r)
                      /\ \A j \in DOMAIN ops : i < j => ~Takes(ops[j], t, r)
<1>10. (\E i \in DOMAIN ops : Last(i)) <=> (\E i \in 1..k : Last(i)) \/ (\E i \in 1..m : Last(k + i))
  <2>1. \A i \in 1..k : i \in 1..(k + m)
    BY <1>4
  <2>2. DOMAIN ops = 1..(k + m)
    BY <1>4
  <2> HIDE DEF Last
  <2>3. ASSUME NEW i \in 1..(k + m), Last(i)
        PROVE  (\E e \in 1..k : Last(e)) \/ (\E e \in 1..m : Last(k + e))
    <3>1. CASE i \in 1..k
      BY <2>3, <3>1
    <3>2. CASE \E e \in 1..m : i = k + e
      BY <2>3, <3>2
    <3> QED BY <1>5, <3>1, <3>2
  <2>4. ASSUME (\E e \in 1..k : Last(e)) \/ (\E e \in 1..m : Last(k + e))
        PROVE  \E i \in 1..(k + m) : Last(i)
    <3>1. CASE \E e \in 1..k : Last(e)
      BY <2>1, <3>1
    <3>2. CASE \E e \in 1..m : Last(k + e)
      BY <1>6, <3>2
    <3> QED BY <2>4, <3>1, <3>2
  <2> QED BY <2>2, <2>3, <2>4
<1>11. r \in InOrder(w, ops, t, rows) <=>
          \/ r \in rows /\ \A j \in DOMAIN ops : ~Takes(ops[j], t, r)
          \/ \E i \in DOMAIN ops : /\ Gives(w, ops[i], t, r)
                                   /\ \A j \in DOMAIN ops : i < j => ~Takes(ops[j], t, r)
  BY DEF InOrder
<1>12. r \in InOrder(w, d, t, rows) <=>
          \/ r \in rows /\ \A j \in DOMAIN d : ~Takes(d[j], t, r)
          \/ \E i \in DOMAIN d : /\ Gives(w, d[i], t, r)
                                 /\ \A j \in DOMAIN d : i < j => ~Takes(d[j], t, r)
  BY DEF InOrder
<1>13. r \in InOrder(w, ops, t, rows) <=>
          \/ r \in InOrder(w, d, t, rows) /\ \A j \in DOMAIN s : ~Takes(s[j], t, r)
          \/ \E i \in DOMAIN s :
                Gives(w, s[i], t, r) /\ \A j \in DOMAIN s : i < j => ~Takes(s[j], t, r)
  BY <1>4, <1>7, <1>8, <1>9, <1>10, <1>11, <1>12, ZenonT(40)
<1> QED BY <1>1, <1>13

(***************************************************************************)
(* What a step does to the rows of the transaction's tables.               *)
(***************************************************************************)

\* The rows of the version an operation makes.
LEMMA ResultRows ==
    ASSUME NEW w \in Writers, NEW op \in Op, NEW m \in Metadata, NEW id \in Loc, NEW r \in Row,
           op.kind = "create" => Rows(m) = {}
    PROVE  r \in Rows(Result(w, op, m, id)) <=>
               Gives(w, op, op.table, r) \/ (r \in Rows(m) /\ ~Takes(op, op.table, r))
<1> DEFINE new == Result(w, op, m, id)
           left == (m.files \ Touched(m, op.pred)) \cup Rewrites(m, op.pred)
<1>1. (\E f \in left : r \in f.rows) <=> r \in Rows(m) /\ r.key \notin op.pred
  <2>1. ASSUME NEW f \in m.files \ Touched(m, op.pred), r \in f.rows
        PROVE  r \in Rows(m) /\ r.key \notin op.pred
    BY <2>1 DEF Rows, Touched, Matching
  <2>2. ASSUME NEW f \in Rewrites(m, op.pred), r \in f.rows
        PROVE  r \in Rows(m) /\ r.key \notin op.pred
    BY <2>2 DEF Rewrites, Touched, Rows, Matching
  <2>3. ASSUME NEW f \in m.files, r \in f.rows, r.key \notin op.pred
        PROVE  \E g \in left : r \in g.rows
    <3>1. CASE f \notin Touched(m, op.pred)
      BY <2>3, <3>1
    <3>2. CASE f \in Touched(m, op.pred)
      <4> DEFINE g == [orig |-> f.orig, rows |-> f.rows \ Matching(f.rows, op.pred)]
      <4>1. r \in g.rows
        BY <2>3 DEF Matching
      <4>2. g \in Rewrites(m, op.pred)
        BY <3>2, <4>1 DEF Rewrites
      <4> HIDE DEF g
      <4> QED BY <4>1, <4>2
    <3> QED BY <3>1, <3>2
  <2> QED BY <2>1, <2>2, <2>3 DEF Rows
<1>2. r \in Rows(new) <=> \E f \in new.files : r \in f.rows
  BY DEF Rows
<1>3. CASE op.kind = "create"
  <2>1. new.files = {}
    BY <1>3 DEF Result, NewTable
  <2> QED BY <1>2, <1>3, <2>1 DEF Gives
<1>4. CASE op.kind = "append"
  <2>1. PICK g : g = [orig |-> id, rows |-> DataRows(w, op)]
    OBVIOUS
  <2>2. new.files = m.files \cup {g}
    BY <1>4, <2>1 DEF Result, Appended, WithSnapshot
  <2>3. g.rows = DataRows(w, op)
    BY <2>1
  <2> HIDE DEF new
  <2>4. (\E f \in m.files : r \in f.rows) <=> r \in Rows(m)
    BY DEF Rows
  <2>5. r \in Rows(new) <=> r \in Rows(m) \/ r \in DataRows(w, op)
    BY <1>2, <2>2, <2>3, <2>4
  <2> QED BY <1>4, <2>5 DEF Gives, Takes, new
<1>5. CASE op.kind = "delete"
  <2>1. new.files = left
    BY <1>5 DEF Result, Deleted, WithSnapshot
  <2> QED BY <1>1, <1>2, <1>5, <2>1 DEF Gives, Takes
<1>6. CASE op.kind = "overwrite"
  <2>1. PICK g : g = [orig |-> id, rows |-> DataRows(w, op)]
    OBVIOUS
  <2>2. new.files = left \cup {g}
    BY <1>6, <2>1 DEF Result, Overwritten, WithSnapshot
  <2>3. g.rows = DataRows(w, op)
    BY <2>1
  <2> HIDE DEF left, new
  <2>4. r \in Rows(new) <=> (\E f \in left : r \in f.rows) \/ r \in DataRows(w, op)
    BY <1>2, <2>2, <2>3
  <2> QED BY <1>1, <1>6, <2>4 DEF Gives, Takes, new
<1> QED BY <1>3, <1>4, <1>5, <1>6 DEF Op, Kinds

\* A step runs an operation on what the transaction shows.
Runs(w, op) ==
    \A t \in Tables :
        /\ Adopted(w, t)' = Adopted(w, t)
        /\ \A r \in Row : r \in Shown(w, t)' <=>
               Gives(w, op, t, r) \/ (r \in Shown(w, t) /\ ~Takes(op, t, r))

\* What a transaction shows stays if its pointers do.
LEMMA ShownStays ==
    ASSUME Shape, Grows, NEW v \in Writers, SamePointers(v), NEW t \in Tables
    PROVE  Shown(v, t)' = Shown(v, t) /\ Adopted(v, t)' = Adopted(v, t)
<1>1. /\ catalog[v].pointers[t] \in Written /\ CurrentPointers(catalog[v])[t] \in Written
      /\ \A l \in DOMAIN warehouse : warehouse'[l] = warehouse[l]
  BY CurrentPointersRefs DEF Shape, Refs, Grows
<1>2. CurrentPointers(catalog'[v])[t] = CurrentPointers(catalog[v])[t]
  BY DEF CurrentPointers, SamePointers
<1>3. Adopted(v, t)' = Adopted(v, t)
  BY <1>1 DEF Adopted, RowsAt, Written, SamePointers
<1>4. Shown(v, t)' = Shown(v, t)
  BY <1>1, <1>2 DEF Shown, RowsAt, Written
<1> QED BY <1>3, <1>4

\* Staging a version runs the operation ...
LEMMA StageRuns ==
    ASSUME Shape, Grows, NEW w \in Writers, NEW op \in Op, ~Missing(catalog[w], op),
           WritesMetadata(catalog[w], op), Stage(w, op)
    PROVE  Runs(w, op)
<1>1. PICK new : new = NextLoc(w, op.table)
  OBVIOUS
<1>2. PICK loc : loc = CurrentPointers(catalog[w])[op.table]
  OBVIOUS
<1>3. PICK base : base = IF loc = Nil THEN NewTable ELSE warehouse[loc]
  OBVIOUS
<1>4. /\ new \in Loc /\ catalog'[w].pointers = catalog[w].pointers
      /\ \A t \in Tables : catalog'[w].staged[t] = IF t = op.table THEN new ELSE catalog[w].staged[t]
  BY <1>1, StageWrites, ZenonT(60)
<1>5. new # Nil /\ op.table \in Tables
  BY <1>4, NilAssumption DEF Op
<1>6. \A t \in Tables : CurrentPointers(catalog'[w])[t] =
          IF t = op.table THEN new ELSE CurrentPointers(catalog[w])[t]
  BY <1>4, <1>5 DEF CurrentPointers
<1>7. /\ \A t \in Tables : catalog[w].pointers[t] \in Written /\ CurrentPointers(catalog[w])[t] \in Written
      /\ \A l \in DOMAIN warehouse : warehouse'[l] = warehouse[l]
  BY CurrentPointersRefs DEF Shape, Refs, Grows
<1>8. warehouse'[new] = Result(w, op, base, new)
  BY <1>1, <1>2, <1>3 DEF Stage
<1>9. base \in Metadata
  BY <1>2, <1>3, <1>5, BaseVersion
<1>10. Rows(base) = Shown(w, op.table) /\ (op.kind = "create" => Rows(base) = {})
  BY <1>2, <1>3 DEF Shown, RowsAt, WritesMetadata, NewTable, Rows
<1>11. Shown(w, op.table)' = Rows(Result(w, op, base, new))
  BY <1>5, <1>6, <1>8 DEF Shown, RowsAt
<1>12. ASSUME NEW t \in Tables PROVE Adopted(w, t)' = Adopted(w, t)
  BY <1>4, <1>7 DEF Adopted, RowsAt, Written
<1>13. ASSUME NEW t \in Tables, NEW r \in Row
       PROVE  r \in Shown(w, t)' <=> Gives(w, op, t, r) \/ (r \in Shown(w, t) /\ ~Takes(op, t, r))
  <2>1. CASE t = op.table
    BY <1>4, <1>9, <1>10, <1>11, <2>1, ResultRows
  <2>2. CASE t # op.table
    <3>1. Shown(w, t)' = Shown(w, t)
      BY <1>6, <1>7, <2>2 DEF Shown, RowsAt, Written
    <3> QED BY <2>2, <3>1 DEF Gives, Takes
  <2> QED BY <2>1, <2>2
<1> QED BY <1>12, <1>13 DEF Runs

\* ... and so does doing nothing, where there is nothing to do.
LEMMA NothingRuns ==
    ASSUME Shape, Grows, NEW w \in Writers, NEW op \in Op, ~Missing(catalog[w], op),
           ~WritesMetadata(catalog[w], op), SamePointers(w)
    PROVE  Runs(w, op)
<1>1. PICK loc : loc = CurrentPointers(catalog[w])[op.table]
  OBVIOUS
<1>2. \/ op.kind = "create"
      \/ op.kind = "delete" /\ loc # Nil /\ Touched(warehouse[loc], op.pred) = {}
  BY <1>1 DEF WritesMetadata, Missing
<1>3. ASSUME NEW t \in Tables, NEW r \in Row, Takes(op, t, r)
      PROVE  r \notin Shown(w, t)
  <2>1. t = op.table /\ loc # Nil /\ Touched(warehouse[loc], op.pred) = {} /\ r.key \in op.pred
    BY <1>2, <1>3 DEF Takes
  <2>2. r \notin Rows(warehouse[loc])
    BY <2>1 DEF Touched, Matching, Rows
  <2> QED BY <1>1, <2>1, <2>2 DEF Shown, RowsAt
<1>4. \A t \in Tables, r \in Row : ~Gives(w, op, t, r)
  BY <1>2 DEF Gives
<1> QED BY <1>3, <1>4, ShownStays DEF Runs

(***************************************************************************)
(* Settled, step by step.                                                  *)
(***************************************************************************)

\* A transaction whose pointers and operations stay is as settled as it was; a
\* new call, a rebase or an error starts the count of applied intents afresh.
LEMMA SettledStays ==
    ASSUME Shape, Grows, NEW v \in Writers, Settled(v), SamePointers(v),
           UNCHANGED <<plan[v].intents, plan[v].direct>>,
           Applied(v)' = Applied(v) \/ Applied(v)' = 1
    PROVE  Settled(v)'
<1>1. PICK n : n = Applied(v)'
  OBVIOUS
<1>2. /\ \A t \in Tables : Shown(v, t)' = Shown(v, t) /\ Adopted(v, t)' = Adopted(v, t)
      /\ plan'[v].intents = plan[v].intents /\ plan'[v].direct = plan[v].direct
  BY ShownStays
<1>3. SettledAt(v, n)
  <2>1. CASE n = 1
    <3>1. \A i \in DOMAIN plan[v].intents : ~(i < 1)
      BY DEF Shape, TypeOK, Plan
    <3> QED BY <2>1, <3>1 DEF Settled, SettledAt
  <2> QED BY <1>1, <2>1 DEF Settled
<1>4. \A i \in DOMAIN plan[v].intents, t \in Tables, r \in Row :
          Concerns(v, i, t, r)' <=> Concerns(v, i, t, r)
  BY <1>2 DEF Concerns, Gives, Takes, DataRows
<1>5. \A t \in Tables, r \in Row : Given(v, n, t, r)' <=> Given(v, n, t, r)
  BY <1>2 DEF Given, Gives, Takes, DataRows
<1>6. \A t \in Tables : InOrder(v, plan[v].direct, t, Adopted(v, t))' =
          InOrder(v, plan[v].direct, t, Adopted(v, t))
  BY <1>2 DEF InOrder, Gives, Takes, DataRows
<1>7. SettledAt(v, n)'
  <2> SUFFICES ASSUME NEW t \in Tables, NEW r \in Row
      PROVE  /\ (\E i \in DOMAIN plan[v].intents : i < n /\ Concerns(v, i, t, r))' =>
                    (r \in Shown(v, t) <=> Given(v, n, t, r))'
             /\ (\A i \in DOMAIN plan[v].intents : ~Concerns(v, i, t, r))' =>
                    (r \in Shown(v, t) <=> r \in InOrder(v, plan[v].direct, t, Adopted(v, t)))'
    BY DEF SettledAt
  <2> QED BY <1>2, <1>3, <1>4, <1>5, <1>6 DEF SettledAt
<1> QED BY <1>1, <1>7 DEF Settled

\* Recording an operation applies nothing.
LEMMA SettledRecord ==
    ASSUME Shape, Grows, NEW w \in Writers, Settled(w), SamePointers(w), NEW op \in Op,
           plan'[w].intents = Append(plan[w].intents, op), UNCHANGED <<plan[w].direct>>,
           pc'[w] = "open"
    PROVE  Settled(w)'
<1>1. /\ \A t \in Tables : Shown(w, t)' = Shown(w, t) /\ Adopted(w, t)' = Adopted(w, t)
      /\ Applied(w)' = 1
  BY ShownStays DEF Applied
<1>2. plan[w].intents \in Seq(Op)
  BY DEF Shape, TypeOK, Plan
<1>3. /\ \A i \in DOMAIN plan[w].intents :
             i \in DOMAIN plan'[w].intents /\ plan'[w].intents[i] = plan[w].intents[i]
      /\ \A i \in DOMAIN plan'[w].intents : ~(i < 1)
  BY <1>2
<1>4. \A i \in DOMAIN plan[w].intents, t \in Tables, r \in Row :
          Concerns(w, i, t, r)' <=> Concerns(w, i, t, r)
  BY <1>3 DEF Concerns, Gives, Takes, DataRows
<1>5. \A t \in Tables : InOrder(w, plan[w].direct, t, Adopted(w, t))' =
          InOrder(w, plan[w].direct, t, Adopted(w, t))
  BY <1>1 DEF InOrder, Gives, Takes, DataRows
<1>6. SettledAt(w, 1)'
  <2> SUFFICES ASSUME NEW t \in Tables, NEW r \in Row,
                      (\A i \in DOMAIN plan[w].intents : ~Concerns(w, i, t, r))'
      PROVE  (r \in Shown(w, t) <=> r \in InOrder(w, plan[w].direct, t, Adopted(w, t)))'
    BY <1>3 DEF SettledAt
  <2> QED BY <1>1, <1>3, <1>4, <1>5 DEF Settled, SettledAt
<1> QED BY <1>1, <1>6 DEF Settled

\* Direct work is run at once.
LEMMA SettledDirect ==
    ASSUME Shape, NEW w \in Writers, Settled(w), NEW op \in Op, Runs(w, op),
           plan[w].direct = << >>, plan'[w].direct = <<op>>, UNCHANGED <<plan[w].intents>>,
           pc'[w] = "open"
    PROVE  Settled(w)'
<1>1. Applied(w)' = 1 /\ \A i \in DOMAIN plan'[w].intents : ~(i < 1)
  BY DEF Applied, Shape, TypeOK, Plan
<1>2. \A i \in DOMAIN plan[w].intents, t \in Tables, r \in Row :
          Concerns(w, i, t, r)' <=> Concerns(w, i, t, r)
  BY DEF Concerns, Gives, Takes, DataRows
<1>3. SettledAt(w, 1)'
  <2> SUFFICES ASSUME NEW t \in Tables, NEW r \in Row,
                      (\A i \in DOMAIN plan[w].intents : ~Concerns(w, i, t, r))'
      PROVE  (r \in Shown(w, t) <=> r \in InOrder(w, plan[w].direct, t, Adopted(w, t)))'
    BY <1>1 DEF SettledAt
  <2>1. PICK rows : rows = Adopted(w, t)
    OBVIOUS
  <2>2. r \in Shown(w, t) <=> r \in rows
    BY <1>2, <2>1, InOrderOfFew, ZenonT(40) DEF Settled, SettledAt
  <2>3. r \in Shown(w, t)' <=> Gives(w, op, t, r) \/ (r \in rows /\ ~Takes(op, t, r))
    BY <2>2 DEF Runs
  <2>4. r \in Shown(w, t)' <=> r \in InOrder(w, <<op>>, t, rows)
    BY <2>3, InOrderOfFew
  <2>5. InOrder(w, plan[w].direct, t, Adopted(w, t))' = InOrder(w, <<op>>, t, rows)
    BY <2>1 DEF Runs, InOrder, Gives, Takes, DataRows
  <2> QED BY <2>4, <2>5
<1> QED BY <1>1, <1>3 DEF Settled

\* Applying the next intent settles the rows it concerns.
LEMMA SettledApply ==
    ASSUME Shape, NEW w \in Writers, Settled(w), Applying(w), Runs(w, Intent(w)),
           UNCHANGED <<plan[w].intents, plan[w].direct>>,
           pc'[w] = "apply", loop'[w].next = loop[w].next + 1
    PROVE  Settled(w)'
<1>1. PICK n : n = loop[w].next
  OBVIOUS
<1>2. /\ n \in Nat \ {0} /\ plan[w].intents \in Seq(Op) /\ n \in DOMAIN plan[w].intents
      /\ DOMAIN plan[w].intents \subseteq Nat
  BY <1>1 DEF Applying, Shape, TypeOK, Plan, Loop
<1>3. PICK op : op = plan[w].intents[n]
  OBVIOUS
<1>4. Applied(w) = n /\ Applied(w)' = n + 1 /\ Intent(w) = op
  BY <1>1, <1>3 DEF Applied, Applying, Intent
<1>5. \A i \in DOMAIN plan[w].intents, t \in Tables, r \in Row :
          Concerns(w, i, t, r)' <=> Concerns(w, i, t, r)
  BY DEF Concerns, Gives, Takes, DataRows
<1>6. \A t \in Tables, r \in Row : Given(w, n + 1, t, r)' <=> Given(w, n + 1, t, r)
  BY DEF Given, Gives, Takes, DataRows
<1>7. \A t \in Tables : InOrder(w, plan[w].direct, t, Adopted(w, t))' =
          InOrder(w, plan[w].direct, t, Adopted(w, t))
  BY DEF Runs, InOrder, Gives, Takes, DataRows
<1>8. ASSUME NEW t \in Tables, NEW r \in Row
      PROVE  Given(w, n + 1, t, r) <=>
                 Gives(w, op, t, r) \/ (Given(w, n, t, r) /\ ~Takes(op, t, r))
  <2>1. /\ \A i \in DOMAIN plan[w].intents : i < n + 1 <=> i < n \/ i = n
        /\ \A i \in DOMAIN plan[w].intents : i < n => i < n + 1
        /\ \A i \in DOMAIN plan[w].intents : ~(n < i /\ i < n + 1)
        /\ ~(n < n)
    BY <1>2
  <2>2. ASSUME Given(w, n + 1, t, r), ~Gives(w, op, t, r)
        PROVE  Given(w, n, t, r) /\ ~Takes(op, t, r)
    <3>1. PICK i \in DOMAIN plan[w].intents :
              /\ i < n + 1 /\ Gives(w, plan[w].intents[i], t, r)
              /\ \A j \in DOMAIN plan[w].intents : i < j /\ j < n + 1 => ~Takes(plan[w].intents[j], t, r)
      BY <2>2 DEF Given
    <3>2. i < n
      BY <1>3, <2>1, <2>2, <3>1
    <3>3. Given(w, n, t, r)
      BY <2>1, <3>1, <3>2 DEF Given
    <3> QED BY <1>2, <1>3, <2>1, <3>1, <3>2, <3>3
  <2>3. ASSUME Gives(w, op, t, r) PROVE Given(w, n + 1, t, r)
    BY <1>2, <1>3, <2>1, <2>3 DEF Given
  <2>4. ASSUME Given(w, n, t, r), ~Takes(op, t, r) PROVE Given(w, n + 1, t, r)
    <3>1. PICK i \in DOMAIN plan[w].intents :
              /\ i < n /\ Gives(w, plan[w].intents[i], t, r)
              /\ \A j \in DOMAIN plan[w].intents : i < j /\ j < n => ~Takes(plan[w].intents[j], t, r)
      BY <2>4 DEF Given
    <3> QED BY <1>3, <2>1, <2>4, <3>1 DEF Given
  <2> QED BY <2>2, <2>3, <2>4
<1>9. SettledAt(w, n + 1)'
  <2> SUFFICES ASSUME NEW t \in Tables, NEW r \in Row
      PROVE  /\ (\E i \in DOMAIN plan[w].intents : i < n + 1 /\ Concerns(w, i, t, r))' =>
                    (r \in Shown(w, t) <=> Given(w, n + 1, t, r))'
             /\ (\A i \in DOMAIN plan[w].intents : ~Concerns(w, i, t, r))' =>
                    (r \in Shown(w, t) <=> r \in InOrder(w, plan[w].direct, t, Adopted(w, t)))'
    BY DEF SettledAt
  <2>1. r \in Shown(w, t)' <=> Gives(w, op, t, r) \/ (r \in Shown(w, t) /\ ~Takes(op, t, r))
    BY <1>4 DEF Runs
  <2>2. Concerns(w, n, t, r) <=> Gives(w, op, t, r) \/ Takes(op, t, r)
    BY <1>3 DEF Concerns
  <2>3. /\ (\E i \in DOMAIN plan[w].intents : i < n /\ Concerns(w, i, t, r)) =>
              (r \in Shown(w, t) <=> Given(w, n, t, r))
        /\ (\A i \in DOMAIN plan[w].intents : ~Concerns(w, i, t, r)) =>
              (r \in Shown(w, t) <=> r \in InOrder(w, plan[w].direct, t, Adopted(w, t)))
    BY <1>4 DEF Settled, SettledAt
  <2>4. \A i \in DOMAIN plan[w].intents : i < n + 1 <=> i < n \/ i = n
    BY <1>2
  <2>5. ASSUME NEW i \in DOMAIN plan[w].intents, i < n + 1, Concerns(w, i, t, r)
        PROVE  r \in Shown(w, t)' <=> Given(w, n + 1, t, r)
    <3>1. CASE Concerns(w, n, t, r)
      BY <1>8, <2>1, <2>2, <3>1
    <3>2. CASE ~Concerns(w, n, t, r)
      BY <1>8, <2>1, <2>2, <2>3, <2>4, <2>5, <3>2
    <3> QED BY <3>1, <3>2
  <2>6. ASSUME \A i \in DOMAIN plan[w].intents : ~Concerns(w, i, t, r)
        PROVE  r \in Shown(w, t)' <=> r \in InOrder(w, plan[w].direct, t, Adopted(w, t))
    BY <1>2, <2>1, <2>2, <2>3, <2>6
  <2> QED BY <1>5, <1>6, <1>7, <2>5, <2>6
<1> QED BY <1>4, <1>9 DEF Settled

\* Adopting the winner's pointers drops what was staged, which is all there was.
LEMMA SettledAfresh ==
    ASSUME Shape, Shape', Grows, NEW w \in Writers,
           plan'[w].direct = << >>, catalog'[w].staged = NoPointers,
           pc'[w] # "apply"
    PROVE  Settled(w)'
<1>1. Applied(w)' = 1 /\ \A i \in DOMAIN plan'[w].intents : ~(i < 1)
  BY SMTT(40) DEF Applied, Shape, TypeOK, Plan
<1>2. \A t \in Tables : CurrentPointers(catalog'[w])[t] = catalog'[w].pointers[t]
  BY DEF CurrentPointers, NoPointers
<1>3. \A t \in Tables : Shown(w, t)' = Adopted(w, t)'
  BY <1>2 DEF Shown, Adopted, RowsAt
<1>4. SettledAt(w, 1)'
  <2> SUFFICES ASSUME NEW t \in Tables, NEW r \in Row
      PROVE  (r \in Shown(w, t) <=> r \in InOrder(w, plan[w].direct, t, Adopted(w, t)))'
    BY <1>1 DEF SettledAt
  <2>1. PICK rows : rows = Adopted(w, t)'
    OBVIOUS
  <2>2. r \in InOrder(w, plan[w].direct, t, Adopted(w, t))' <=> r \in rows
    BY <2>1 DEF InOrder
  <2> QED BY <1>3, <2>1, <2>2
<1> QED BY <1>1, <1>4 DEF Settled

\* Once every intent is applied, the transaction shows what its operations, run
\* alone and in order, make of the rows it adopted.
LEMMA ShownIsSerial ==
    ASSUME Shape, NEW w \in Writers, Settled(w), AllApplied(w), NEW t \in Tables, NEW r \in Row
    PROVE  r \in Shown(w, t) <=> r \in Serially(w, t, Adopted(w, t))
<1>1. /\ plan[w].intents \in Seq(Op) /\ plan[w].direct \in Seq(Op)
      /\ \A i \in DOMAIN plan[w].intents : i < Applied(w)
  BY DEF Shape, TypeOK, Plan, Loop, AllApplied, Applied
<1>2. PICK s : s = plan[w].intents
  OBVIOUS
<1>3. PICK n : n = Applied(w)
  OBVIOUS
<1>4. r \in Serially(w, t, Adopted(w, t)) <=>
          \/ r \in InOrder(w, plan[w].direct, t, Adopted(w, t)) /\ \A j \in DOMAIN s : ~Takes(s[j], t, r)
          \/ \E i \in DOMAIN s :
                Gives(w, s[i], t, r) /\ \A j \in DOMAIN s : i < j => ~Takes(s[j], t, r)
  BY <1>1, <1>2, InOrderSplit, ZenonT(40) DEF Serially
<1>5. Given(w, n, t, r) <=>
          \E i \in DOMAIN s :
              Gives(w, s[i], t, r) /\ \A j \in DOMAIN s : i < j => ~Takes(s[j], t, r)
  BY <1>1, <1>2, <1>3 DEF Given
<1>6. CASE \E i \in DOMAIN s : Concerns(w, i, t, r)
  <2>1. r \in Shown(w, t) <=> Given(w, n, t, r)
    BY <1>1, <1>2, <1>3, <1>6 DEF Settled, SettledAt
  <2>2. (\A j \in DOMAIN s : ~Takes(s[j], t, r)) => Given(w, n, t, r)
    BY <1>2, <1>5, <1>6 DEF Concerns
  <2> QED BY <1>4, <1>5, <2>1, <2>2
<1>7. CASE \A i \in DOMAIN s : ~Concerns(w, i, t, r)
  <2>1. \A i \in DOMAIN s : ~Gives(w, s[i], t, r) /\ ~Takes(s[i], t, r)
    BY <1>2, <1>7 DEF Concerns
  <2>2. r \in Shown(w, t) <=> r \in InOrder(w, plan[w].direct, t, Adopted(w, t))
    BY <1>2, <1>7 DEF Settled, SettledAt
  <2> QED BY <1>4, <2>1, <2>2
<1> QED BY <1>6, <1>7

(***************************************************************************)
(* The steps of a transaction keep it settled.                             *)
(***************************************************************************)

Settling(w) == Settled(w) /\ Directs(w)

\* Direct work stays staged if the staged pointers do.
LEMMA DirectsStay ==
    ASSUME NEW v \in Writers, Directs(v), SamePointers(v), UNCHANGED <<plan[v].direct>>,
           \/ pc'[v] = pc[v] /\ UNCHANGED <<loop[v].unmanaged>>
           \/ pc[v] = "apply" /\ pc'[v] = "recover" /\ UNCHANGED <<loop[v].unmanaged>>
           \/ pc'[v] \in {"committed", "failed"}
           \/ pc[v] = "rebase"
    PROVE  Directs(v)'
BY DEF Directs, SamePointers

\* An error changes nothing of it.
LEMMA FailSettles ==
    ASSUME Shape, Grows, NEW w \in Writers, NEW err, Fail(w, err), Settling(w)
    PROVE  Settling(w)'
<1>1. pc \in [Writers -> Phases]
  BY DEF Shape, TypeOK
<1>2. pc'[w] = "failed" /\ UNCHANGED <<catalog, plan>>
  BY <1>1 DEF Fail
<1>3. Directs(w)'
  BY <1>2, DirectsStay DEF Settling, SamePointers
<1>4. Applied(w)' = 1
  BY <1>2 DEF Applied
<1>5. Settled(w)'
  BY <1>2, <1>4, SettledStays DEF Settling, SamePointers
<1> QED BY <1>3, <1>5 DEF Settling

\* The caller's steps keep the transaction settled.
LEMMA CallerSettles ==
    ASSUME Shape, Shape', Grows, NEW w \in Writers, Untouched(w), Settling(w), Caller(w)
    PROVE  Settling(w)'
<1>a. /\ pc \in [Writers -> Phases] /\ catalog \in [Writers -> Catalog]
      /\ plan \in [Writers -> Plan] /\ loop \in [Writers -> Loop]
  BY DEF Shape, TypeOK
<1>b. Settled(w) /\ Directs(w)
  BY DEF Settling
<1>1. ASSUME NEW b \in Branches, NEW sb \in Branches, Open(w, b, sb) PROVE Settling(w)'
  <2>1. pc[w] = "idle" /\ pc'[w] = "open"
    BY <1>1, <1>a DEF Open
  <2>2. plan'[w].direct = plan[w].direct
    BY <1>1, <1>a DEF Open, Plan
  <2>3. catalog'[w].staged = NoPointers
    BY <1>1, <1>a, <2>1 DEF Open, Catalog, Untouched
  <2>4. plan'[w].direct = << >>
    BY <1>b, <2>1, <2>2 DEF Directs
  <2>5. Settled(w)'
    BY <2>1, <2>3, <2>4, SettledAfresh
  <2> QED BY <2>4, <2>5 DEF Settling, Directs
<1>2. ASSUME NEW b \in Branches, NEW sb \in Branches, RefuseSession(w, b, sb) PROVE Settling(w)'
  BY <1>2, FailSettles DEF RefuseSession
<1>3. ASSUME NEW op \in Ops, CreateTable(w, op) \/ AppendRows(w, op) \/ RemoveRows(w, op)
      PROVE  Settling(w)'
  <2>1. op \in Op /\ pc[w] = "open" /\ UNCHANGED <<pc, catalog, loop>>
    BY <1>3, OpAssumption DEF CreateTable, AppendRows, RemoveRows, MayRecord
  <2>2. plan'[w].intents = Append(plan[w].intents, op) /\ plan'[w].direct = plan[w].direct
    BY <1>3, <1>a DEF CreateTable, AppendRows, RemoveRows, Plan
  <2>3. Settled(w)'
    BY <1>b, <2>1, <2>2, SettledRecord DEF SamePointers
  <2>4. Directs(w)'
    BY <1>b, <2>1, <2>2, DirectsStay DEF SamePointers
  <2> QED BY <2>3, <2>4 DEF Settling
<1>4. ASSUME NEW c \in Chunks, WriteChunk(w, c) PROVE Settling(w)'
  <2>1. UNCHANGED <<pc, catalog, loop>>
    BY <1>4 DEF WriteChunk
  <2>2. plan'[w].intents = plan[w].intents /\ plan'[w].direct = plan[w].direct
    BY <1>4, <1>a DEF WriteChunk, Plan
  <2>3. Applied(w)' = Applied(w)
    BY <2>1 DEF Applied
  <2>4. Settled(w)'
    BY <1>b, <2>1, <2>2, <2>3, SettledStays DEF SamePointers
  <2>5. Directs(w)'
    BY <1>b, <2>1, <2>2, DirectsStay DEF SamePointers
  <2> QED BY <2>4, <2>5 DEF Settling
<1>5. ASSUME NEW op \in DirectOps, Direct(w, op) PROVE Settling(w)'
  <2>1. /\ op \in Op /\ pc[w] = "open" /\ plan[w].direct = << >> /\ Stage(w, op)
        /\ ~Missing(catalog[w], op) /\ WritesMetadata(catalog[w], op) /\ UNCHANGED <<pc, loop>>
    BY <1>5, OpAssumption DEF Direct
  <2>2. plan'[w].intents = plan[w].intents /\ plan'[w].direct = Append(plan[w].direct, op)
    BY <1>5, <1>a DEF Direct, Plan
  <2>3. plan'[w].direct = <<op>>
    BY <2>1, <2>2
  <2>4. Runs(w, op)
    BY <2>1, StageRuns
  <2>5. Settled(w)'
    BY <1>b, <2>1, <2>2, <2>3, <2>4, SettledDirect
  <2>6. op.table \in Tables
    BY <2>1 DEF Op
  <2>7. catalog'[w].staged[op.table] \in Loc
    BY <2>1, <2>6, StageWrites
  <2>8. Directs(w)'
    BY <2>1, <2>3, <2>7, NilAssumption DEF Directs
  <2> QED BY <2>5, <2>8 DEF Settling
<1>6. CASE BodyRaises(w)
  BY <1>6, FailSettles DEF BodyRaises
<1>7. CASE BeginCommit(w)
  <2>1. UNCHANGED <<catalog, plan>>
    BY <1>7 DEF BeginCommit
  <2>2. pc'[w] = "apply" /\ loop'[w].next = 1 /\ loop'[w].unmanaged = StagedTables(catalog[w])
    BY <1>7, <1>a DEF BeginCommit
  <2>3. Applied(w)' = 1
    BY <2>2 DEF Applied
  <2>4. Settled(w)'
    BY <1>b, <2>1, <2>3, SettledStays DEF SamePointers
  <2>5. Directs(w)'
    <3> SUFFICES ASSUME plan[w].direct # << >>
                 PROVE  \E op \in DirectOps :
                            /\ plan[w].direct = <<op>> /\ catalog[w].staged[op.table] # Nil
                            /\ op.table \in StagedTables(catalog[w])
      BY <2>1, <2>2 DEF Directs
    <3>1. PICK op \in DirectOps : plan[w].direct = <<op>> /\ catalog[w].staged[op.table] # Nil
      BY <1>b DEF Directs
    <3>2. op.table \in Tables
      BY OpAssumption DEF Op
    <3> QED BY <3>1, <3>2 DEF StagedTables
  <2> QED BY <2>4, <2>5 DEF Settling
<1> QED BY <1>1, <1>2, <1>3, <1>4, <1>5, <1>6, <1>7 DEF Caller

\* So do the steps of a running commit().
LEMMA CommitSettles ==
    ASSUME Shape, Shape', Grows, NEW w \in Writers, Settling(w),
           Commit(w) \/ StorageFault(w) \/ AnswerLost(w)
    PROVE  Settling(w)'
<1>a. /\ pc \in [Writers -> Phases] /\ catalog \in [Writers -> Catalog]
      /\ plan \in [Writers -> Plan] /\ loop \in [Writers -> Loop]
  BY DEF Shape, TypeOK
<1>b. Settled(w) /\ Directs(w)
  BY DEF Settling
<1>c. Applying(w) => Intent(w) \in Op /\ pc[w] = "apply" /\ loop[w].next \in Nat
  BY <1>a DEF Applying, Intent, Plan, Loop
<1>1. CASE ApplyIntent(w)
  <2>1. /\ Applying(w) /\ ~Missing(catalog[w], Intent(w)) /\ WritesMetadata(catalog[w], Intent(w))
        /\ Stage(w, Intent(w)) /\ loop' = [loop EXCEPT ![w].next = @ + 1]
        /\ UNCHANGED <<pc, plan>>
    BY <1>1 DEF ApplyIntent
  <2>2. loop'[w].next = loop[w].next + 1 /\ loop'[w].unmanaged = loop[w].unmanaged
    BY <1>a, <2>1 DEF Loop
  <2>3. PICK op \in Op : op = Intent(w)
    BY <1>c, <2>1
  <2>4. Runs(w, op)
    BY <2>1, <2>3, StageRuns
  <2>5. Settled(w)'
    BY <1>b, <1>c, <2>1, <2>2, <2>3, <2>4, SettledApply
  <2>6. \A t \in Tables : catalog'[w].staged[t] \in Loc \/ catalog'[w].staged[t] = catalog[w].staged[t]
    BY <2>1, <2>3, StageWrites
  <2>7. \A t \in Tables : catalog[w].staged[t] # Nil => catalog'[w].staged[t] # Nil
    BY <2>6, NilAssumption
  <2>8. \A d \in DirectOps : d.table \in Tables
    BY OpAssumption DEF Op
  <2>9. Directs(w)'
    BY <1>b, <2>1, <2>2, <2>7, <2>8 DEF Directs
  <2> QED BY <2>5, <2>9 DEF Settling
<1>2. CASE ApplyNothing(w)
  <2>1. /\ Applying(w) /\ ~Missing(catalog[w], Intent(w)) /\ ~WritesMetadata(catalog[w], Intent(w))
        /\ loop' = [loop EXCEPT ![w].next = @ + 1] /\ UNCHANGED <<pc, catalog, plan>>
    BY <1>2 DEF ApplyNothing
  <2>2. loop'[w].next = loop[w].next + 1 /\ loop'[w].unmanaged = loop[w].unmanaged
    BY <1>a, <2>1 DEF Loop
  <2>3. Runs(w, Intent(w))
    BY <1>c, <2>1, NothingRuns DEF SamePointers
  <2>4. Settled(w)'
    BY <1>b, <1>c, <2>1, <2>2, <2>3, SettledApply
  <2>5. Directs(w)'
    BY <1>b, <2>1, <2>2, DirectsStay DEF SamePointers
  <2> QED BY <2>4, <2>5 DEF Settling
<1>3. CASE ApplyMissing(w) \/ RefuseEmpty(w) \/ Exhausted(w) \/ StorageFault(w)
  BY <1>3, FailSettles DEF ApplyMissing, RefuseEmpty, Exhausted, StorageFault
<1>4. CASE RefuseUncovered(w) \/ RefuseRemoval(w) \/ RebaseFails(w)
  BY <1>4, FailSettles DEF RefuseUncovered, RefuseRemoval, RebaseFails
<1>5. CASE Conflict(w)
  <2>1. pc[w] = "apply" /\ pc'[w] = "recover" /\ UNCHANGED <<catalog, plan, loop>>
    BY <1>5, <1>a DEF Conflict, AllApplied
  <2>2. Applied(w)' = 1
    BY <2>1 DEF Applied
  <2>3. Settled(w)'
    BY <1>b, <2>1, <2>2, SettledStays DEF SamePointers
  <2>4. Directs(w)'
    BY <1>b, <2>1, DirectsStay DEF SamePointers
  <2> QED BY <2>3, <2>4 DEF Settling
<1>6. CASE Adopt(w)
  <2>1. pc[w] = "recover" /\ Orphaned(w) = {} /\ UNCHANGED <<plan, loop>>
    BY <1>6 DEF Adopt
  <2>2. pc'[w] = "rebase" /\ catalog'[w].staged = NoPointers
    BY <1>6, <1>a DEF Adopt, RebasedOnto, Catalog
  <2>3. plan[w].direct = << >>
    BY <1>b, <2>1 DEF Directs, Orphaned
  <2>4. Settled(w)'
    BY <2>1, <2>2, <2>3, SettledAfresh
  <2> QED BY <2>1, <2>3, <2>4 DEF Settling, Directs
<1>7. CASE Rebase(w)
  <2>1. pc[w] = "rebase" /\ UNCHANGED <<catalog, plan>>
    BY <1>7 DEF Rebase
  <2>2. pc'[w] = "apply" /\ loop'[w].next = 1
    BY <1>7, <1>a DEF Rebase, Loop
  <2>3. Applied(w)' = 1
    BY <2>2 DEF Applied
  <2>4. Settled(w)'
    BY <1>b, <2>1, <2>3, SettledStays DEF SamePointers
  <2>5. Directs(w)'
    BY <1>b, <2>1, DirectsStay DEF SamePointers
  <2> QED BY <2>4, <2>5 DEF Settling
<1>8. CASE Publish(w) \/ AnswerLost(w)
  <2>1. pc'[w] \in {"committed", "failed"} /\ UNCHANGED <<catalog, plan>>
    BY <1>8, <1>a DEF Publish, AnswerLost
  <2>2. Applied(w)' = 1
    BY <2>1 DEF Applied
  <2>3. Settled(w)'
    BY <1>b, <2>1, <2>2, SettledStays DEF SamePointers
  <2>4. Directs(w)'
    BY <1>b, <2>1, DirectsStay DEF SamePointers
  <2> QED BY <2>3, <2>4 DEF Settling
<1> QED BY <1>1, <1>2, <1>3, <1>4, <1>5, <1>6, <1>7, <1>8 DEF Commit

\* A transaction that does not act stays settled.
LEMMA SettlingOfOthers ==
    ASSUME Shape, Grows, NEW v \in Writers, Settling(v),
           catalog'[v] = catalog[v], plan'[v] = plan[v], loop'[v] = loop[v], pc'[v] = pc[v]
    PROVE  Settling(v)'
<1>1. Applied(v)' = Applied(v)
  BY DEF Applied
<1>2. Settled(v)'
  BY <1>1, SettledStays DEF Settling, SamePointers
<1>3. Directs(v)'
  BY DirectsStay DEF Settling, SamePointers
<1> QED BY <1>2, <1>3 DEF Settling

(***************************************************************************)
(* What is published is serial.                                            *)
(***************************************************************************)

SerialAt(i) ==
    \A t \in Tables :
        RowsAt(snaps[i].pointers, t) =
            Serially(snaps[i].by, t, RowsAt(snaps[snaps[i].parent].pointers, t))

\* The rows of a written version are rows.
LEMMA RowsAreRows ==
    ASSUME Shape, NEW p, NEW t \in Tables, p[t] \in Written
    PROVE  RowsAt(p, t) \subseteq Row
<1>1. CASE p[t] = Nil
  BY <1>1 DEF RowsAt
<1>2. CASE p[t] # Nil
  <2>1. warehouse[p[t]] \in Metadata
    BY <1>2 DEF Shape, TypeOK, Written
  <2>2. Rows(warehouse[p[t]]) \subseteq Row
    BY <2>1 DEF Rows, Metadata, File
  <2> QED BY <1>2, <2>2 DEF RowsAt
<1> QED BY <1>1, <1>2

\* A snapshot stays serial: its author is done and its plan does not change.
LEMMA SerialStays ==
    ASSUME Shape, Grows, NEW i \in DOMAIN snaps, SerialAt(i), snaps[i].parent \in DOMAIN snaps,
           plan'[snaps[i].by] = plan[snaps[i].by]
    PROVE  SerialAt(i)'
<1>1. PICK a : a = snaps[i].by
  OBVIOUS
<1>2. PICK p : p = snaps[i].parent
  OBVIOUS
<1>3. p \in DOMAIN snaps /\ snaps'[i] = snaps[i] /\ snaps'[p] = snaps[p] /\ plan'[a] = plan[a]
  BY <1>1, <1>2 DEF Grows
<1>4. snaps'[i].by = a /\ snaps'[i].parent = p
  BY <1>1, <1>2, <1>3
<1> SUFFICES ASSUME NEW t \in Tables
             PROVE  (RowsAt(snaps[i].pointers, t) =
                         Serially(snaps[i].by, t, RowsAt(snaps[snaps[i].parent].pointers, t)))'
  BY DEF SerialAt
<1>5. RowsAt(snaps[i].pointers, t)' = RowsAt(snaps[i].pointers, t)
  BY RowsStay
<1>6. RowsAt(snaps[p].pointers, t)' = RowsAt(snaps[p].pointers, t)
  BY <1>3, RowsStay
<1>7. PICK rows : rows = RowsAt(snaps[p].pointers, t)
  OBVIOUS
<1>8. RowsAt(snaps[i].pointers, t) = Serially(a, t, rows)
  BY <1>1, <1>2, <1>7 DEF SerialAt
<1>9. Serially(a, t, rows)' = Serially(a, t, rows)
  BY <1>3 DEF Serially, InOrder, Gives, Takes, DataRows
<1>10. RowsAt(snaps[snaps[i].parent].pointers, t)' = rows
  BY <1>4, <1>6, <1>7
<1>11. Serially(snaps[i].by, t, RowsAt(snaps[snaps[i].parent].pointers, t))' = Serially(a, t, rows)'
  BY <1>4, <1>10 DEF Serially
<1> QED BY <1>5, <1>8, <1>9, <1>11

\* A snapshot made at the tip, once every intent was applied, is serial.
LEMMA SerialLanded ==
    ASSUME Shape, Shape', Grows, NEW w \in Writers, Settled(w), Current(w),
           AllApplied(w), AtTip(w), Landed(w), NEW n, n = Len(snaps) + 1
    PROVE  SerialAt(n)'
<1>2. PICK p : p = session[w].snap
  OBVIOUS
<1>3. /\ snaps \in Seq(Snapshot) /\ NewSnapshot(w) \in Snapshot
      /\ snaps' = Append(snaps, NewSnapshot(w)) /\ UNCHANGED <<warehouse, catalog, plan>>
  BY NewSnapshotType DEF Landed, Shape, TypeOK
<1>4. snaps'[n] = NewSnapshot(w)
  BY <1>3
<1>5. /\ NewSnapshot(w).parent = p /\ NewSnapshot(w).by = w
      /\ NewSnapshot(w).pointers = CurrentPointers(catalog[w])
  BY <1>2 DEF NewSnapshot, CommitMetadata
<1>6. p \in DOMAIN snaps /\ snaps'[p] = snaps[p]
  BY <1>2 DEF Shape, Refs, Grows
<1>7. catalog[w].pointers = snaps[p].pointers
  BY <1>2 DEF Current, AllApplied
<1> SUFFICES ASSUME NEW t \in Tables
             PROVE  (RowsAt(snaps[n].pointers, t) =
                         Serially(snaps[n].by, t, RowsAt(snaps[snaps[n].parent].pointers, t)))'
  BY DEF SerialAt
<1>8. snaps'[n].by = w /\ snaps'[n].parent = p /\ snaps'[n].pointers = CurrentPointers(catalog[w])
  BY <1>4, <1>5
<1>9. PICK rows : rows = Adopted(w, t)
  OBVIOUS
<1>10. RowsAt(snaps[n].pointers, t)' = Shown(w, t)
  BY <1>3, <1>8 DEF RowsAt, Shown
<1>11. RowsAt(snaps[snaps[n].parent].pointers, t)' = rows
  BY <1>3, <1>6, <1>7, <1>8, <1>9 DEF RowsAt, Adopted
<1>12. Serially(w, t, rows)' = Serially(w, t, rows)
  BY <1>3 DEF Serially, InOrder, Gives, Takes, DataRows
<1>13. Serially(snaps[n].by, t, RowsAt(snaps[snaps[n].parent].pointers, t))' = Serially(w, t, rows)'
  BY <1>8, <1>11 DEF Serially
<1>14. Shown(w, t) \subseteq Row
  BY CurrentPointersRefs, RowsAreRows DEF Shown
<1>15. Serially(w, t, rows) \subseteq Row
  BY DEF Serially, InOrder
<1>16. Shown(w, t) = Serially(w, t, rows)
  BY <1>9, <1>14, <1>15, ShownIsSerial
<1> QED BY <1>10, <1>12, <1>13, <1>16

\* A transaction that takes a step is not done: it made no snapshot yet.
LEMMA ActingMadeNone ==
    ASSUME LInv, NEW w \in Writers, StepOf(w)
    PROVE  Own(w) = {}
<1>1. Carrying(w) /\ Outcome(w)
  BY DEF LInv, Ledger
<1>2. ~Done(w)
  BY <1>1 DEF StepOf, Opening, Preparing, Staging, Beginning, Going, Adopting, Rebasing, Failing,
              Landing, Done, Carrying
<1> QED BY <1>1, <1>2 DEF Outcome

\* A step of a transaction keeps every snapshot serial.
LEMMA SnapsStaySerial ==
    ASSUME SInv, Shape', Grows, NEW w \in Writers, StepOf(w),
           UNCHANGED snaps \/ (Landed(w) /\ AllApplied(w) /\ AtTip(w))
    PROVE  SerialSnaps'
<1>1. Shape /\ LInv /\ Authorship /\ Descents /\ Settled(w) /\ Current(w)
  BY DEF SInv, DInv, WInv, LInv, Lineage
<1>2. snaps \in Seq(Snapshot)
  BY <1>1 DEF Shape, TypeOK
<1>3. Own(w) = {}
  BY <1>1, ActingMadeNone
<1>4. ASSUME NEW i \in DOMAIN snaps, i # 1 PROVE SerialAt(i)'
  <2>1. SerialAt(i) /\ snaps[i].parent \in DOMAIN snaps
    BY <1>1, <1>4 DEF SInv, SerialSnaps, SerialAt, Descents
  <2>2. snaps[i].by \in Writers /\ snaps[i].by # w
    BY <1>1, <1>3, <1>4 DEF Authorship, Own
  <2>3. plan'[snaps[i].by] = plan[snaps[i].by]
    BY <2>2 DEF StepOf, OwnStep
  <2> QED BY <1>1, <2>1, <2>3, SerialStays
<1>5. CASE UNCHANGED snaps
  BY <1>4, <1>5 DEF SerialSnaps, SerialAt
<1>6. CASE Landed(w) /\ AllApplied(w) /\ AtTip(w)
  <2>1. PICK n : n = Len(snaps) + 1
    OBVIOUS
  <2>2. SerialAt(n)'
    BY <1>1, <1>6, <2>1, SerialLanded
  <2>3. DOMAIN snaps' = DOMAIN snaps \cup {n}
    BY <1>2, <1>6, <2>1 DEF Landed
  <2> QED BY <1>4, <2>2, <2>3 DEF SerialSnaps, SerialAt
<1> QED BY <1>5, <1>6

\* At the start nothing is staged and nothing was published.
LEMMA InitSerial == Init => SInv
<1> SUFFICES ASSUME Init PROVE SInv
  OBVIOUS
<1>1. DInv /\ IInv /\ LInv
  BY InitLineage DEF DInv
<1>2. snaps = <<FirstSnapshot(FirstBranch)>>
  BY DEF Init
<1>3. DOMAIN snaps = {1}
  BY <1>2
<1>4. SerialSnaps
  BY <1>3 DEF SerialSnaps
<1>5. ASSUME NEW w \in Writers PROVE Settled(w) /\ Directs(w)
  <2>1. /\ pc[w] = "idle" /\ plan[w].intents = << >> /\ plan[w].direct = << >>
        /\ catalog[w].pointers = NoPointers /\ catalog[w].staged = NoPointers
    BY DEF Init
  <2>2. Directs(w)
    BY <2>1 DEF Directs
  <2>3. \A t \in Tables : Shown(w, t) = {} /\ Adopted(w, t) = {}
    BY <2>1 DEF Shown, Adopted, RowsAt, CurrentPointers, NoPointers
  <2>4. \A t \in Tables, r \in Row : r \notin InOrder(w, plan[w].direct, t, Adopted(w, t))
    BY <2>1, <2>3 DEF InOrder
  <2>5. DOMAIN plan[w].intents = {}
    BY <2>1
  <2>6. Settled(w)
    BY <2>3, <2>4, <2>5 DEF Settled, SettledAt
  <2> QED BY <2>2, <2>6
<1> QED BY <1>1, <1>4, <1>5 DEF SInv, WInv

\* Every step keeps every transaction settled.
LEMMA NextSettles == WInv /\ [Next]_vars => WInv'
<1> SUFFICES ASSUME WInv, [Next]_vars PROVE WInv'
  OBVIOUS
<1>1. IInv' /\ LInv' /\ Shape /\ Shape' /\ Grows
  BY NextInv, NextLedger, NextShape, StepGrows DEF WInv, LInv
<1>2. \A v \in Writers : Settling(v) /\ Untouched(v)
  BY DEF WInv, Settling, IInv, WriterInv
<1>3. CASE UNCHANGED vars
  <2>1. UNCHANGED <<pc, catalog, plan, loop>>
    BY <1>3 DEF vars
  <2>2. \A v \in Writers : Settling(v)'
    BY <1>1, <1>2, <2>1, SettlingOfOthers
  <2> QED BY <1>1, <2>2 DEF WInv, Settling
<1>4. ASSUME NEW w \in Writers, Caller(w) \/ Commit(w) \/ StorageFault(w) \/ AnswerLost(w)
      PROVE  WInv'
  <2>1. Settling(w)'
    BY <1>1, <1>2, <1>4, CallerSettles, CommitSettles
  <2>2. ASSUME NEW v \in Writers, v # w PROVE Settling(v)'
    <3>1. StepOf(w)
      BY <1>1, <1>4, CallerForms, CommitForms
    <3>2. catalog'[v] = catalog[v] /\ plan'[v] = plan[v] /\ loop'[v] = loop[v] /\ pc'[v] = pc[v]
      BY <2>2, <3>1 DEF StepOf, OwnStep
    <3> QED BY <1>1, <1>2, <3>2, SettlingOfOthers
  <2> QED BY <1>1, <2>1, <2>2 DEF WInv, Settling
<1> QED BY <1>3, <1>4 DEF Next, Terminated

\* Every step keeps what is published serial, as long as the tips are still.
LEMMA NextSerial == SInv /\ [Next]_vars /\ [Still]_vars => SInv'
<1> SUFFICES ASSUME SInv, [Next]_vars, [Still]_vars PROVE SInv'
  OBVIOUS
<1>1. DInv' /\ WInv' /\ Shape /\ Shape' /\ Grows
  BY NextLineage, NextSettles, NextShape, StepGrows DEF SInv, WInv, LInv
<1>2. CASE UNCHANGED vars
  <2>1. UNCHANGED <<snaps, plan>>
    BY <1>2 DEF vars
  <2>2. ASSUME NEW i \in DOMAIN snaps, i # 1 PROVE SerialAt(i)'
    <3>1. SerialAt(i) /\ snaps[i].parent \in DOMAIN snaps
      BY <2>2 DEF SInv, DInv, SerialSnaps, SerialAt, Descents
    <3> QED BY <1>1, <2>1, <3>1, SerialStays
  <2>3. SerialSnaps'
    BY <2>1, <2>2 DEF SerialSnaps, SerialAt
  <2> QED BY <1>1, <2>3 DEF SInv
<1>3. ASSUME NEW w \in Writers, Caller(w) \/ Commit(w) \/ StorageFault(w) \/ AnswerLost(w)
      PROVE  SInv'
  <2>1. StepOf(w)
    BY <1>1, <1>3, CallerForms, CommitForms
  <2>2. UNCHANGED snaps \/ (Landed(w) /\ AllApplied(w) /\ AtTip(w))
    <3>1. CASE Caller(w)
      BY <3>1 DEF Caller, Open, RefuseSession, CreateTable, AppendRows, RemoveRows, WriteChunk,
                  Direct, BodyRaises, BeginCommit, Fail
    <3>2. CASE Publish(w) \/ AnswerLost(w)
      BY <3>2 DEF Publish, AnswerLost, Landed
    <3>3. CASE StorageFault(w) \/ (Commit(w) /\ ~Publish(w))
      BY <3>3 DEF StorageFault, Commit, ApplyIntent, ApplyNothing, ApplyMissing, RefuseEmpty,
                  Conflict, Exhausted, RefuseUncovered, RefuseRemoval, Adopt, Rebase, RebaseFails, Fail
    <3> QED BY <1>3, <3>1, <3>2, <3>3
  <2>3. SerialSnaps'
    BY <1>1, <2>1, <2>2, SnapsStaySerial
  <2> QED BY <1>1, <2>3 DEF SInv
<1> QED BY <1>2, <1>3 DEF Next, Terminated

\* Serial snapshots are PublishedIsSerial.
LEMMA SerialIsPublished == SInv => PublishedIsSerial
<1> SUFFICES ASSUME SInv, NEW i \in 2..Len(snaps), NEW t \in Tables
             PROVE  RowsAt(snaps[i].pointers, t) =
                        Serially(snaps[i].by, t, RowsAt(snaps[snaps[i].parent].pointers, t))
  BY DEF PublishedIsSerial
<1>1. snaps \in Seq(Snapshot)
  BY DEF SInv, DInv, LInv, Shape, TypeOK
<1>2. i \in DOMAIN snaps /\ i # 1
  BY <1>1
<1> QED BY <1>2 DEF SInv, SerialSnaps

\* Serializability: unless a commit lands between the two reads of the branch tip in
\* _recover, the rows of every commit are those its transaction's operations - the
\* direct ones on tx.catalog first, then the intents - make of the parent commit's
\* rows, run alone and in order: whatever was staged and dropped, replayed, failed and
\* called again on the way there.
THEOREM TransactionsAreSerial == Spec /\ TipStill => []PublishedIsSerial
BY InitSerial, NextSerial, SerialIsPublished, PTL DEF Spec, TipStill

\* Between two writers nothing can land there, and every commit is serial.
THEOREM TwoWritersAreSerial ==
    ASSUME AtMostTwo
    PROVE  Spec => []PublishedIsSerial
<1>1. LInv /\ [Next]_vars => [Still]_vars
  BY TwoKeepStill
<1> QED BY <1>1, InitLedger, NextLedger, InitSerial, NextSerial, SerialIsPublished, PTL DEF Spec

(***************************************************************************)
(* A transaction is refused as empty only if it is.                        *)
(***************************************************************************)

\* commit() is called once.
OneCall == MaxCalls = 1

\* Only a transaction that staged nothing and wrote nothing, on the first attempt of
\* the call, is refused as empty.
LEMMA EmptyIsEmpty ==
    ASSUME NEW w \in Writers, ~Trying(w)
    PROVE  StagedTables(catalog[w]) = {} /\ ~ArrayChanges(w) /\ loop[w].attempt = 0
BY DEF Trying, AllowEmpty, NothingToPublish

\* What it asked for then changes nothing of what it started from.
LEMMA RefusedChangesNothing ==
    ASSUME Shape, NEW w \in Writers, Settled(w), Carrying(w), AllApplied(w), ~Trying(w),
           catalog[w].pointers = Start(w)
    PROVE  /\ plan[w].chunks = {}
           /\ \A t \in Tables : Serially(w, t, RowsAt(Start(w), t)) = RowsAt(Start(w), t)
<1>1. StagedTables(catalog[w]) = {} /\ ~ArrayChanges(w)
  BY EmptyIsEmpty
<1>2. plan[w].chunks = {}
  BY <1>1 DEF Carrying, AllApplied, ArrayChanges
<1>3. ASSUME NEW t \in Tables
      PROVE  Serially(w, t, RowsAt(Start(w), t)) = RowsAt(Start(w), t)
  <2>1. PICK rows : rows = Adopted(w, t)
    OBVIOUS
  <2>2. rows = RowsAt(Start(w), t)
    BY <2>1 DEF Adopted
  <2>3. Shown(w, t) = rows
    BY <1>1, <2>1 DEF Shown, Adopted, RowsAt, CurrentPointers, StagedTables
  <2>4. rows \subseteq Row
    BY <2>1, RowsAreRows DEF Adopted, Shape, Refs
  <2>5. Serially(w, t, rows) \subseteq Row
    BY DEF Serially, InOrder
  <2>6. \A r \in Row : r \in Shown(w, t) <=> r \in Serially(w, t, rows)
    BY <2>1, ShownIsSerial
  <2>7. Serially(w, t, rows) = rows
    BY <2>3, <2>4, <2>5, <2>6
  <2> QED BY <2>2, <2>7
<1> QED BY <1>2, <1>3

\* A transaction whose call, error, operations and pointers stay keeps it.
LEMMA StartingStays ==
    ASSUME Shape, Grows, NEW v \in Writers, Starting(v), UNCHANGED <<catalog[v].pointers>>,
           plan'[v] = plan[v], loop'[v] = loop[v],
           \/ pc'[v] = pc[v]
           \/ pc[v] = "apply" /\ pc'[v] \in {"recover", "committed"}
    PROVE  Starting(v)'
<1>1. Start(v)' = Start(v) /\ \A t \in Tables : RowsAt(Start(v), t)' = RowsAt(Start(v), t)
  BY RowsKept
<1>2. ASSUME NEW t \in Tables
      PROVE  Serially(v, t, RowsAt(Start(v), t))' = Serially(v, t, RowsAt(Start(v), t))
  BY <1>1, <1>2, ZenonT(40) DEF Serially, InOrder, Gives, Takes, DataRows
<1>3. loop[v].err = "no changes" => pc'[v] = "failed"
  BY DEF Starting
<1>4. /\ pc'[v] \in {"apply", "recover", "rebase"} => loop'[v].calls >= 1
      /\ (pc'[v] = "failed" /\ v \notin Managed /\ loop'[v].err \notin {"session branch", "answer lost"}
             => loop'[v].calls >= 1)
      /\ (pc'[v] = "apply" /\ loop'[v].attempt = 0 => catalog'[v].pointers = Start(v)')
  BY <1>1 DEF Starting
<1>5. loop'[v].err = "no changes" =>
          /\ pc'[v] = "failed" /\ plan'[v].chunks = {}
          /\ \A t \in Tables : Serially(v, t, RowsAt(Start(v), t))' = RowsAt(Start(v), t)'
  BY <1>1, <1>2, <1>3 DEF Starting
<1> QED BY <1>4, <1>5 DEF Starting

\* A transaction that is not at an end has not been refused; one that begins or goes
\* on keeps it, and one that raises another error does.
LEMMA StartingOn ==
    ASSUME NEW w \in Writers, loop'[w].err # "no changes",
           pc'[w] \in {"apply", "recover", "rebase"} => loop'[w].calls >= 1,
           pc'[w] = "failed" =>
               \/ w \in Managed \/ loop'[w].err \in {"session branch", "answer lost"}
               \/ loop'[w].calls >= 1,
           pc'[w] = "apply" /\ loop'[w].attempt = 0 => catalog'[w].pointers = Start(w)'
    PROVE  Starting(w)'
BY DEF Starting

\* Any other error keeps it: a call was made, or the transaction is a context manager.
LEMMA FailStarts ==
    ASSUME Shape, NEW w \in Writers, Starting(w), NEW err, Fail(w, err), err # "no changes",
           \/ pc[w] \in {"apply", "recover", "rebase"}
           \/ w \in Managed
           \/ err = "session branch"
    PROVE  Starting(w)'
<1>1. pc \in [Writers -> Phases] /\ loop \in [Writers -> Loop]
  BY DEF Shape, TypeOK
<1>2. pc'[w] = "failed" /\ loop'[w].err = err /\ loop'[w].calls = loop[w].calls
  BY <1>1 DEF Fail, Loop
<1>3. pc[w] \in {"apply", "recover", "rebase"} => loop[w].calls >= 1
  BY DEF Starting
<1> QED BY <1>2, <1>3, StartingOn

\* The caller's steps keep it: there is no second call.
LEMMA CallerStarts ==
    ASSUME OneCall, Shape, NEW w \in Writers, Untouched(w), Starting(w), Caller(w)
    PROVE  Starting(w)'
<1>a. /\ pc \in [Writers -> Phases] /\ catalog \in [Writers -> Catalog]
      /\ plan \in [Writers -> Plan] /\ loop \in [Writers -> Loop]
  BY DEF Shape, TypeOK
<1>b. pc[w] # "failed" => loop[w].err # "no changes"
  BY DEF Starting
<1>c. ASSUME pc'[w] = "open", loop'[w].err = loop[w].err, pc[w] # "failed" PROVE Starting(w)'
  BY <1>b, <1>c, StartingOn
<1>1. ASSUME NEW b \in Branches, NEW sb \in Branches, Open(w, b, sb) PROVE Starting(w)'
  <2>1. pc[w] = "idle" /\ pc'[w] = "open" /\ UNCHANGED loop
    BY <1>1, <1>a DEF Open
  <2> QED BY <1>c, <2>1
<1>2. ASSUME NEW b \in Branches, NEW sb \in Branches, RefuseSession(w, b, sb) PROVE Starting(w)'
  BY <1>2, FailStarts DEF RefuseSession
<1>3. ASSUME NEW op \in Ops, CreateTable(w, op) \/ AppendRows(w, op) \/ RemoveRows(w, op)
      PROVE  Starting(w)'
  <2>1. pc[w] = "open" /\ UNCHANGED <<pc, loop>>
    BY <1>3 DEF CreateTable, AppendRows, RemoveRows, MayRecord
  <2> QED BY <1>c, <2>1
<1>4. ASSUME NEW c \in Chunks, WriteChunk(w, c) PROVE Starting(w)'
  <2>1. pc[w] = "open" /\ UNCHANGED <<pc, loop>>
    BY <1>4 DEF WriteChunk
  <2> QED BY <1>c, <2>1
<1>5. ASSUME NEW op \in DirectOps, Direct(w, op) PROVE Starting(w)'
  <2>1. pc[w] = "open" /\ UNCHANGED <<pc, loop>>
    BY <1>5 DEF Direct
  <2> QED BY <1>c, <2>1
<1>6. CASE BodyRaises(w)
  BY <1>6, FailStarts DEF BodyRaises
<1>7. CASE BeginCommit(w)
  <2>1. /\ UNCHANGED <<snaps, catalog, plan>> /\ loop[w].calls < 1
        /\ \/ pc[w] = "open"
           \/ pc[w] = "failed" /\ w \notin Managed /\ loop[w].err \notin {"session branch", "answer lost"}
    BY <1>7 DEF BeginCommit, OneCall
  <2>2. loop[w].calls \in Nat
    BY <1>a, BoundAssumption DEF Loop
  <2>a. pc[w] = "failed" /\ w \notin Managed /\ loop[w].err \notin {"session branch", "answer lost"}
            => loop[w].calls >= 1
    BY DEF Starting
  <2>b. \A n \in Nat : n < 1 => ~(n >= 1)
    OBVIOUS
  <2>3. pc[w] = "open"
    BY <2>1, <2>2, <2>a, <2>b
  <2>4. pc'[w] = "apply" /\ loop'[w].err = "none" /\ loop'[w].calls = loop[w].calls + 1
    BY <1>7, <1>a DEF BeginCommit
  <2>5. catalog'[w].pointers = Start(w)'
    BY <2>1, <2>3 DEF Untouched, Start
  <2>6. loop'[w].calls >= 1
    BY <2>2, <2>4
  <2> QED BY <2>4, <2>5, <2>6, StartingOn
<1> QED BY <1>1, <1>2, <1>3, <1>4, <1>5, <1>6, <1>7 DEF Caller

\* So do the steps of a running commit().
LEMMA CommitStarts ==
    ASSUME Shape, Grows, NEW w \in Writers, Settled(w), Carrying(w), Starting(w),
           Commit(w) \/ StorageFault(w) \/ AnswerLost(w)
    PROVE  Starting(w)'
<1>a. /\ pc \in [Writers -> Phases] /\ catalog \in [Writers -> Catalog]
      /\ plan \in [Writers -> Plan] /\ loop \in [Writers -> Loop]
  BY DEF Shape, TypeOK
<1>b. /\ pc[w] # "failed" => loop[w].err # "no changes"
      /\ pc[w] \in {"apply", "recover", "rebase"} => loop[w].calls >= 1
      /\ (pc[w] = "apply" /\ loop[w].attempt = 0 => catalog[w].pointers = Start(w))
  BY DEF Starting
<1>1. CASE ApplyIntent(w) \/ ApplyNothing(w)
  <2>1. pc[w] = "apply" /\ UNCHANGED <<snaps, pc, plan>>
    BY <1>1 DEF ApplyIntent, ApplyNothing, Applying
  <2>2. loop' = [loop EXCEPT ![w].next = @ + 1]
    BY <1>1 DEF ApplyIntent, ApplyNothing
  <2>3. loop'[w].err = loop[w].err /\ loop'[w].calls = loop[w].calls /\ loop'[w].attempt = loop[w].attempt
    BY <1>a, <2>2 DEF Loop
  <2>4. catalog'[w].pointers = catalog[w].pointers
    BY <1>1, <1>a DEF ApplyIntent, ApplyNothing, Stage
  <2>5. Start(w)' = Start(w)
    BY <2>1 DEF Start
  <2> QED BY <1>b, <2>1, <2>3, <2>4, <2>5, StartingOn
<1>2. CASE RefuseEmpty(w)
  <2>1. AllApplied(w) /\ ~Trying(w) /\ pc[w] = "apply" /\ Fail(w, "no changes")
    BY <1>2 DEF RefuseEmpty, AllApplied
  <2>2. UNCHANGED <<snaps, warehouse, catalog, plan>>
    BY <2>1 DEF Fail
  <2>3. pc'[w] = "failed" /\ loop'[w].calls = loop[w].calls
    BY <1>a, <2>1 DEF Fail, Loop
  <2>4. catalog[w].pointers = Start(w)
    BY <1>b, <2>1, EmptyIsEmpty
  <2>5. /\ plan[w].chunks = {}
        /\ \A t \in Tables : Serially(w, t, RowsAt(Start(w), t)) = RowsAt(Start(w), t)
    BY <2>1, <2>4, RefusedChangesNothing
  <2>6. Start(w)' = Start(w) /\ \A t \in Tables : RowsAt(Start(w), t)' = RowsAt(Start(w), t)
    BY <2>2, RowsKept
  <2>7. ASSUME NEW t \in Tables
        PROVE  Serially(w, t, RowsAt(Start(w), t))' = Serially(w, t, RowsAt(Start(w), t))
    BY <2>2, <2>6, <2>7, ZenonT(40) DEF Serially, InOrder, Gives, Takes, DataRows
  <2> QED BY <1>b, <2>1, <2>2, <2>3, <2>5, <2>6, <2>7 DEF Starting
<1>3. CASE ApplyMissing(w) \/ Exhausted(w) \/ StorageFault(w)
  BY <1>3, FailStarts DEF ApplyMissing, Exhausted, StorageFault, Applying, AllApplied
<1>4. CASE RefuseUncovered(w) \/ RefuseRemoval(w) \/ RebaseFails(w)
  BY <1>4, FailStarts DEF RefuseUncovered, RefuseRemoval, RebaseFails
<1>5. CASE Conflict(w) \/ Publish(w)
  <2>1. pc[w] = "apply" /\ pc'[w] \in {"recover", "committed"} /\ UNCHANGED <<catalog, plan, loop>>
    BY <1>5, <1>a DEF Conflict, Publish, AllApplied
  <2> QED BY <2>1, StartingStays
<1>6. CASE Adopt(w)
  <2>1. pc[w] = "recover" /\ pc'[w] = "rebase" /\ UNCHANGED loop
    BY <1>6, <1>a DEF Adopt
  <2> QED BY <1>b, <2>1, StartingOn
<1>7. CASE Rebase(w)
  <2>1. pc[w] = "rebase" /\ pc'[w] = "apply"
    BY <1>7, <1>a DEF Rebase
  <2>2. loop'[w].attempt = loop[w].attempt + 1 /\ loop'[w].calls = loop[w].calls
        /\ loop'[w].err = loop[w].err
    BY <1>7, <1>a DEF Rebase, Loop
  <2>3. loop'[w].attempt # 0
    BY <1>a, <2>2, BoundAssumption DEF Loop
  <2> QED BY <1>b, <2>1, <2>2, <2>3, StartingOn
<1>8. CASE AnswerLost(w)
  <2>1. loop' = [loop EXCEPT ![w].err = "answer lost"] /\ pc' = [pc EXCEPT ![w] = "failed"]
    BY <1>8 DEF AnswerLost
  <2>2. pc'[w] = "failed" /\ loop'[w].err = "answer lost"
    BY <1>a, <2>1 DEF Loop
  <2> QED BY <2>2, StartingOn
<1> QED BY <1>1, <1>2, <1>3, <1>4, <1>5, <1>6, <1>7, <1>8 DEF Commit

\* Nothing was refused at the start.
LEMMA InitStarts == Init => EInv
<1> SUFFICES ASSUME Init PROVE EInv
  OBVIOUS
<1>1. WInv
  BY InitSerial DEF SInv
<1>2. \A w \in Writers : pc[w] = "idle" /\ loop[w].err = "none"
  BY DEF Init
<1> QED BY <1>1, <1>2 DEF EInv, Starting

\* Every step keeps it.
LEMMA NextStarts ==
    ASSUME OneCall
    PROVE  EInv /\ [Next]_vars => EInv'
<1> SUFFICES ASSUME EInv, [Next]_vars PROVE EInv'
  OBVIOUS
<1>1. WInv' /\ Shape /\ Grows
  BY NextSettles, StepGrows DEF EInv, WInv, LInv
<1>2. \A v \in Writers : Settled(v) /\ Untouched(v) /\ Carrying(v) /\ Starting(v)
  BY DEF EInv, WInv, IInv, WriterInv, LInv, Ledger
<1>3. CASE UNCHANGED vars
  <2>1. UNCHANGED <<pc, catalog, plan, loop>>
    BY <1>3 DEF vars
  <2>2. \A v \in Writers : Starting(v)'
    BY <1>1, <1>2, <2>1, StartingStays
  <2> QED BY <1>1, <2>2 DEF EInv
<1>4. ASSUME NEW w \in Writers, Caller(w) \/ Commit(w) \/ StorageFault(w) \/ AnswerLost(w)
      PROVE  EInv'
  <2>1. Starting(w)'
    BY <1>1, <1>2, <1>4, CallerStarts, CommitStarts
  <2>2. ASSUME NEW v \in Writers, v # w PROVE Starting(v)'
    <3>1. StepOf(w)
      BY <1>1, <1>4, CallerForms, CommitForms
    <3>2. catalog'[v] = catalog[v] /\ plan'[v] = plan[v] /\ loop'[v] = loop[v] /\ pc'[v] = pc[v]
      BY <2>2, <3>1 DEF StepOf, OwnStep
    <3> QED BY <1>1, <1>2, <3>2, StartingStays
  <2> QED BY <1>1, <2>1, <2>2 DEF EInv
<1> QED BY <1>3, <1>4 DEF Next, Terminated

\* What a refused transaction asked for is nothing.
LEMMA RefusedIsEmpty == EInv => RefusedOnlyIfEmpty
BY DEF EInv, Starting, RefusedOnlyIfEmpty, Start

\* A transaction whose commit() is called once is refused as empty only if it wrote no
\* chunk and none of its operations changes a row of the tables as they were when it
\* started - never because a winner left its replay nothing to do.
THEOREM RefusalsAreDeserved ==
    ASSUME OneCall
    PROVE  Spec => []RefusedOnlyIfEmpty
<1>1. EInv /\ [Next]_vars => EInv'
  BY NextStarts
<1> QED BY <1>1, InitStarts, RefusedIsEmpty, PTL DEF Spec

(***************************************************************************)
(* A row is appended no more often than it was asked for.                  *)
(***************************************************************************)

\* At most n.
Few(S, n) == IsFiniteSet(S) /\ Cardinality(S) <= n

\* The data files of a table that hold a row.
Copies(p, t, r) == IF p[t] = Nil THEN {} ELSE {f \in warehouse[p[t]].files : r \in f.rows}

\* The operations of a transaction, direct ones first, and those up to the n-th intent
\* that asked for a key.
AllOps(w) == plan[w].direct \o plan[w].intents
Requests(w, n, k) ==
    {i \in DOMAIN AllOps(w) : i < Len(plan[w].direct) + n /\ k \in AllOps(w)[i].data}

\* What a transaction would publish has a row of its own no more often than the
\* operations applied so far asked for it, and a row of another's no more often than
\* that one did.
Counting(w) ==
    pc[w] \in {"open", "apply", "rebase"} =>
        \A t \in Tables, r \in Row :
            Few(Copies(CurrentPointers(catalog[w]), t, r),
                IF r.by = w THEN Cardinality(Requests(w, Applied(w), r.key)) ELSE Asked(r))

Counted ==
    \A i \in DOMAIN snaps : \A t \in Tables, r \in Row :
        Few(Copies(snaps[i].pointers, t, r), Asked(r))

AInv == EInv /\ Counted /\ \A w \in Writers : Counting(w)

(***************************************************************************)
(* Counting.                                                               *)
(***************************************************************************)

\* What a rewrite leaves of a version's copies is no more than they were.
LEMMA FewLeft ==
    ASSUME NEW S, NEW n \in Nat, Few(S, n), NEW f, NEW T, T \subseteq {f[x] : x \in S}
    PROVE  Few(T, n)
<1> DEFINE R == {f[x] : x \in S}
           g == [x \in S |-> f[x]]
<1>1. g \in Surjection(S, R)
  BY DEF Surjection
<1>2. IsFiniteSet(R) /\ Cardinality(R) <= Cardinality(S)
  BY <1>1, FS_Surjection DEF Few
<1> HIDE DEF R, g
<1>3. IsFiniteSet(T) /\ Cardinality(T) <= Cardinality(R)
  BY <1>2, FS_Subset DEF R
<1>4. Cardinality(T) \in Nat /\ Cardinality(R) \in Nat /\ Cardinality(S) \in Nat
  BY <1>2, <1>3, FS_CardinalityType DEF Few
<1> QED BY <1>2, <1>3, <1>4 DEF Few

\* One file more is one more at most.
LEMMA FewMore ==
    ASSUME NEW S, NEW n \in Nat, Few(S, n), NEW g, NEW T, T \subseteq S \cup {g}
    PROVE  Few(T, n + 1)
<1>1. IsFiniteSet(S \cup {g}) /\ Cardinality(S \cup {g}) =
          IF g \in S THEN Cardinality(S) ELSE Cardinality(S) + 1
  BY FS_AddElement DEF Few
<1>2. IsFiniteSet(T) /\ Cardinality(T) <= Cardinality(S \cup {g})
  BY <1>1, FS_Subset
<1>3. Cardinality(T) \in Nat /\ Cardinality(S) \in Nat
  BY <1>2, FS_CardinalityType DEF Few
<1>4. Cardinality(S \cup {g}) <= Cardinality(S) + 1 /\ Cardinality(S \cup {g}) \in Nat
  BY <1>1, <1>3
<1> QED BY <1>2, <1>3, <1>4 DEF Few

\* A bound may be raised, and nothing is within any bound.
LEMMA FewTrivial ==
    ASSUME NEW n \in Nat
    PROVE  /\ Few({}, n)
           /\ \A m \in Nat : \A S : m <= n /\ Few(S, m) => Few(S, n)
<1>1. Few({}, n)
  BY FS_EmptySet DEF Few
<1>2. ASSUME NEW m \in Nat, NEW S, m <= n, Few(S, m) PROVE Few(S, n)
  <2>1. Cardinality(S) \in Nat
    BY <1>2, FS_CardinalityType DEF Few
  <2> QED BY <1>2, <2>1 DEF Few
<1> QED BY <1>1, <1>2

\* An operation adds one file with a row it was given, and none with any other.
LEMMA ResultCopies ==
    ASSUME NEW w \in Writers, NEW op \in Op, NEW m \in Metadata, NEW id \in Loc, NEW r \in Row,
           NEW n \in Nat, Few({f \in m.files : r \in f.rows}, n)
    PROVE  LET new == {f \in Result(w, op, m, id).files : r \in f.rows} IN
           /\ Few(new, n + 1)
           /\ ~(r.by = w /\ r.key \in op.data) => Few(new, n)
<1> DEFINE old  == {f \in m.files : r \in f.rows}
           left == (m.files \ Touched(m, op.pred)) \cup Rewrites(m, op.pred)
           rest == {f \in left : r \in f.rows}
           cut  == [f \in old |-> IF f \in Touched(m, op.pred)
                                  THEN [orig |-> f.orig, rows |-> f.rows \ Matching(f.rows, op.pred)]
                                  ELSE f]
           new  == {f \in Result(w, op, m, id).files : r \in f.rows}
<1>1. ASSUME NEW f \in rest PROVE f \in {cut[x] : x \in old}
  <2>1. CASE f \in m.files \ Touched(m, op.pred)
    <3>1. f \in old /\ cut[f] = f
      BY <2>1
    <3> HIDE DEF cut, old
    <3> QED BY <3>1
  <2>2. CASE f \in Rewrites(m, op.pred)
    <3>1. PICK e \in Touched(m, op.pred) :
              f = [orig |-> e.orig, rows |-> e.rows \ Matching(e.rows, op.pred)]
      BY <2>2 DEF Rewrites
    <3>2. r \in e.rows /\ e \in m.files
      BY <3>1 DEF Touched
    <3>3. e \in old /\ cut[e] = f
      BY <3>1, <3>2
    <3> HIDE DEF cut, old
    <3> QED BY <3>3
  <2> QED BY <2>1, <2>2
<1>2. Few(rest, n)
  <2>1. rest \subseteq {cut[x] : x \in old}
    BY <1>1
  <2>2. Few(old, n)
    OBVIOUS
  <2> HIDE DEF cut, rest, old
  <2> QED BY <2>1, <2>2, FewLeft
<1>3. Few(old, n)
  OBVIOUS
<1>4. PICK g : g = [orig |-> id, rows |-> DataRows(w, op)]
  OBVIOUS
<1>5. g.rows = DataRows(w, op)
  BY <1>4
<1>6. r \in DataRows(w, op) => r.by = w /\ r.key \in op.data
  BY DEF DataRows
<1>7. \/ new = {}
      \/ new \subseteq rest
      \/ new \subseteq old \cup {g} /\ (g \in new => r \in DataRows(w, op))
      \/ new \subseteq rest \cup {g} /\ (g \in new => r \in DataRows(w, op))
  <2>1. CASE op.kind = "create"
    BY <2>1 DEF Result, NewTable
  <2>2. CASE op.kind = "append"
    <3>1. Result(w, op, m, id).files = m.files \cup {g}
      BY <1>4, <2>2 DEF Result, Appended, WithSnapshot
    <3> QED BY <1>5, <3>1
  <2>3. CASE op.kind = "delete"
    <3>1. Result(w, op, m, id).files = left
      BY <2>3 DEF Result, Deleted, WithSnapshot
    <3> HIDE DEF left
    <3> QED BY <3>1
  <2>4. CASE op.kind = "overwrite"
    <3>1. Result(w, op, m, id).files = left \cup {g}
      BY <1>4, <2>4 DEF Result, Overwritten, WithSnapshot
    <3> HIDE DEF left
    <3> QED BY <1>5, <3>1
  <2> QED BY <2>1, <2>2, <2>3, <2>4 DEF Op, Kinds
<1>8. \A S : Few(S, n) => Few(S, n + 1)
  BY FewTrivial
<1> HIDE DEF new, rest, old
<1>9. \A S : Few(S, n) /\ new \subseteq S => Few(new, n) /\ Few(new, n + 1)
  BY <1>8, FewTrivial, FS_Subset, FS_CardinalityType DEF Few
<1>10. CASE new = {}
  BY <1>10, FewTrivial DEF new
<1>11. CASE new \subseteq rest
  BY <1>2, <1>9, <1>11 DEF new
<1>12. ASSUME NEW S, Few(S, n), new \subseteq S \cup {g}, g \in new => r \in DataRows(w, op)
       PROVE  Few(new, n + 1) /\ (~(r.by = w /\ r.key \in op.data) => Few(new, n))
  <2>1. Few(new, n + 1)
    BY <1>12, FewMore
  <2>2. ~(r.by = w /\ r.key \in op.data) => new \subseteq S
    BY <1>6, <1>12
  <2> QED BY <1>9, <1>12, <2>1, <2>2
<1> QED BY <1>2, <1>3, <1>7, <1>10, <1>11, <1>12 DEF new


\* Direct work comes before the intents.
LEMMA Places ==
    ASSUME Shape, NEW w \in Writers
    PROVE  /\ AllOps(w) \in Seq(Op) /\ Len(plan[w].direct) \in Nat
           /\ \A i \in 1..Len(plan[w].direct) :
                 i \in DOMAIN AllOps(w) /\ AllOps(w)[i] = plan[w].direct[i]
           /\ \A i \in DOMAIN plan[w].intents :
                 /\ i \in Nat /\ Len(plan[w].direct) + i \in DOMAIN AllOps(w)
                 /\ AllOps(w)[Len(plan[w].direct) + i] = plan[w].intents[i]
<1>1. plan[w].direct \in Seq(Op) /\ plan[w].intents \in Seq(Op)
  BY DEF Shape, TypeOK, Plan
<1>2. PICK p \in Seq(Op) : p = plan[w].direct
  BY <1>1
<1>3. PICK q \in Seq(Op) : q = plan[w].intents
  BY <1>1
<1>4. /\ p \o q \in Seq(Op) /\ Len(p) \in Nat
      /\ \A i \in 1..Len(p) : i \in DOMAIN (p \o q) /\ (p \o q)[i] = p[i]
      /\ \A i \in DOMAIN q : /\ i \in Nat /\ Len(p) + i \in DOMAIN (p \o q)
                             /\ (p \o q)[Len(p) + i] = q[i]
  OBVIOUS
<1>5. AllOps(w) = p \o q
  BY <1>2, <1>3 DEF AllOps
<1> QED BY <1>2, <1>3, <1>4, <1>5, Zenon

\* Requests are finitely many, and a part of those Asked counts.
LEMMA RequestsCount ==
    ASSUME Shape, NEW w \in Writers, NEW n, NEW k
    PROVE  /\ IsFiniteSet(Requests(w, n, k)) /\ Cardinality(Requests(w, n, k)) \in Nat
           /\ \A r \in Row : Asked(r) \in Nat
           /\ \A r \in Row : r.by = w => Cardinality(Requests(w, n, r.key)) <= Asked(r)
<1>1. ASSUME NEW v \in Writers, NEW S, S \subseteq DOMAIN AllOps(v)
      PROVE  /\ IsFiniteSet(S) /\ Cardinality(S) \in Nat
             /\ \A T : T \subseteq S => Cardinality(T) <= Cardinality(S)
  <2>1. AllOps(v) \in Seq(Op)
    BY Places
  <2>2. PICK m \in Nat : DOMAIN AllOps(v) = 1..m
    BY <2>1
  <2>3. IsFiniteSet(DOMAIN AllOps(v))
    BY <2>2, FS_Interval
  <2> QED BY <1>1, <2>3, FS_Subset, FS_CardinalityType
<1>2. IsFiniteSet(Requests(w, n, k)) /\ Cardinality(Requests(w, n, k)) \in Nat
  BY <1>1 DEF Requests
<1>3. \A r \in Row : r.by # Seeder =>
          Asked(r) = Cardinality({i \in DOMAIN AllOps(r.by) : r.key \in AllOps(r.by)[i].data})
  BY DEF Asked, AllOps
<1>4. ASSUME NEW r \in Row, r.by # Seeder PROVE Asked(r) \in Nat
  <2>1. r.by \in Writers
    BY <1>4 DEF Row, Authors
  <2>2. {i \in DOMAIN AllOps(r.by) : r.key \in AllOps(r.by)[i].data} \subseteq DOMAIN AllOps(r.by)
    OBVIOUS
  <2> QED BY <1>1, <1>3, <1>4, <2>1, <2>2
<1>5. \A r \in Row : Asked(r) \in Nat
  BY <1>4 DEF Asked
<1>6. ASSUME NEW r \in Row, r.by = w PROVE Cardinality(Requests(w, n, r.key)) <= Asked(r)
  <2>1. PICK S : S = {i \in DOMAIN AllOps(w) : r.key \in AllOps(w)[i].data}
    OBVIOUS
  <2>2. Asked(r) = Cardinality(S)
    BY <1>3, <1>6, <2>1, WriterAssumption
  <2>3. Requests(w, n, r.key) \subseteq S /\ S \subseteq DOMAIN AllOps(w)
    BY <2>1 DEF Requests
  <2> QED BY <1>1, <2>2, <2>3
<1> QED BY <1>2, <1>5, <1>6

\* A row is asked for a number of times.
LEMMA AskedIsNumber == Shape => \A r \in Row : Asked(r) \in Nat
<1> SUFFICES ASSUME Shape, NEW r \in Row PROVE Asked(r) \in Nat
  OBVIOUS
<1>1. CASE r.by = Seeder
  BY <1>1 DEF Asked
<1>2. CASE r.by # Seeder
  <2>1. r.by \in Writers
    BY <1>2 DEF Row, Authors
  <2> QED BY <2>1, RequestsCount
<1> QED BY <1>1, <1>2

\* One more intent is one more request if it asks for the key.
LEMMA RequestsNext ==
    ASSUME Shape, NEW w \in Writers, NEW n \in DOMAIN plan[w].intents, NEW k
    PROVE  Cardinality(Requests(w, n + 1, k)) =
               Cardinality(Requests(w, n, k)) + IF k \in plan[w].intents[n].data THEN 1 ELSE 0
<1>1. PICK d : d = Len(plan[w].direct)
  OBVIOUS
<1>2. /\ d \in Nat /\ n \in Nat /\ d + n \in DOMAIN AllOps(w)
      /\ AllOps(w)[d + n] = plan[w].intents[n] /\ DOMAIN AllOps(w) \subseteq Nat
  BY <1>1, Places
<1>3. \A i \in Nat : i < d + (n + 1) <=> i < d + n \/ i = d + n
  BY <1>2
<1>4. \A m : Requests(w, m, k) = {i \in DOMAIN AllOps(w) : i < d + m /\ k \in AllOps(w)[i].data}
  BY <1>1 DEF Requests
<1>5. d + n \notin Requests(w, n, k)
  BY <1>2, <1>4
<1>6. IsFiniteSet(Requests(w, n, k)) /\ Cardinality(Requests(w, n, k)) \in Nat
  BY RequestsCount
<1>7. CASE k \in plan[w].intents[n].data
  <2>1. Requests(w, n + 1, k) = Requests(w, n, k) \cup {d + n}
    BY <1>2, <1>3, <1>4, <1>7
  <2> QED BY <1>5, <1>6, <1>7, <2>1, FS_AddElement
<1>8. CASE k \notin plan[w].intents[n].data
  <2>1. Requests(w, n + 1, k) = Requests(w, n, k)
    BY <1>2, <1>3, <1>4, <1>8
  <2> QED BY <1>6, <1>8, <2>1
<1> QED BY <1>7, <1>8

\* Before the first intent the requests are those of the direct work.
Requested ==
    \A v \in Writers : \A n, k :
        /\ Cardinality(Requests(v, n, k)) \in Nat
        /\ Requests(v, 1, k) = {i \in 1..Len(plan[v].direct) : k \in plan[v].direct[i].data}

\* The requests of a transaction have this form.
LEMMA RequestsForm == Shape => Requested
<1> SUFFICES ASSUME Shape, NEW w \in Writers, NEW k
    PROVE  Requests(w, 1, k) = {i \in 1..Len(plan[w].direct) : k \in plan[w].direct[i].data}
  BY RequestsCount DEF Requested
<1>1. PICK d : d = Len(plan[w].direct)
  OBVIOUS
<1>2. /\ d \in Nat /\ AllOps(w) \in Seq(Op)
      /\ \A i \in 1..d : i \in DOMAIN AllOps(w) /\ AllOps(w)[i] = plan[w].direct[i]
  BY <1>1, Places
<1>3. \A i \in DOMAIN AllOps(w) : i < d + 1 <=> i \in 1..d
  BY <1>2
<1>4. Requests(w, 1, k) = {i \in DOMAIN AllOps(w) : i < d + 1 /\ k \in AllOps(w)[i].data}
  BY <1>1 DEF Requests
<1> QED BY <1>1, <1>2, <1>3, <1>4

(***************************************************************************)
(* Every step keeps the counts.                                            *)
(***************************************************************************)

\* No file that is pointed at changes.
LEMMA CopiesKept ==
    ASSUME Shape, Grows
    PROVE  /\ \A i \in DOMAIN snaps, t \in Tables, r \in Row :
                  Copies(snaps[i].pointers, t, r)' = Copies(snaps[i].pointers, t, r)
           /\ \A v \in Writers : SamePointers(v) => \A t \in Tables, r \in Row :
                  Copies(CurrentPointers(catalog[v]), t, r)' = Copies(CurrentPointers(catalog[v]), t, r)
<1>1. ASSUME NEW i \in DOMAIN snaps, NEW t \in Tables, NEW r \in Row
      PROVE  Copies(snaps[i].pointers, t, r)' = Copies(snaps[i].pointers, t, r)
  <2>1. snaps'[i] = snaps[i] /\ snaps[i].pointers[t] \in Written
    BY DEF Shape, Refs, Grows
  <2> QED BY <2>1 DEF Copies, Written, Grows
<1>2. ASSUME NEW v \in Writers, SamePointers(v), NEW t \in Tables, NEW r \in Row
      PROVE  Copies(CurrentPointers(catalog[v]), t, r)' = Copies(CurrentPointers(catalog[v]), t, r)
  <2>1. CurrentPointers(catalog[v])[t] \in Written
    BY CurrentPointersRefs
  <2>2. CurrentPointers(catalog'[v])[t] = CurrentPointers(catalog[v])[t]
    BY <1>2 DEF CurrentPointers, SamePointers
  <2> QED BY <2>1, <2>2 DEF Copies, Written, Grows
<1> QED BY <1>1, <1>2

\* What a row's author asked for changes only with its operations.
LEMMA AskedKept ==
    ASSUME NEW r \in Row, r.by # Seeder => UNCHANGED <<plan[r.by].direct, plan[r.by].intents>>
    PROVE  Asked(r)' = Asked(r)
BY DEF Asked

\* Of a transaction without a snapshot nobody else has a row.
LEMMA NoCopiesYet ==
    ASSUME LInv, NEW w \in Writers, Own(w) = {}, NEW r \in Row, r.by = w, NEW t \in Tables
    PROVE  /\ \A i \in DOMAIN snaps : Copies(snaps[i].pointers, t, r) = {}
           /\ \A v \in Writers : v # w => Copies(CurrentPointers(catalog[v]), t, r) = {}
<1>1. ~Published(r.by)
  BY DEF Own, Published
<1>2. ASSUME NEW i \in DOMAIN snaps PROVE Copies(snaps[i].pointers, t, r) = {}
  <2>1. r \notin RowsAt(snaps[i].pointers, t)
    BY <1>1 DEF LInv, Authorship
  <2> QED BY <2>1 DEF RowsAt, Rows, Copies
<1>3. ASSUME NEW v \in Writers, v # w PROVE Copies(CurrentPointers(catalog[v]), t, r) = {}
  <2>1. r \notin RowsAt(catalog[v].pointers, t) /\ r \notin RowsAt(catalog[v].staged, t)
    BY <1>1, <1>3 DEF LInv, Ledger, Provenance
  <2>2. \/ CurrentPointers(catalog[v])[t] = catalog[v].pointers[t]
        \/ CurrentPointers(catalog[v])[t] = catalog[v].staged[t]
    BY DEF CurrentPointers
  <2> QED BY <2>1, <2>2 DEF RowsAt, Rows, Copies
<1> QED BY <1>2, <1>3

\* The counts of snapshots and of the transactions that do not act stay.
LEMMA OthersCount ==
    ASSUME AInv, Shape', Grows, NEW w \in Writers, StepOf(w)
    PROVE  /\ \A i \in DOMAIN snaps, t \in Tables, r \in Row :
                  Few(Copies(snaps[i].pointers, t, r)', Asked(r)')
           /\ \A v \in Writers : v # w => Counting(v)'
<1>1. /\ Shape /\ LInv /\ Own(w) = {}
      /\ \A v \in Writers : v # w => /\ catalog'[v] = catalog[v] /\ plan'[v] = plan[v]
                                     /\ loop'[v] = loop[v] /\ pc'[v] = pc[v]
  BY ActingMadeNone DEF AInv, EInv, WInv, LInv, StepOf, OwnStep
<1>2. \A r \in Row : r.by # w => Asked(r)' = Asked(r)
  BY <1>1, AskedKept DEF Row, Authors
<1>3. \A r \in Row : Asked(r)' \in Nat
  <2>1. (\A r \in Row : Asked(r) \in Nat)'
    BY AskedIsNumber, PTL
  <2> QED BY <2>1
<1>4. ASSUME NEW i \in DOMAIN snaps, NEW t \in Tables, NEW r \in Row
      PROVE  Few(Copies(snaps[i].pointers, t, r)', Asked(r)')
  <2>1. Copies(snaps[i].pointers, t, r)' = Copies(snaps[i].pointers, t, r)
    BY <1>1, CopiesKept
  <2>2. CASE r.by = w
    BY <1>1, <1>3, <2>1, <2>2, NoCopiesYet, FewTrivial
  <2>3. CASE r.by # w
    BY <1>2, <2>1, <2>3 DEF AInv, Counted
  <2> QED BY <2>2, <2>3
<1>5. ASSUME NEW v \in Writers, v # w PROVE Counting(v)'
  <2> SUFFICES ASSUME pc'[v] \in {"open", "apply", "rebase"}, NEW t \in Tables, NEW r \in Row
               PROVE  Few(Copies(CurrentPointers(catalog[v]), t, r)',
                          IF r.by = v THEN Cardinality(Requests(v, Applied(v), r.key))'
                                      ELSE Asked(r)')
    BY DEF Counting
  <2>1. /\ Copies(CurrentPointers(catalog[v]), t, r)' = Copies(CurrentPointers(catalog[v]), t, r)
        /\ Requests(v, Applied(v), r.key)' = Requests(v, Applied(v), r.key)
    <3>1. Copies(CurrentPointers(catalog[v]), t, r)' = Copies(CurrentPointers(catalog[v]), t, r)
      BY <1>1, <1>5, CopiesKept DEF SamePointers
    <3>2. Requests(v, Applied(v), r.key)' = Requests(v, Applied(v), r.key)
      BY <1>1, <1>5 DEF Requests, AllOps, Applied
    <3> QED BY <3>1, <3>2
  <2>2. Few(Copies(CurrentPointers(catalog[v]), t, r),
            IF r.by = v THEN Cardinality(Requests(v, Applied(v), r.key)) ELSE Asked(r))
    BY <1>1, <1>5 DEF AInv, Counting
  <2>3. CASE r.by = w
    <3>1. Copies(CurrentPointers(catalog[v]), t, r)' = {} /\ r.by # v
      BY <1>1, <1>5, <2>1, <2>3, NoCopiesYet
    <3>2. Few({}, Asked(r)')
      BY <1>3, FewTrivial
    <3> QED BY <3>1, <3>2
  <2>4. CASE r.by # w
    BY <1>2, <2>1, <2>2, <2>4
  <2> QED BY <2>3, <2>4
<1> QED BY <1>4, <1>5

\* Staging an operation adds one copy at most of a row it was given.
LEMMA StageCopies ==
    ASSUME Shape, Grows, NEW w \in Writers, NEW op \in Op, Stage(w, op),
           NEW t \in Tables, NEW r \in Row, NEW n \in Nat,
           Few(Copies(CurrentPointers(catalog[w]), t, r), n)
    PROVE  /\ Few(Copies(CurrentPointers(catalog[w]), t, r)', n + 1)
           /\ ~(r.by = w /\ r.key \in op.data) =>
                 Few(Copies(CurrentPointers(catalog[w]), t, r)', n)
<1>1. PICK new : new = NextLoc(w, op.table)
  OBVIOUS
<1>2. PICK loc : loc = CurrentPointers(catalog[w])[op.table]
  OBVIOUS
<1>3. PICK base : base = IF loc = Nil THEN NewTable ELSE warehouse[loc]
  OBVIOUS
<1>4. /\ new \in Loc /\ new # Nil /\ op.table \in Tables
      /\ \A u \in Tables : CurrentPointers(catalog'[w])[u] =
             IF u = op.table THEN new ELSE CurrentPointers(catalog[w])[u]
  <2>1. /\ new \in Loc
        /\ \A u \in Tables : catalog'[w].pointers[u] = catalog[w].pointers[u]
        /\ \A u \in Tables : catalog'[w].staged[u] = IF u = op.table THEN new ELSE catalog[w].staged[u]
    BY <1>1, StageWrites, ZenonT(60)
  <2>2. new # Nil /\ op.table \in Tables
    BY <2>1, NilAssumption DEF Op
  <2> QED BY <2>1, <2>2 DEF CurrentPointers
<1>5. \A S : Few(S, n) => Few(S, n + 1)
  BY FewTrivial
<1>6. CASE t = op.table
  <2>1. warehouse'[new] = Result(w, op, base, new)
    BY <1>1, <1>2, <1>3 DEF Stage
  <2>2. base \in Metadata
    BY <1>2, <1>3, <1>4, BaseVersion
  <2>3. Copies(CurrentPointers(catalog[w]), t, r) = {f \in base.files : r \in f.rows}
    BY <1>2, <1>3, <1>6 DEF Copies, NewTable
  <2>4. Copies(CurrentPointers(catalog[w]), t, r)' =
            {f \in Result(w, op, base, new).files : r \in f.rows}
    BY <1>4, <1>6, <2>1 DEF Copies
  <2> QED BY <1>4, <2>2, <2>3, <2>4, ResultCopies
<1>7. CASE t # op.table
  <2>1. CurrentPointers(catalog'[w])[t] = CurrentPointers(catalog[w])[t]
        /\ CurrentPointers(catalog[w])[t] \in Written
    BY <1>4, <1>7, CurrentPointersRefs
  <2>2. Copies(CurrentPointers(catalog[w]), t, r)' = Copies(CurrentPointers(catalog[w]), t, r)
    BY <2>1 DEF Copies, Written, Grows
  <2> QED BY <1>5, <2>2
<1> QED BY <1>6, <1>7

\* A step that leaves pointers, direct work and the intents applied as they are keeps
\* the transaction's count.
LEMMA CountingStays ==
    ASSUME Shape, Shape', Grows, NEW w \in Writers, Counting(w), SamePointers(w),
           pc[w] \in {"open", "apply", "rebase"}, Applied(w)' = Applied(w),
           \A v \in Writers : v # w => plan'[v] = plan[v],
           UNCHANGED <<plan[w].direct>>, UNCHANGED <<plan[w].intents>> \/ Applied(w) = 1
    PROVE  Counting(w)'
<1> SUFFICES ASSUME NEW t \in Tables, NEW r \in Row
             PROVE  Few(Copies(CurrentPointers(catalog[w]), t, r)',
                        IF r.by = w THEN Cardinality(Requests(w, Applied(w), r.key)')
                                    ELSE Asked(r)')
  BY DEF Counting
<1>1. Copies(CurrentPointers(catalog[w]), t, r)' = Copies(CurrentPointers(catalog[w]), t, r)
  BY CopiesKept
<1>2. r.by # w => Asked(r)' = Asked(r)
  BY AskedKept DEF Row, Authors
<1>3. Requests(w, Applied(w), r.key)' = Requests(w, Applied(w), r.key)
  <2>1. CASE UNCHANGED <<plan[w].intents>>
    BY <2>1 DEF Requests, AllOps
  <2>2. CASE Applied(w) = 1
    <3>1. Requested'
      BY RequestsForm, PTL
    <3>2. Requests(w, 1, r.key)' = {i \in 1..Len(plan[w].direct) : r.key \in plan[w].direct[i].data}
      BY <3>1 DEF Requested
    <3>3. Requests(w, 1, r.key)' = Requests(w, 1, r.key)
      BY <3>2, RequestsForm DEF Requested
    <3>4. Requests(w, Applied(w), r.key)' = Requests(w, 1, r.key)'
      BY <2>2
    <3> QED BY <2>2, <3>3, <3>4
  <2> QED BY <2>1, <2>2
<1>4. Few(Copies(CurrentPointers(catalog[w]), t, r),
          IF r.by = w THEN Cardinality(Requests(w, Applied(w), r.key)) ELSE Asked(r))
  BY DEF Counting
<1> QED BY <1>1, <1>2, <1>3, <1>4

\* A transaction that starts on the pointers of a snapshot has none of its own rows.
LEMMA CountingAfresh ==
    ASSUME AInv, Shape', Grows, NEW w \in Writers, Own(w) = {}, NEW i \in DOMAIN snaps,
           CurrentPointers(catalog'[w]) = snaps[i].pointers,
           \A v \in Writers : v # w => plan'[v] = plan[v]
    PROVE  Counting(w)'
<1> SUFFICES ASSUME NEW t \in Tables, NEW r \in Row
             PROVE  Few(Copies(CurrentPointers(catalog[w]), t, r)',
                        IF r.by = w THEN Cardinality(Requests(w, Applied(w), r.key)')
                                    ELSE Asked(r)')
  BY DEF Counting
<1>1. Shape /\ LInv /\ Few(Copies(snaps[i].pointers, t, r), Asked(r))
  BY DEF AInv, EInv, WInv, LInv, Counted
<1>2. Copies(CurrentPointers(catalog[w]), t, r)' = Copies(snaps[i].pointers, t, r)
  <2>1. Copies(snaps[i].pointers, t, r)' = Copies(snaps[i].pointers, t, r)
    BY <1>1, CopiesKept
  <2>2. snaps'[i] = snaps[i]
    BY DEF Grows
  <2> QED BY <2>1, <2>2 DEF Copies
<1>3. r.by # w => Asked(r)' = Asked(r)
  BY AskedKept DEF Row, Authors
<1>4. CASE r.by = w
  <2>1. Requested'
    BY RequestsForm, PTL
  <2>2. PICK n : n = Cardinality(Requests(w, Applied(w), r.key)')
    OBVIOUS
  <2>3. n \in Nat
    BY <2>1, <2>2 DEF Requested
  <2>4. Copies(CurrentPointers(catalog[w]), t, r)' = {}
    BY <1>1, <1>2, <1>4, NoCopiesYet
  <2> QED BY <1>4, <2>2, <2>3, <2>4, FewTrivial
<1>5. CASE r.by # w
  BY <1>1, <1>2, <1>3, <1>5
<1> QED BY <1>4, <1>5

\* With one call of commit() it begins on an open transaction.
LEMMA FirstCall ==
    ASSUME OneCall, Shape, NEW w \in Writers, Starting(w), BeginCommit(w)
    PROVE  pc[w] = "open"
<1>1. loop[w].calls \in Nat
  BY BoundAssumption DEF Shape, TypeOK, Loop
<1>2. pc[w] = "failed" /\ w \notin Managed /\ loop[w].err \notin {"session branch", "answer lost"}
          => loop[w].calls >= 1
  BY DEF Starting
<1>3. \A n \in Nat : n < 1 => ~(n >= 1)
  OBVIOUS
<1> QED BY <1>1, <1>2, <1>3 DEF BeginCommit, OneCall

\* A branch is at a snapshot.
LEMMA TipsPoint ==
    ASSUME Shape, NEW b \in Branches
    PROVE  tip[b] \in DOMAIN snaps /\ snaps[tip[b]].pointers \in Pointers
<1>1. tip[b] \in DOMAIN snaps /\ snaps[tip[b]] \in Snapshot
  BY DEF Shape, TypeOK
<1> QED BY <1>1 DEF Snapshot

\* The caller's steps keep the transaction's count.
LEMMA CallerCounts ==
    ASSUME OneCall, AInv, Shape', Grows, NEW w \in Writers, Caller(w), StepOf(w)
    PROVE  Counting(w)'
<1>a. /\ pc \in [Writers -> Phases] /\ catalog \in [Writers -> Catalog]
      /\ plan \in [Writers -> Plan] /\ loop \in [Writers -> Loop] /\ Shape /\ Shape'
  BY DEF AInv, EInv, WInv, LInv, Shape, TypeOK
<1>b. Counting(w) /\ Starting(w) /\ Untouched(w) /\ Directs(w) /\ Own(w) = {}
  BY ActingMadeNone DEF AInv, EInv, WInv, IInv, WriterInv
<1>c. \A v \in Writers : v # w => plan'[v] = plan[v]
  BY DEF StepOf, OwnStep
<1>d. ASSUME pc'[w] = "failed" PROVE Counting(w)'
  BY <1>d DEF Counting
<1>1. ASSUME NEW b \in Branches, NEW sb \in Branches, Open(w, b, sb) PROVE Counting(w)'
  <2>1. catalog'[w].pointers = snaps[tip[sb]].pointers /\ catalog'[w].staged = NoPointers
    BY <1>1, <1>a, <1>b DEF Open, Catalog, Untouched
  <2>2. tip[sb] \in DOMAIN snaps /\ snaps[tip[sb]].pointers \in Pointers
    BY <1>a, TipsPoint
  <2>3. CurrentPointers(catalog'[w]) = snaps[tip[sb]].pointers
    BY <2>1, <2>2 DEF CurrentPointers, NoPointers, Pointers
  <2> QED BY <1>a, <1>b, <1>c, <2>2, <2>3, CountingAfresh
<1>2. ASSUME NEW b \in Branches, NEW sb \in Branches, RefuseSession(w, b, sb) PROVE Counting(w)'
  BY <1>2, <1>a, <1>d DEF RefuseSession, Fail
<1>3. ASSUME NEW op \in Ops, CreateTable(w, op) \/ AppendRows(w, op) \/ RemoveRows(w, op)
      PROVE  Counting(w)'
  <2>1. pc[w] = "open" /\ UNCHANGED <<pc, catalog, loop>>
    BY <1>3 DEF CreateTable, AppendRows, RemoveRows, MayRecord
  <2>2. plan'[w].direct = plan[w].direct
    BY <1>3, <1>a DEF CreateTable, AppendRows, RemoveRows, Plan
  <2>3. Applied(w)' = Applied(w) /\ Applied(w) = 1
    BY <2>1 DEF Applied
  <2> QED BY <1>a, <1>b, <1>c, <2>1, <2>2, <2>3, CountingStays DEF SamePointers
<1>4. ASSUME NEW c \in Chunks, WriteChunk(w, c) PROVE Counting(w)'
  <2>1. pc[w] = "open" /\ UNCHANGED <<pc, catalog, loop>>
    BY <1>4 DEF WriteChunk
  <2>2. plan'[w].direct = plan[w].direct
    BY <1>4, <1>a DEF WriteChunk, Plan
  <2>3. Applied(w)' = Applied(w) /\ Applied(w) = 1
    BY <2>1 DEF Applied
  <2> QED BY <1>a, <1>b, <1>c, <2>1, <2>2, <2>3, CountingStays DEF SamePointers
<1>5. ASSUME NEW op \in DirectOps, Direct(w, op) PROVE Counting(w)'
  <2>1. /\ op \in Op /\ pc[w] = "open" /\ plan[w].direct = << >> /\ Stage(w, op)
        /\ UNCHANGED <<pc, loop>>
    BY <1>5, OpAssumption DEF Direct
  <2>2. plan'[w].direct = <<op>>
    <3>1. plan'[w].direct = Append(plan[w].direct, op)
      BY <1>5, <1>a DEF Direct, Plan
    <3> QED BY <2>1, <3>1
  <2>3. Applied(w) = 1 /\ Applied(w)' = 1
    BY <2>1 DEF Applied
  <2> SUFFICES ASSUME NEW t \in Tables, NEW r \in Row
               PROVE  Few(Copies(CurrentPointers(catalog[w]), t, r)',
                          IF r.by = w THEN Cardinality(Requests(w, Applied(w), r.key)')
                                      ELSE Asked(r)')
    BY DEF Counting
  <2>4. Few(Copies(CurrentPointers(catalog[w]), t, r),
            IF r.by = w THEN Cardinality(Requests(w, 1, r.key)) ELSE Asked(r))
    BY <1>b, <2>1, <2>3 DEF Counting
  <2>5. CASE r.by # w
    <3>1. Asked(r)' = Asked(r) /\ Asked(r) \in Nat
      BY <1>a, <1>c, <2>5, AskedKept, AskedIsNumber DEF Row, Authors
    <3> QED BY <1>a, <2>1, <2>4, <2>5, <3>1, StageCopies
  <2>6. CASE r.by = w
    <3>1. 1..Len(<< >>) = {} /\ 1..Len(<<op>>) = {1} /\ <<op>>[1] = op
      OBVIOUS
    <3>2. Requests(w, 1, r.key) = {}
      BY <1>a, <2>1, <3>1, RequestsForm DEF Requested
    <3>3. Requested'
      BY <1>a, RequestsForm, PTL
    <3>4. Requests(w, 1, r.key)' = {i \in {1} : r.key \in op.data}
      <4>1. Requests(w, 1, r.key)' =
                {i \in 1..Len(plan'[w].direct) : r.key \in plan'[w].direct[i].data}
        BY <3>3 DEF Requested
      <4>2. \A i \in {1} : <<op>>[i] = op
        BY <3>1
      <4> QED BY <2>2, <3>1, <4>1, <4>2, Zenon
    <3>5. Requests(w, Applied(w), r.key)' = {i \in {1} : r.key \in op.data}
      BY <2>3, <3>4
    <3>6. Few(Copies(CurrentPointers(catalog[w]), t, r), 0)
      BY <2>4, <2>6, <3>2, FS_EmptySet
    <3>7. CASE r.key \in op.data
      <4>1. Requests(w, Applied(w), r.key)' = {1}
        BY <3>5, <3>7
      <4>2. Cardinality({1}) = 1
        BY FS_Singleton
      <4>3. Few(Copies(CurrentPointers(catalog[w]), t, r)', 0 + 1)
        BY <1>a, <2>1, <3>6, StageCopies
      <4> QED BY <2>6, <4>1, <4>2, <4>3
    <3>8. CASE r.key \notin op.data
      <4>1. Requests(w, Applied(w), r.key)' = {}
        BY <3>5, <3>8
      <4>2. Few(Copies(CurrentPointers(catalog[w]), t, r)', 0)
        BY <1>a, <2>1, <3>6, <3>8, StageCopies
      <4> QED BY <2>6, <4>1, <4>2, FS_EmptySet
    <3> QED BY <3>7, <3>8
  <2> QED BY <2>5, <2>6
<1>6. CASE BodyRaises(w)
  BY <1>6, <1>a, <1>d DEF BodyRaises, Fail
<1>7. CASE BeginCommit(w)
  <2>1. pc[w] = "open"
    BY <1>7, <1>a, <1>b, FirstCall
  <2>2. UNCHANGED <<catalog, plan>> /\ pc'[w] = "apply" /\ loop'[w].next = 1
    BY <1>7, <1>a DEF BeginCommit
  <2>3. Applied(w)' = Applied(w)
    BY <2>1, <2>2 DEF Applied
  <2> QED BY <1>a, <1>b, <1>c, <2>1, <2>2, <2>3, CountingStays DEF SamePointers
<1> QED BY <1>1, <1>2, <1>3, <1>4, <1>5, <1>6, <1>7 DEF Caller

\* So do the steps of a running commit().
LEMMA CommitCounts ==
    ASSUME AInv, Shape', Grows, NEW w \in Writers,
           Commit(w) \/ StorageFault(w) \/ AnswerLost(w), StepOf(w)
    PROVE  Counting(w)'
<1>a. /\ pc \in [Writers -> Phases] /\ catalog \in [Writers -> Catalog]
      /\ plan \in [Writers -> Plan] /\ loop \in [Writers -> Loop] /\ Shape /\ Shape'
  BY DEF AInv, EInv, WInv, LInv, Shape, TypeOK
<1>b. Counting(w) /\ Own(w) = {}
  BY ActingMadeNone DEF AInv, EInv, WInv
<1>c. \A v \in Writers : v # w => plan'[v] = plan[v]
  BY DEF StepOf, OwnStep
<1>d. ASSUME pc'[w] \in {"failed", "recover", "committed"} PROVE Counting(w)'
  BY <1>d DEF Counting
<1>1. CASE ApplyIntent(w) \/ ApplyNothing(w)
  <2>1. PICK n : n = loop[w].next
    OBVIOUS
  <2>2. /\ pc[w] = "apply" /\ pc'[w] = "apply" /\ plan' = plan /\ n \in DOMAIN plan[w].intents
        /\ n \in Nat /\ loop'[w].next = n + 1
    <3>1. /\ pc[w] = "apply" /\ pc' = pc /\ plan' = plan /\ n <= Len(plan[w].intents)
          /\ loop' = [loop EXCEPT ![w].next = @ + 1]
      BY <1>1, <2>1 DEF ApplyIntent, ApplyNothing, Applying
    <3>2. loop'[w].next = n + 1 /\ n \in Nat \ {0} /\ plan[w].intents \in Seq(Op)
      BY <1>a, <2>1, <3>1 DEF Loop, Plan
    <3> QED BY <3>1, <3>2
  <2>3. Applied(w) = n /\ Applied(w)' = n + 1
    BY <2>1, <2>2 DEF Applied
  <2>4. plan[w].intents[n] \in Op /\ Intent(w) = plan[w].intents[n]
    BY <1>a, <2>1, <2>2 DEF Plan, Intent
  <2> SUFFICES ASSUME NEW t \in Tables, NEW r \in Row
               PROVE  Few(Copies(CurrentPointers(catalog[w]), t, r)',
                          IF r.by = w THEN Cardinality(Requests(w, Applied(w), r.key)')
                                      ELSE Asked(r)')
    BY DEF Counting
  <2>5. PICK q : q = Cardinality(Requests(w, n, r.key))
    OBVIOUS
  <2>6. /\ q \in Nat /\ Asked(r) \in Nat
        /\ Few(Copies(CurrentPointers(catalog[w]), t, r), IF r.by = w THEN q ELSE Asked(r))
    BY <1>a, <1>b, <2>2, <2>3, <2>5, RequestsCount DEF Counting
  <2>7. Requests(w, Applied(w), r.key)' = Requests(w, n + 1, r.key)
    BY <2>2, <2>3 DEF Requests, AllOps
  <2>8. /\ Asked(r)' = Asked(r)
        /\ Cardinality(Requests(w, n + 1, r.key)) =
               q + IF r.key \in plan[w].intents[n].data THEN 1 ELSE 0
    BY <1>a, <2>2, <2>5, AskedKept, RequestsNext
  <2>9. CASE ApplyIntent(w)
    <3>1. Stage(w, plan[w].intents[n])
      BY <2>4, <2>9 DEF ApplyIntent
    <3>2. CASE r.by = w /\ r.key \in plan[w].intents[n].data
      <4>1. Few(Copies(CurrentPointers(catalog[w]), t, r)', q + 1)
        BY <1>a, <2>4, <2>6, <3>1, <3>2, StageCopies
      <4> QED BY <2>7, <2>8, <3>2, <4>1
    <3>3. CASE r.by = w /\ r.key \notin plan[w].intents[n].data
      <4>1. Few(Copies(CurrentPointers(catalog[w]), t, r)', q)
        BY <1>a, <2>4, <2>6, <3>1, <3>3, StageCopies
      <4>2. Cardinality(Requests(w, n + 1, r.key)) = q
        BY <2>6, <2>8, <3>3
      <4> QED BY <2>7, <3>3, <4>1, <4>2
    <3>4. CASE r.by # w
      <4>1. Few(Copies(CurrentPointers(catalog[w]), t, r)', Asked(r))
        BY <1>a, <2>4, <2>6, <3>1, <3>4, StageCopies
      <4> QED BY <2>8, <3>4, <4>1
    <3> QED BY <3>2, <3>3, <3>4
  <2>10. CASE ApplyNothing(w)
    <3>1. catalog' = catalog
      BY <2>10 DEF ApplyNothing
    <3>2. Copies(CurrentPointers(catalog[w]), t, r)' = Copies(CurrentPointers(catalog[w]), t, r)
      BY <1>a, <3>1, CopiesKept DEF SamePointers
    <3>3. PICK q2 : q2 = Cardinality(Requests(w, n + 1, r.key))
      OBVIOUS
    <3>4. q2 \in Nat /\ q <= q2
      BY <2>6, <2>8, <3>3
    <3> QED BY <2>6, <2>7, <2>8, <3>2, <3>3, <3>4, FewTrivial
  <2> QED BY <1>1, <2>9, <2>10
<1>2. CASE RefuseEmpty(w) \/ ApplyMissing(w) \/ Exhausted(w) \/ StorageFault(w)
  BY <1>2, <1>a, <1>d DEF RefuseEmpty, ApplyMissing, Exhausted, StorageFault, Fail
<1>3. CASE RefuseUncovered(w) \/ RefuseRemoval(w) \/ RebaseFails(w) \/ AnswerLost(w)
  BY <1>3, <1>a, <1>d DEF RefuseUncovered, RefuseRemoval, RebaseFails, AnswerLost, Fail
<1>4. CASE Conflict(w) \/ Publish(w)
  BY <1>4, <1>a, <1>d DEF Conflict, Publish
<1>5. CASE Adopt(w)
  <2>1. PICK i : i = tip[plan[w].branch]
    OBVIOUS
  <2>2. i \in DOMAIN snaps /\ snaps[i].pointers \in Pointers
    <3>1. plan[w].branch \in Branches
      BY <1>a DEF Plan
    <3> QED BY <1>a, <2>1, <3>1, TipsPoint
  <2>3. catalog'[w].pointers = snaps[i].pointers /\ catalog'[w].staged = NoPointers
    BY <1>5, <1>a, <2>1 DEF Adopt, RebasedOnto, TipPointers, Catalog
  <2>4. CurrentPointers(catalog'[w]) = snaps[i].pointers
    BY <2>2, <2>3 DEF CurrentPointers, NoPointers, Pointers
  <2> QED BY <1>a, <1>b, <1>c, <2>2, <2>4, CountingAfresh
<1>6. CASE Rebase(w)
  <2>1. pc[w] = "rebase" /\ pc'[w] = "apply" /\ loop'[w].next = 1 /\ UNCHANGED <<catalog, plan>>
    BY <1>6, <1>a DEF Rebase, Loop
  <2>2. Applied(w)' = Applied(w)
    BY <2>1 DEF Applied
  <2> QED BY <1>a, <1>b, <1>c, <2>1, <2>2, CountingStays DEF SamePointers
<1> QED BY <1>1, <1>2, <1>3, <1>4, <1>5, <1>6 DEF Commit

\* The first snapshot has each of its rows once.
LEMMA InitCounts == Init => AInv
<1> SUFFICES ASSUME Init PROVE AInv
  OBVIOUS
<1>1. EInv /\ Shape
  BY InitStarts DEF EInv, WInv, LInv
<1>2. \A w \in Writers : Counting(w)
  BY DEF Init, Counting
<1>3. ASSUME NEW i \in DOMAIN snaps, NEW t \in Tables, NEW r \in Row
      PROVE  Few(Copies(snaps[i].pointers, t, r), Asked(r))
  <2>1. snaps = <<FirstSnapshot(FirstBranch)>> /\ i = 1
    BY DEF Init
  <2>2. snaps[i].pointers[t] = IF t \in SeedTables THEN SeedLoc(t) ELSE Nil
    BY <2>1 DEF FirstSnapshot
  <2>3. Asked(r) \in Nat
    BY <1>1, AskedIsNumber
  <2>4. CASE t \notin SeedTables
    BY <2>2, <2>3, <2>4, FewTrivial DEF Copies
  <2>5. CASE t \in SeedTables
    <3>1. SeedLoc(t) \in Loc /\ SeedLoc(t).table = t
      BY <2>5, SeedAssumption DEF SeedLoc, Loc, Authors
    <3>2. warehouse[SeedLoc(t)] = SeedTable(t)
      BY <2>5, <3>1 DEF Init
    <3>3. PICK g : g = [orig |-> SeedLoc(t), rows |-> {[key |-> k, by |-> Seeder] : k \in SeedKeys}]
      OBVIOUS
    <3>4. SeedTable(t).files = {} \/ SeedTable(t).files = {g}
      BY <3>3 DEF SeedTable, NewTable, Appended, WithSnapshot
    <3>5. r \in g.rows => r.by = Seeder
      BY <3>3
    <3>6. Copies(snaps[i].pointers, t, r) = {f \in SeedTable(t).files : r \in f.rows}
      BY <2>2, <2>5, <3>1, <3>2, NilAssumption DEF Copies
    <3>7. CASE r.by = Seeder
      <4>1. Asked(r) = 1
        BY <3>7 DEF Asked
      <4>2. Few({}, 1) /\ Few({g}, 1)
        <5>1. IsFiniteSet({g}) /\ Cardinality({g}) = 1
          BY FS_Singleton, Zenon
        <5> QED BY <5>1, FewTrivial DEF Few
      <4>3. Copies(snaps[i].pointers, t, r) = {} \/ Copies(snaps[i].pointers, t, r) = {g}
        BY <3>4, <3>6
      <4> QED BY <4>1, <4>2, <4>3
    <3>8. CASE r.by # Seeder
      <4>1. Copies(snaps[i].pointers, t, r) = {}
        BY <3>4, <3>5, <3>6, <3>8
      <4> QED BY <2>3, <4>1, FewTrivial
    <3> QED BY <3>7, <3>8
  <2> QED BY <2>4, <2>5
<1> QED BY <1>1, <1>2, <1>3 DEF AInv, Counted

\* A commit that lands has no more copies than were asked for.
LEMMA LandingCounts ==
    ASSUME AInv, Shape', Grows, NEW w \in Writers, StepOf(w), Landing(w)
    PROVE  Counted'
<1>1. /\ Shape /\ Counting(w) /\ pc[w] = "apply"
      /\ snaps' = Append(snaps, NewSnapshot(w)) /\ catalog' = catalog /\ plan' = plan
  BY DEF AInv, EInv, WInv, LInv, Landing, Landed
<1>2. PICK n : n = Len(snaps) + 1
  OBVIOUS
<1>3. /\ DOMAIN snaps' = DOMAIN snaps \cup {n}
      /\ snaps'[n].pointers = CurrentPointers(catalog[w])
  <2>1. snaps \in Seq(Snapshot)
    BY <1>1 DEF Shape, TypeOK
  <2>2. DOMAIN snaps' = DOMAIN snaps \cup {n} /\ snaps'[n] = NewSnapshot(w)
    BY <1>1, <1>2, <2>1
  <2> QED BY <2>2 DEF NewSnapshot, CommitMetadata
<1>4. ASSUME NEW t \in Tables, NEW r \in Row
      PROVE  Few(Copies(snaps[n].pointers, t, r)', Asked(r)')
  <2>1. Copies(snaps[n].pointers, t, r)' = Copies(CurrentPointers(catalog[w]), t, r)
    <3>1. Copies(CurrentPointers(catalog[w]), t, r)' = Copies(CurrentPointers(catalog[w]), t, r)
      BY <1>1, CopiesKept DEF SamePointers
    <3> QED BY <1>1, <1>3, <3>1 DEF Copies
  <2>2. Asked(r)' = Asked(r)
    BY <1>1, AskedKept
  <2>3. PICK q : q = Cardinality(Requests(w, Applied(w), r.key))
    OBVIOUS
  <2>4. q \in Nat /\ Asked(r) \in Nat /\ (r.by = w => q <= Asked(r))
    BY <1>1, <2>3, RequestsCount
  <2>5. Few(Copies(CurrentPointers(catalog[w]), t, r), IF r.by = w THEN q ELSE Asked(r))
    BY <1>1, <2>3 DEF Counting
  <2>6. Few(Copies(CurrentPointers(catalog[w]), t, r), Asked(r))
    BY <2>4, <2>5, FewTrivial
  <2> QED BY <2>1, <2>2, <2>6
<1>5. \A i \in DOMAIN snaps, t \in Tables, r \in Row :
          Few(Copies(snaps[i].pointers, t, r)', Asked(r)')
  BY OthersCount
<1> QED BY <1>3, <1>4, <1>5 DEF Counted

\* Every step keeps the counts.
LEMMA NextCounts ==
    ASSUME OneCall
    PROVE  AInv /\ [Next]_vars => AInv'
<1> SUFFICES ASSUME AInv, [Next]_vars PROVE AInv'
  OBVIOUS
<1>1. EInv' /\ Shape /\ Shape' /\ Grows
  BY NextStarts, StepGrows DEF AInv, EInv, WInv, LInv
<1>2. CASE UNCHANGED vars
  <2>1. UNCHANGED <<snaps, warehouse, catalog, plan, loop, pc>>
    BY <1>2 DEF vars
  <2>a. \A r \in Row : Asked(r)' = Asked(r)
    BY <2>1, AskedKept
  <2>2. Counted'
    <3> SUFFICES ASSUME NEW i \in DOMAIN snaps, NEW t \in Tables, NEW r \in Row
                 PROVE  Few(Copies(snaps[i].pointers, t, r)', Asked(r)')
      BY <2>1 DEF Counted
    <3>1. Copies(snaps[i].pointers, t, r)' = Copies(snaps[i].pointers, t, r)
      BY <1>1, CopiesKept
    <3> QED BY <2>a, <3>1 DEF AInv, Counted
  <2>3. \A v \in Writers : Counting(v)'
    <3> SUFFICES ASSUME NEW v \in Writers, pc'[v] \in {"open", "apply", "rebase"}
                 PROVE  Counting(v)'
      BY DEF Counting
    <3>1. Applied(v)' = Applied(v)
      BY <2>1 DEF Applied
    <3> QED BY <1>1, <2>1, <3>1, CountingStays DEF AInv, SamePointers
  <2> QED BY <1>1, <2>2, <2>3 DEF AInv
<1>3. ASSUME NEW w \in Writers, Caller(w) \/ Commit(w) \/ StorageFault(w) \/ AnswerLost(w)
      PROVE  AInv'
  <2>1. StepOf(w)
    BY <1>1, <1>3, CallerForms, CommitForms
  <2>2. Counting(w)'
    BY <1>1, <1>3, <2>1, CallerCounts, CommitCounts
  <2>3. \A v \in Writers : Counting(v)'
    BY <1>1, <2>1, <2>2, OthersCount
  <2>4. Counted'
    <3>1. CASE Landing(w)
      BY <1>1, <2>1, <3>1, LandingCounts
    <3>2. CASE snaps' = snaps
      <4>1. \A i \in DOMAIN snaps, t \in Tables, r \in Row :
                Few(Copies(snaps[i].pointers, t, r)', Asked(r)')
        BY <1>1, <2>1, OthersCount
      <4> QED BY <3>2, <4>1 DEF Counted
    <3>3. Landing(w) \/ snaps' = snaps
      BY <2>1 DEF StepOf, Opening, Preparing, Staging, Beginning, Going, Adopting, Rebasing,
                  Failing, SameRepo
    <3> QED BY <3>1, <3>2, <3>3
  <2> QED BY <1>1, <2>3, <2>4 DEF AInv
<1> QED BY <1>2, <1>3 DEF Next, Terminated

\* The files with a row are its copies.
LEMMA CountedIsOnce == AInv => AppendedOnce
<1> SUFFICES ASSUME AInv, NEW i \in DOMAIN snaps, NEW t \in Tables, snaps[i].pointers[t] # Nil,
                    NEW m, m = warehouse[snaps[i].pointers[t]], NEW r \in Rows(m)
             PROVE  Cardinality({f \in m.files : r \in f.rows}) <= Asked(r)
  BY DEF AppendedOnce
<1>1. Shape /\ snaps[i].pointers[t] \in Written
  BY DEF AInv, EInv, WInv, LInv, Shape, Refs
<1>2. r \in Row
  BY <1>1, RowsAreRows DEF RowsAt
<1>3. Copies(snaps[i].pointers, t, r) = {f \in m.files : r \in f.rows}
  BY DEF Copies
<1> QED BY <1>2, <1>3 DEF AInv, Counted, Few

\* A retry appends nothing twice: as long as a transaction calls commit() once, no row
\* is in more data files of a version a reader can reach than operations of its author
\* asked for it, however many conflicts were replayed.
THEOREM AppendsAreOnce ==
    ASSUME OneCall
    PROVE  Spec => []AppendedOnce
<1>1. AInv /\ [Next]_vars => AInv'
  BY NextCounts
<1> QED BY <1>1, InitCounts, CountedIsOnce, PTL DEF Spec

(***************************************************************************)
(* The refinement.  Outcome, the atomic store's recursion over the         *)
(* operations, is what Serially says of the rows; Founded says where the   *)
(* tables of a transaction come from; then each action is a step of the    *)
(* atomic store or none.                                                   *)
(***************************************************************************)

(***************************************************************************)
(* What running operations one after the other makes of a store.           *)
(***************************************************************************)

\* The rows of a table after the first n operations, and the tables created by
\* them.
UpTo(w, ops, n, t, rows) ==
    {r \in Row :
        \/ r \in rows /\ \A j \in DOMAIN ops : j <= n => ~Takes(ops[j], t, r)
        \/ \E i \in DOMAIN ops :
              /\ i <= n /\ Gives(w, ops[i], t, r)
              /\ \A j \in DOMAIN ops : i < j /\ j <= n => ~Takes(ops[j], t, r)}
CreatedBy(ops, n) == {t \in Tables : \E j \in DOMAIN ops : j <= n /\ ops[j].kind = "create" /\ ops[j].table = t}

\* One more operation is the last one that gives or takes a row it is concerned with.
LEMMA UpToNext ==
    ASSUME NEW w, NEW ops \in Seq(Op), NEW n \in Nat, n + 1 \in DOMAIN ops, NEW t, NEW rows
    PROVE  UpTo(w, ops, n + 1, t, rows) =
               {r \in Row : \/ Gives(w, ops[n + 1], t, r)
                            \/ r \in UpTo(w, ops, n, t, rows) /\ ~Takes(ops[n + 1], t, r)}
<1> SUFFICES ASSUME NEW r \in Row
             PROVE  r \in UpTo(w, ops, n + 1, t, rows) <=>
                        \/ Gives(w, ops[n + 1], t, r)
                        \/ r \in UpTo(w, ops, n, t, rows) /\ ~Takes(ops[n + 1], t, r)
  BY DEF UpTo
<1> DEFINE G(i) == Gives(w, ops[i], t, r)
           K(i) == Takes(ops[i], t, r)
<1>1. r \in UpTo(w, ops, n + 1, t, rows) <=>
          \/ r \in rows /\ \A j \in DOMAIN ops : j <= n + 1 => ~K(j)
          \/ \E i \in DOMAIN ops : i <= n + 1 /\ G(i) /\ \A j \in DOMAIN ops : i < j /\ j <= n + 1 => ~K(j)
  BY DEF UpTo
<1>2. r \in UpTo(w, ops, n, t, rows) <=>
          \/ r \in rows /\ \A j \in DOMAIN ops : j <= n => ~K(j)
          \/ \E i \in DOMAIN ops : i <= n /\ G(i) /\ \A j \in DOMAIN ops : i < j /\ j <= n => ~K(j)
  BY DEF UpTo
<1> HIDE DEF G, K
<1>3. DOMAIN ops \subseteq Nat
  OBVIOUS
<1>4. \A j \in DOMAIN ops : j <= n + 1 <=> (j <= n \/ j = n + 1)
  BY <1>3
<1>5. (\A j \in DOMAIN ops : j <= n + 1 => ~K(j)) <=> (\A j \in DOMAIN ops : j <= n => ~K(j)) /\ ~K(n + 1)
  BY <1>4
<1>6. ASSUME NEW i \in DOMAIN ops, i <= n
      PROVE  (\A j \in DOMAIN ops : i < j /\ j <= n + 1 => ~K(j)) <=>
                 (\A j \in DOMAIN ops : i < j /\ j <= n => ~K(j)) /\ ~K(n + 1)
  <2>1. i < n + 1 /\ n + 1 <= n + 1 /\ n + 1 \in DOMAIN ops
    BY <1>3, <1>6
  <2> QED BY <1>4, <2>1
<1>7. \A j \in DOMAIN ops : n + 1 < j /\ j <= n + 1 => ~K(j)
  BY <1>3
<1> DEFINE Last(i, m) == \A j \in DOMAIN ops : i < j /\ j <= m => ~K(j)
<1>8. (\E i \in DOMAIN ops : i <= n + 1 /\ G(i) /\ Last(i, n + 1)) <=>
          \/ G(n + 1)
          \/ (\E i \in DOMAIN ops : i <= n /\ G(i) /\ Last(i, n)) /\ ~K(n + 1)
  <2>1. \A i \in DOMAIN ops : i <= n => (Last(i, n + 1) <=> Last(i, n) /\ ~K(n + 1))
    BY <1>6
  <2>2. Last(n + 1, n + 1)
    BY <1>7
  <2>3. n + 1 \in DOMAIN ops /\ n + 1 <= n + 1
    OBVIOUS
  <2> HIDE DEF Last
  <2> QED BY <1>4, <2>1, <2>2, <2>3
<1>9. r \in UpTo(w, ops, n + 1, t, rows) <=>
          \/ G(n + 1)
          \/ r \in UpTo(w, ops, n, t, rows) /\ ~K(n + 1)
  BY <1>1, <1>2, <1>5, <1>8
<1> QED BY <1>9 DEF G, K

\* A store has its three parts.
StoreWith(T, R, C) == [tables |-> T, rows |-> R, chunks |-> C]

\* The tables and the rows after one operation.
TablesAfter(op, T)  == IF op.kind = "create" THEN T \cup {op.table} ELSE T
RowsAfter(w, op, R) ==
    [t \in Tables |-> {r \in Row : Gives(w, op, t, r) \/ (r \in R[t] /\ ~Takes(op, t, r))}]

\* What one operation does to each part of a store.
LEMMA AfterParts ==
    ASSUME NEW w \in Writers, NEW op \in Op, NEW T, NEW R \in [Tables -> SUBSET Row], NEW C
    PROVE  Atomic!After(w, op, StoreWith(T, R, C)) =
               StoreWith(TablesAfter(op, T), RowsAfter(w, op, R), C)
<1> DEFINE N == RowsAfter(w, op, R)
<1>1. op.table \in Tables /\ op.kind \in Kinds
  BY DEF Op
<1>2. Atomic!Given(w, op) = DataRows(w, op) /\ DataRows(w, op) \subseteq Row
  BY DataRowsType DEF Atomic!Given, DataRows
<1>3. \A rs \in SUBSET Row : Atomic!Selected(op, rs) = {r \in rs : r.key \in op.pred}
  BY DEF Atomic!Selected
<1>4. CASE op.kind = "create"
  <2>1. N = R
    BY <1>4 DEF RowsAfter, Gives, Takes
  <2>2. Atomic!After(w, op, StoreWith(T, R, C)) = StoreWith(T \cup {op.table}, R, C)
    BY <1>4 DEF Atomic!After, StoreWith
  <2> QED BY <1>4, <2>1, <2>2 DEF TablesAfter
<1>5. CASE op.kind = "append"
  <2>1. N = [R EXCEPT ![op.table] = @ \cup DataRows(w, op)]
    BY <1>1, <1>2, <1>5 DEF RowsAfter, Gives, Takes
  <2>2. Atomic!After(w, op, StoreWith(T, R, C)) = StoreWith(T, [R EXCEPT ![op.table] = @ \cup DataRows(w, op)], C)
    BY <1>2, <1>5 DEF Atomic!After, StoreWith
  <2> QED BY <1>5, <2>1, <2>2 DEF TablesAfter
<1>6. CASE op.kind = "delete"
  <2>1. N = [R EXCEPT ![op.table] = @ \ Atomic!Selected(op, @)]
    BY <1>1, <1>3, <1>6 DEF RowsAfter, Gives, Takes
  <2>2. Atomic!After(w, op, StoreWith(T, R, C)) = StoreWith(T, [R EXCEPT ![op.table] = @ \ Atomic!Selected(op, @)], C)
    BY <1>6 DEF Atomic!After, StoreWith
  <2> QED BY <1>6, <2>1, <2>2 DEF TablesAfter
<1>7. CASE op.kind = "overwrite"
  <2>1. N = [R EXCEPT ![op.table] = (@ \ Atomic!Selected(op, @)) \cup DataRows(w, op)]
    BY <1>1, <1>2, <1>3, <1>7 DEF RowsAfter, Gives, Takes
  <2>2. Atomic!After(w, op, StoreWith(T, R, C)) =
            StoreWith(T, [R EXCEPT ![op.table] = (@ \ Atomic!Selected(op, @)) \cup DataRows(w, op)], C)
    BY <1>2, <1>7 DEF Atomic!After, StoreWith
  <2> QED BY <1>7, <2>1, <2>2 DEF TablesAfter
<1> QED BY <1>1, <1>4, <1>5, <1>6, <1>7 DEF Kinds

\* The store after the first n operations.
StoreAt(w, ops, n, T, R, C) ==
    StoreWith(T \cup CreatedBy(ops, n), [t \in Tables |-> UpTo(w, ops, n, t, R[t])], C)

\* No operation changes nothing, and each of them does what After says.
LEMMA StoreSteps ==
    ASSUME NEW w \in Writers, NEW ops \in Seq(Op), NEW T \in SUBSET Tables,
           NEW R \in [Tables -> SUBSET Row], NEW C
    PROVE  /\ StoreAt(w, ops, 0, T, R, C) = StoreWith(T, R, C)
           /\ \A n \in Nat : n + 1 \in DOMAIN ops =>
                 StoreAt(w, ops, n + 1, T, R, C) = Atomic!After(w, ops[n + 1], StoreAt(w, ops, n, T, R, C))
<1>1. StoreAt(w, ops, 0, T, R, C) = StoreWith(T, R, C)
  <2>1. \A j \in DOMAIN ops : ~(j <= 0)
    OBVIOUS
  <2>2. CreatedBy(ops, 0) = {}
    BY <2>1 DEF CreatedBy
  <2>3. ASSUME NEW t \in Tables PROVE UpTo(w, ops, 0, t, R[t]) = R[t]
    BY <2>1 DEF UpTo
  <2>4. [t \in Tables |-> UpTo(w, ops, 0, t, R[t])] = R
    BY <2>3
  <2> QED BY <2>2, <2>4 DEF StoreAt
<1>2. ASSUME NEW n \in Nat, n + 1 \in DOMAIN ops
      PROVE  StoreAt(w, ops, n + 1, T, R, C) = Atomic!After(w, ops[n + 1], StoreAt(w, ops, n, T, R, C))
  <2> DEFINE op == ops[n + 1]
             U == [t \in Tables |-> UpTo(w, ops, n, t, R[t])]
             D == T \cup CreatedBy(ops, n)
  <2>1. op \in Op /\ op.table \in Tables
    <3>1. n + 1 \in 1..Len(ops)
      BY <1>2
    <3>2. op \in Op
      BY <3>1, ElementOfSeq
    <3> QED BY <3>2 DEF Op
  <2>2. U \in [Tables -> SUBSET Row]
    BY DEF UpTo
  <2>3. RowsAfter(w, op, U) = [t \in Tables |-> UpTo(w, ops, n + 1, t, R[t])]
    <3>1. ASSUME NEW t \in Tables
          PROVE  {r \in Row : Gives(w, op, t, r) \/ (r \in U[t] /\ ~Takes(op, t, r))} = UpTo(w, ops, n + 1, t, R[t])
      BY <1>2, UpToNext
    <3> QED BY <3>1 DEF RowsAfter
  <2>4. T \cup CreatedBy(ops, n + 1) = TablesAfter(op, D)
    <3>1. \A j \in DOMAIN ops : j <= n + 1 <=> (j <= n \/ j = n + 1)
      OBVIOUS
    <3>2. \A t \in Tables : t \in CreatedBy(ops, n + 1) <=>
              t \in CreatedBy(ops, n) \/ (op.kind = "create" /\ op.table = t)
      BY <1>2, <3>1 DEF CreatedBy
    <3>3. CreatedBy(ops, n + 1) \subseteq Tables /\ CreatedBy(ops, n) \subseteq Tables
      BY DEF CreatedBy
    <3> QED BY <3>2, <3>3, <2>1 DEF TablesAfter
  <2>5. StoreAt(w, ops, n, T, R, C) = StoreWith(D, U, C)
    BY DEF StoreAt
  <2>6. StoreAt(w, ops, n + 1, T, R, C) =
            StoreWith(TablesAfter(op, D), RowsAfter(w, op, U), C)
    BY <2>3, <2>4 DEF StoreAt
  <2>7. Atomic!After(w, op, StoreWith(D, U, C)) = StoreWith(TablesAfter(op, D), RowsAfter(w, op, U), C)
    <3> HIDE DEF op, U, D
    <3> QED BY <2>1, <2>2, AfterParts
  <2> QED BY <2>5, <2>6, <2>7
<1> QED BY <1>1, <1>2

\* Run one after the other, operations pass through these stores.
LEMMA ThroughIs ==
    ASSUME NEW w \in Writers, NEW ops \in Seq(Op), NEW T \in SUBSET Tables,
           NEW R \in [Tables -> SUBSET Row], NEW C, NEW s, s = StoreWith(T, R, C)
    PROVE  \A n \in 0..Len(ops) : Atomic!Through(w, ops, s)[n] = StoreAt(w, ops, n, T, R, C)
<1> DEFINE A(n) == StoreAt(w, ops, n, T, R, C)
           Step(f, i) == IF i = 0 THEN s ELSE Atomic!After(w, ops[i], f[i - 1])
           f == [i \in 0..Len(ops) |-> A(i)]
           g == Atomic!Through(w, ops, s)
           P == {n \in Nat : n <= Len(ops) => g[n] = A(n)}
<1>1. Len(ops) \in Nat /\ DOMAIN ops = 1..Len(ops)
  OBVIOUS
<1>2. A(0) = s /\ \A n \in Nat : n + 1 \in DOMAIN ops => A(n + 1) = Atomic!After(w, ops[n + 1], A(n))
  BY StoreSteps
<1> HIDE DEF A
<1>3. ASSUME NEW i \in 0..Len(ops) PROVE f[i] = Step(f, i)
  <2>1. CASE i = 0
    BY <2>1, <1>1, <1>2
  <2>2. CASE i # 0
    <3>1. i - 1 \in Nat /\ i - 1 \in 0..Len(ops) /\ (i - 1) + 1 = i /\ i \in DOMAIN ops
      BY <2>2, <1>1
    <3>2. A((i - 1) + 1) = Atomic!After(w, ops[(i - 1) + 1], A(i - 1))
      BY <3>1, <1>2
    <3>3. f[i] = A(i) /\ f[i - 1] = A(i - 1)
      BY <3>1
    <3> HIDE DEF f
    <3> QED BY <2>2, <3>1, <3>2, <3>3
  <2> QED BY <2>1, <2>2
<1>4. f = [i \in 0..Len(ops) |-> Step(f, i)]
  <2> HIDE DEF Step
  <2> QED BY <1>3
<1>5. g = [i \in 0..Len(ops) |-> Step(g, i)]
  <2> HIDE DEF f
  <2> QED BY <1>4 DEF Atomic!Through
<1>6. \A i \in 0..Len(ops) : g[i] = Step(g, i)
  <2> HIDE DEF Step, g
  <2> QED BY <1>5, Zenon
<1> HIDE DEF g, f
<1>7. 0 \in P
  BY <1>1, <1>2, <1>6
<1>8. ASSUME NEW n \in Nat, n \in P PROVE n + 1 \in P
  <2> SUFFICES ASSUME n + 1 <= Len(ops) PROVE g[n + 1] = A(n + 1)
    OBVIOUS
  <2>1. n + 1 \in 0..Len(ops) /\ n + 1 # 0 /\ (n + 1) - 1 = n /\ n <= Len(ops) /\ n + 1 \in DOMAIN ops
    BY <1>1
  <2>2. g[n] = A(n)
    BY <1>8, <2>1
  <2>3. g[n + 1] = Atomic!After(w, ops[n + 1], g[n])
    BY <1>6, <2>1
  <2> QED BY <2>1, <2>2, <2>3, <1>2
<1>9. \A n \in Nat : n \in P
  <2> HIDE DEF P
  <2> QED BY <1>7, <1>8, Induct
<1> QED BY <1>9, <1>1 DEF A, g

\* Every operation up to the last is every operation.
LEMMA UpToAll ==
    ASSUME NEW w, NEW ops \in Seq(Op), NEW t, NEW rows
    PROVE  UpTo(w, ops, Len(ops), t, rows) = InOrder(w, ops, t, rows)
<1>1. \A j \in DOMAIN ops : j <= Len(ops)
  OBVIOUS
<1> QED BY <1>1 DEF UpTo, InOrder

\* The work of one transaction, as WorkOf has it.
WorkAt(w) ==
    [branch |-> plan[w].branch, seen |-> View(plan[w].start),
     ops |-> plan[w].direct \o plan[w].intents, chunks |-> plan[w].chunks]

\* What a whole transaction makes of a store.
LEMMA OutcomeIs ==
    ASSUME Shape, NEW w \in Writers, NEW T \in SUBSET Tables,
           NEW R \in [Tables -> SUBSET Row], NEW C
    PROVE  Atomic!Outcome(w, StoreWith(T, R, C)) =
               StoreWith(T \cup CreatedBy(AllOps(w), Len(AllOps(w))),
                         [t \in Tables |-> Serially(w, t, R[t])],
                         [c \in Chunks |-> IF c \in plan[w].chunks THEN w ELSE C[c]])
<1> DEFINE ops == AllOps(w)
           s == StoreWith(T, R, C)
           D == T \cup CreatedBy(ops, Len(ops))
           U == [t \in Tables |-> UpTo(w, ops, Len(ops), t, R[t])]
<1>1. ops \in Seq(Op) /\ Len(ops) \in 0..Len(ops)
  BY Places
<1>2. WorkOf[w].ops = ops /\ WorkOf[w].chunks = plan[w].chunks
  BY DEF WorkOf, AllOps
<1>3. Atomic!Through(w, ops, s)[Len(ops)] = StoreWith(D, U, C)
  <2>1. s = StoreWith(T, R, C)
    OBVIOUS
  <2> HIDE DEF ops, s
  <2>2. Atomic!Through(w, ops, s)[Len(ops)] = StoreAt(w, ops, Len(ops), T, R, C)
    BY <1>1, <2>1, ThroughIs
  <2> QED BY <2>2 DEF StoreAt
<1>4. U = [t \in Tables |-> Serially(w, t, R[t])]
  <2>1. \A t \in Tables : UpTo(w, ops, Len(ops), t, R[t]) = Serially(w, t, R[t])
    BY <1>1, UpToAll DEF Serially, AllOps
  <2> QED BY <2>1
<1>5. Atomic!Outcome(w, s) =
          [StoreWith(D, U, C) EXCEPT !.chunks = [c \in Chunks |-> IF c \in plan[w].chunks THEN w ELSE @[c]]]
  <2> HIDE DEF ops, s, D, U
  <2> QED BY <1>2, <1>3 DEF Atomic!Outcome
<1>6. [StoreWith(D, U, C) EXCEPT !.chunks = [c \in Chunks |-> IF c \in plan[w].chunks THEN w ELSE @[c]]]
          = StoreWith(D, U, [c \in Chunks |-> IF c \in plan[w].chunks THEN w ELSE C[c]])
  <2> HIDE DEF D, U
  <2> QED BY DEF StoreWith
<1> QED BY <1>4, <1>5, <1>6

(***************************************************************************)
(* Where the tables of a transaction come from.                            *)
(***************************************************************************)

\* The tables a transaction finds before its intents: those of the pointers it
\* adopted last, and those it created on tx.catalog.
Grounded(p, d) ==
    {t \in Tables : p[t] # Nil \/ \E i \in DOMAIN d : d[i].kind = "create" /\ d[i].table = t}

\* An intent creates a table.
Creates(s, j, t) == s[j].kind = "create" /\ s[j].table = t

\* An intent finds its table: there, or created by an earlier intent.
Ready(G, s, i) ==
    s[i].kind # "create" =>
        s[i].table \in G \/ \E j \in DOMAIN s : j < i /\ Creates(s, j, s[i].table)

\* The intents before the n-th found their tables and made those they create.
Found(p, q, d, s, n) ==
    \A i \in DOMAIN s : i < n =>
        /\ Ready(Grounded(p, d), s, i)
        /\ s[i].kind = "create" => p[s[i].table] # Nil \/ q[s[i].table] # Nil

\* A staged table was there or was created, by an intent up to which all found
\* theirs, maybe in an earlier, failed call of commit().
Sourced(p, q, d, s) ==
    \A t \in Tables : q[t] # Nil =>
        \/ t \in Grounded(p, d)
        \/ \E j \in DOMAIN s : Creates(s, j, t) /\ \A i \in DOMAIN s : i <= j => Ready(Grounded(p, d), s, i)

\* So it is with the direct work.
Stood(p, q, d) ==
    \A i \in DOMAIN d :
        IF d[i].kind = "create" THEN p[d[i].table] # Nil \/ q[d[i].table] # Nil
        ELSE p[d[i].table] # Nil

\* All of a transaction's work found its tables, or will before it is published.
Founded(w) ==
    /\ Found(catalog[w].pointers, catalog[w].staged, plan[w].direct, plan[w].intents, Applied(w))
    /\ Sourced(catalog[w].pointers, catalog[w].staged, plan[w].direct, plan[w].intents)
    /\ Stood(catalog[w].pointers, catalog[w].staged, plan[w].direct)
    /\ pc[w] = "open" /\ plan[w].direct = << >> => catalog[w].staged = NoPointers

\* Before the first intent there is nothing to find.
LEMMA FoundNone ==
    ASSUME NEW p, NEW q, NEW d, NEW s \in Seq(Op)
    PROVE  Found(p, q, d, s, 1)
<1>1. \A i \in DOMAIN s : ~(i < 1)
  OBVIOUS
<1> QED BY <1>1 DEF Found

\* The next intent finds its table, and may stage it.
LEMMA ApplyFinds ==
    ASSUME NEW p, NEW q, NEW q2, NEW d \in Seq(Op), NEW s \in Seq(Op), NEW n \in DOMAIN s,
           Found(p, q, d, s, n), Sourced(p, q, d, s), Stood(p, q, d),
           s[n].kind # "create" => p[s[n].table] # Nil \/ q[s[n].table] # Nil,
           s[n].kind = "create" => p[s[n].table] # Nil \/ q2[s[n].table] # Nil,
           \A t \in Tables : q[t] # Nil => q2[t] # Nil,
           \A t \in Tables : t # s[n].table => q2[t] = q[t]
    PROVE  Found(p, q2, d, s, n + 1) /\ Sourced(p, q2, d, s) /\ Stood(p, q2, d)
<1> DEFINE G == Grounded(p, d)
<1>a. DOMAIN s \subseteq Nat /\ (\A i \in DOMAIN s : s[i] \in Op) /\ \A i \in DOMAIN d : d[i] \in Op
  OBVIOUS
<1>b. \A o \in Op : o.table \in Tables
  BY DEF Op
<1>1. DOMAIN s \subseteq Nat /\ \A i \in DOMAIN s : s[i] \in Op /\ s[i].table \in Tables
  BY <1>a, <1>b
<1>2. \A i \in DOMAIN d : d[i].table \in Tables
  BY <1>a, <1>b
<1>3. \A t \in Tables : p[t] # Nil => t \in G
  BY DEF Grounded
<1>4. \A t \in Tables : q[t] # Nil =>
          t \in G \/ \E j \in DOMAIN s : Creates(s, j, t) /\ \A i \in DOMAIN s : i <= j => Ready(G, s, i)
  BY DEF Sourced
<1>5. \A i \in DOMAIN s : i < n => /\ Ready(G, s, i)
                                   /\ s[i].kind = "create" => p[s[i].table] # Nil \/ q[s[i].table] # Nil
  BY DEF Found
<1> HIDE DEF G
<1>6. Ready(G, s, n)
  <2> SUFFICES ASSUME s[n].kind # "create"
               PROVE  s[n].table \in G \/ \E j \in DOMAIN s : j < n /\ Creates(s, j, s[n].table)
    BY DEF Ready
  <2>1. CASE p[s[n].table] # Nil
    BY <2>1, <1>1, <1>3
  <2>2. CASE q[s[n].table] # Nil /\ s[n].table \notin G
    <3>1. PICK j \in DOMAIN s : Creates(s, j, s[n].table) /\ \A i \in DOMAIN s : i <= j => Ready(G, s, i)
      BY <2>2, <1>1, <1>4
    <3>2. CASE n <= j
      BY <3>1, <3>2 DEF Ready
    <3>3. CASE ~(n <= j)
      BY <3>1, <3>3, <1>1
    <3> QED BY <3>2, <3>3
  <2> QED BY <2>1, <2>2
<1>7. \A i \in DOMAIN s : i < n + 1 <=> (i < n \/ i = n)
  BY <1>1
<1>8. Found(p, q2, d, s, n + 1)
  <2>1. \A i \in DOMAIN s : i < n + 1 =>
            /\ Ready(G, s, i)
            /\ s[i].kind = "create" => p[s[i].table] # Nil \/ q2[s[i].table] # Nil
    BY <1>1, <1>5, <1>6, <1>7
  <2> QED BY <2>1 DEF Found, G
<1>9. Sourced(p, q2, d, s)
  <2> SUFFICES ASSUME NEW t \in Tables, q2[t] # Nil
               PROVE  t \in G \/ \E j \in DOMAIN s : Creates(s, j, t) /\ \A i \in DOMAIN s : i <= j => Ready(G, s, i)
    BY DEF Sourced, G
  <2>1. CASE q[t] # Nil
    BY <2>1, <1>4
  <2>2. CASE p[t] # Nil
    BY <2>2, <1>3
  <2>3. CASE q[t] = Nil /\ p[t] = Nil
    <3>1. t = s[n].table /\ s[n].kind = "create"
      BY <2>3
    <3>2. \A i \in DOMAIN s : i <= n => Ready(G, s, i)
      BY <1>1, <1>5, <1>6
    <3> QED BY <3>1, <3>2 DEF Creates
  <2> QED BY <2>1, <2>2, <2>3
<1>10. Stood(p, q2, d)
  BY <1>2 DEF Stood
<1> QED BY <1>8, <1>9, <1>10

\* One more intent is no obstacle to the others.
LEMMA RecordSources ==
    ASSUME NEW p, NEW q, NEW d, NEW s \in Seq(Op), NEW op \in Op, Sourced(p, q, d, s),
           NEW s2, s2 = Append(s, op)
    PROVE  Sourced(p, q, d, s2)
<1>1. /\ DOMAIN s = 1..Len(s) /\ DOMAIN s2 = 1..Len(s) + 1 /\ Len(s) \in Nat
      /\ \A i \in DOMAIN s : s2[i] = s[i]
  BY AppendProperties
<1>2. DOMAIN s \subseteq DOMAIN s2 /\ DOMAIN s2 \subseteq Nat
      /\ \A j \in DOMAIN s : \A i \in DOMAIN s2 : i <= j => i \in DOMAIN s
  BY <1>1
<1>3. \A G : \A i \in DOMAIN s : Ready(G, s, i) => Ready(G, s2, i)
  BY <1>1, <1>2 DEF Ready, Creates
<1> SUFFICES ASSUME NEW t \in Tables, q[t] # Nil, t \notin Grounded(p, d)
             PROVE  \E j \in DOMAIN s2 : /\ Creates(s2, j, t)
                                         /\ \A i \in DOMAIN s2 : i <= j => Ready(Grounded(p, d), s2, i)
  BY DEF Sourced
<1>4. PICK j \in DOMAIN s : Creates(s, j, t) /\ \A i \in DOMAIN s : i <= j => Ready(Grounded(p, d), s, i)
  BY DEF Sourced
<1>5. j \in DOMAIN s2 /\ Creates(s2, j, t)
  BY <1>1, <1>2, <1>4 DEF Creates
<1>6. \A i \in DOMAIN s2 : i <= j => Ready(Grounded(p, d), s2, i)
  BY <1>2, <1>3, <1>4
<1> QED BY <1>5, <1>6

\* A transaction whose pointers and operations stay is founded as it was.
LEMMA FoundedStays ==
    ASSUME Shape, NEW v \in Writers, Founded(v), SamePointers(v),
           UNCHANGED <<plan[v].intents, plan[v].direct>>,
           Applied(v)' = Applied(v) \/ Applied(v)' = 1,
           pc'[v] = "open" => pc[v] = "open"
    PROVE  Founded(v)'
<1>1. plan[v].intents \in Seq(Op)
  BY DEF Shape, TypeOK, Plan
<1>2. PICK p, q, d, s, n :
          p = catalog[v].pointers /\ q = catalog[v].staged /\ d = plan[v].direct
          /\ s = plan[v].intents /\ n = Applied(v)
  OBVIOUS
<1>3. p = catalog'[v].pointers /\ q = catalog'[v].staged /\ d = plan'[v].direct /\ s = plan'[v].intents
  BY <1>2 DEF SamePointers
<1>4. Found(p, q, d, s, n) /\ Found(p, q, d, s, 1) /\ Sourced(p, q, d, s) /\ Stood(p, q, d)
  BY <1>1, <1>2, FoundNone DEF Founded
<1>5. Found(p, q, d, s, Applied(v)')
  BY <1>2, <1>4
<1>6. pc'[v] = "open" /\ d = << >> => q = NoPointers
  BY <1>2 DEF Founded
<1> QED BY <1>3, <1>4, <1>5, <1>6 DEF Founded, NoPointers

\* Nothing staged, no direct work: nothing to found.
LEMMA FoundedAfresh ==
    ASSUME Shape, Shape', NEW w \in Writers,
           plan'[w].direct = << >>, catalog'[w].staged = NoPointers, pc'[w] # "apply"
    PROVE  Founded(w)'
<1>1. plan'[w].intents \in Seq(Op)
  BY DEF Shape, TypeOK, Plan
<1>2. PICK p, q, d, s :
          p = catalog'[w].pointers /\ q = catalog'[w].staged /\ d = plan'[w].direct /\ s = plan'[w].intents
  OBVIOUS
<1>3. Found(p, q, d, s, 1)
  BY <1>1, <1>2, FoundNone
<1>4. q = NoPointers /\ d = << >>
  BY <1>2
<1>5. Sourced(p, q, d, s)
  BY <1>4 DEF Sourced, NoPointers
<1>6. Stood(p, q, d)
  BY <1>4 DEF Stood
<1>7. Applied(w)' = 1
  BY DEF Applied
<1> QED BY <1>2, <1>3, <1>4, <1>5, <1>6, <1>7 DEF Founded, NoPointers

\* Staging an operation makes its table current and leaves the others.
LEMMA StageMakes ==
    ASSUME Shape, NEW w \in Writers, NEW op \in Op, Stage(w, op)
    PROVE  /\ catalog'[w].pointers = catalog[w].pointers
           /\ catalog'[w].staged[op.table] # Nil
           /\ \A t \in Tables : t # op.table => catalog'[w].staged[t] = catalog[w].staged[t]
           /\ \A t \in Tables : catalog[w].staged[t] # Nil => catalog'[w].staged[t] # Nil
<1>1. PICK new : new = NextLoc(w, op.table)
  OBVIOUS
<1>2. op.table \in Tables
  BY DEF Op
<1>3. /\ new \in Loc
      /\ \A v \in Writers : catalog'[v].pointers = catalog[v].pointers
      /\ \A t \in Tables : catalog'[w].staged[t] = IF t = op.table THEN new ELSE catalog[w].staged[t]
  BY <1>1, StageWrites
<1>4. new # Nil
  BY <1>3, NilAssumption
<1> QED BY <1>2, <1>3, <1>4

\* A table an operation finds is one of the pointers' or a staged one.
LEMMA FindsTable ==
    ASSUME NEW c, NEW op \in Op, ~Missing(c, op), op.kind # "create"
    PROVE  c.pointers[op.table] # Nil \/ c.staged[op.table] # Nil
<1>1. op.table \in Tables
  BY DEF Op
<1> QED BY <1>1 DEF Missing, CurrentPointers

\* The caller's steps keep a transaction founded.
LEMMA CallerFounds ==
    ASSUME Shape, Shape', NEW w \in Writers, Untouched(w), Directs(w), Founded(w), Caller(w)
    PROVE  Founded(w)'
<1>a. /\ pc \in [Writers -> Phases] /\ catalog \in [Writers -> Catalog]
      /\ plan \in [Writers -> Plan] /\ loop \in [Writers -> Loop]
      /\ plan[w].intents \in Seq(Op)
  BY DEF Shape, TypeOK, Plan
<1>b. ASSUME NEW err, Fail(w, err) PROVE Founded(w)'
  <2>1. pc'[w] = "failed" /\ UNCHANGED <<catalog, plan>>
    BY <1>a, <1>b DEF Fail
  <2>2. Applied(w)' = 1
    BY <2>1 DEF Applied
  <2> QED BY <2>1, <2>2, FoundedStays DEF SamePointers
<1>1. ASSUME NEW b \in Branches, NEW sb \in Branches, Open(w, b, sb) PROVE Founded(w)'
  <2>1. pc[w] = "idle" /\ pc'[w] = "open"
    BY <1>1, <1>a DEF Open
  <2>2. plan'[w].direct = plan[w].direct
    BY <1>1, <1>a DEF Open, Plan
  <2>3. catalog'[w].staged = NoPointers
    BY <1>1, <1>a, <2>1 DEF Open, Catalog, Untouched
  <2>4. plan'[w].direct = << >>
    BY <2>1, <2>2 DEF Directs
  <2> QED BY <2>1, <2>3, <2>4, FoundedAfresh
<1>2. ASSUME NEW b \in Branches, NEW sb \in Branches, RefuseSession(w, b, sb) PROVE Founded(w)'
  BY <1>2, <1>b DEF RefuseSession
<1>3. ASSUME NEW op \in Ops, CreateTable(w, op) \/ AppendRows(w, op) \/ RemoveRows(w, op)
      PROVE  Founded(w)'
  <2>1. op \in Op /\ pc[w] = "open" /\ UNCHANGED <<pc, catalog, loop>>
    BY <1>3, OpAssumption DEF CreateTable, AppendRows, RemoveRows, MayRecord
  <2>2. plan'[w].intents = Append(plan[w].intents, op) /\ plan'[w].direct = plan[w].direct
    BY <1>3, <1>a DEF CreateTable, AppendRows, RemoveRows, Plan
  <2>3. PICK p, q, d, s, s2 :
            /\ p = catalog[w].pointers /\ q = catalog[w].staged /\ d = plan[w].direct
            /\ s = plan[w].intents /\ s2 = plan'[w].intents
    OBVIOUS
  <2>4. p = catalog'[w].pointers /\ q = catalog'[w].staged /\ d = plan'[w].direct
    BY <2>1, <2>2, <2>3
  <2>5. s \in Seq(Op) /\ s2 = Append(s, op) /\ s2 \in Seq(Op)
    BY <1>a, <2>1, <2>2, <2>3, AppendProperties
  <2>6. Sourced(p, q, d, s) /\ Stood(p, q, d) /\ (d = << >> => q = NoPointers)
    BY <2>1, <2>3 DEF Founded
  <2>7. Sourced(p, q, d, s2)
    BY <2>1, <2>5, <2>6, RecordSources
  <2>8. Found(p, q, d, s2, 1)
    BY <2>5, FoundNone
  <2>9. Applied(w)' = 1
    BY <2>1 DEF Applied
  <2> QED BY <2>3, <2>4, <2>6, <2>7, <2>8, <2>9 DEF Founded, NoPointers
<1>4. ASSUME NEW c \in Chunks, WriteChunk(w, c) PROVE Founded(w)'
  <2>1. UNCHANGED <<pc, catalog, loop>>
    BY <1>4 DEF WriteChunk
  <2>2. plan'[w].intents = plan[w].intents /\ plan'[w].direct = plan[w].direct
    BY <1>4, <1>a DEF WriteChunk, Plan
  <2>3. Applied(w)' = Applied(w)
    BY <2>1 DEF Applied
  <2> QED BY <2>1, <2>2, <2>3, FoundedStays DEF SamePointers
<1>5. ASSUME NEW op \in DirectOps, Direct(w, op) PROVE Founded(w)'
  <2>1. /\ op \in Op /\ pc[w] = "open" /\ plan[w].direct = << >> /\ Stage(w, op)
        /\ ~Missing(catalog[w], op) /\ UNCHANGED <<pc, loop>>
    BY <1>5, OpAssumption DEF Direct
  <2>2. plan'[w].intents = plan[w].intents /\ plan'[w].direct = Append(plan[w].direct, op)
    BY <1>5, <1>a DEF Direct, Plan
  <2>3. PICK p, q, q2, d, s :
            /\ p = catalog[w].pointers /\ q = catalog[w].staged /\ q2 = catalog'[w].staged
            /\ d = plan'[w].direct /\ s = plan[w].intents
    OBVIOUS
  <2>4. p = catalog'[w].pointers /\ s = plan'[w].intents /\ d = <<op>> /\ s \in Seq(Op)
    BY <1>a, <2>1, <2>2, <2>3, StageMakes
  <2>5. op.table \in Tables /\ q = NoPointers /\ \A t \in Tables : q[t] = Nil
    BY <2>1, <2>3 DEF Founded, NoPointers, Op
  <2>6. q2[op.table] # Nil /\ \A t \in Tables : t # op.table => q2[t] = Nil
    <3>1. /\ catalog'[w].staged[op.table] # Nil
          /\ \A t \in Tables : t # op.table => catalog'[w].staged[t] = catalog[w].staged[t]
      BY <2>1, StageMakes
    <3> QED BY <2>3, <2>5, <3>1
  <2>7. op.kind # "create" => p[op.table] # Nil
    BY <2>1, <2>3, <2>5, FindsTable
  <2>8. DOMAIN d = {1} /\ d[1] = op
    BY <2>4
  <2>9. Stood(p, q2, d)
    BY <2>6, <2>7, <2>8 DEF Stood
  <2>10. Sourced(p, q2, d, s)
    BY <2>6, <2>7, <2>8 DEF Sourced, Grounded
  <2>11. Found(p, q2, d, s, 1)
    BY <2>4, FoundNone
  <2>12. Applied(w)' = 1 /\ d # << >>
    BY <2>1, <2>4 DEF Applied
  <2> QED BY <2>3, <2>4, <2>9, <2>10, <2>11, <2>12 DEF Founded
<1>6. CASE BodyRaises(w)
  BY <1>6, <1>b DEF BodyRaises
<1>7. CASE BeginCommit(w)
  <2>1. UNCHANGED <<catalog, plan>>
    BY <1>7 DEF BeginCommit
  <2>2. pc'[w] = "apply" /\ loop'[w].next = 1
    BY <1>7, <1>a DEF BeginCommit
  <2>3. Applied(w)' = 1
    BY <2>2 DEF Applied
  <2> QED BY <2>1, <2>2, <2>3, FoundedStays DEF SamePointers
<1> QED BY <1>1, <1>2, <1>3, <1>4, <1>5, <1>6, <1>7 DEF Caller

\* So do the steps of a running commit().
LEMMA CommitFounds ==
    ASSUME Shape, Shape', NEW w \in Writers, Directs(w), Founded(w),
           Commit(w) \/ StorageFault(w) \/ AnswerLost(w)
    PROVE  Founded(w)'
<1>a. /\ pc \in [Writers -> Phases] /\ catalog \in [Writers -> Catalog]
      /\ plan \in [Writers -> Plan] /\ loop \in [Writers -> Loop]
      /\ plan[w].intents \in Seq(Op) /\ plan[w].direct \in Seq(Op)
  BY DEF Shape, TypeOK, Plan
<1>b. ASSUME NEW err, Fail(w, err) PROVE Founded(w)'
  <2>1. pc'[w] = "failed" /\ UNCHANGED <<catalog, plan>>
    BY <1>a, <1>b DEF Fail
  <2>2. Applied(w)' = 1
    BY <2>1 DEF Applied
  <2> QED BY <2>1, <2>2, FoundedStays DEF SamePointers
<1>c. Applying(w) => /\ Intent(w) \in Op /\ pc[w] = "apply" /\ loop[w].next \in DOMAIN plan[w].intents
                     /\ Intent(w) = plan[w].intents[loop[w].next]
  BY <1>a DEF Applying, Intent, Loop
<1>1. CASE ApplyIntent(w) \/ ApplyNothing(w)
  <2>1. /\ Applying(w) /\ ~Missing(catalog[w], Intent(w)) /\ loop' = [loop EXCEPT ![w].next = @ + 1]
        /\ UNCHANGED <<pc, plan>>
    BY <1>1 DEF ApplyIntent, ApplyNothing
  <2>2. PICK p, q, q2, d, s, n, op :
            /\ p = catalog[w].pointers /\ q = catalog[w].staged /\ q2 = catalog'[w].staged
            /\ d = plan[w].direct /\ s = plan[w].intents /\ n = loop[w].next /\ op = Intent(w)
    OBVIOUS
  <2>3. /\ op \in Op /\ op.table \in Tables /\ s \in Seq(Op) /\ d \in Seq(Op) /\ n \in DOMAIN s /\ s[n] = op
        /\ Applied(w) = n
    BY <1>a, <1>c, <2>1, <2>2 DEF Applied, Op
  <2>4. Applied(w)' = n + 1 /\ pc'[w] = "apply"
    BY <1>a, <1>c, <2>1, <2>2 DEF Applied, Loop
  <2>5. Found(p, q, d, s, n) /\ Sourced(p, q, d, s) /\ Stood(p, q, d)
    BY <2>2, <2>3 DEF Founded
  <2>6. op.kind # "create" => p[op.table] # Nil \/ q[op.table] # Nil
    BY <2>1, <2>2, <2>3, FindsTable
  <2>7. /\ p = catalog'[w].pointers
        /\ op.kind = "create" => p[op.table] # Nil \/ q2[op.table] # Nil
        /\ \A t \in Tables : q[t] # Nil => q2[t] # Nil
        /\ \A t \in Tables : t # op.table => q2[t] = q[t]
    <3>1. CASE ApplyIntent(w)
      <4>1. Stage(w, op)
        BY <3>1, <2>2 DEF ApplyIntent
      <4> QED BY <4>1, <2>2, <2>3, StageMakes
    <3>2. CASE ApplyNothing(w)
      <4>1. UNCHANGED catalog /\ ~WritesMetadata(catalog[w], op)
        BY <3>2, <2>2 DEF ApplyNothing
      <4>2. op.kind = "create" => CurrentPointers(catalog[w])[op.table] # Nil
        BY <4>1 DEF WritesMetadata
      <4> QED BY <4>1, <4>2, <2>2, <2>3 DEF CurrentPointers
    <3> QED BY <1>1, <3>1, <3>2
  <2>8. Found(p, q2, d, s, n + 1) /\ Sourced(p, q2, d, s) /\ Stood(p, q2, d)
    BY <2>3, <2>5, <2>6, <2>7, ApplyFinds, ZenonT(60)
  <2> QED BY <2>1, <2>2, <2>4, <2>7, <2>8 DEF Founded
<1>3. CASE ApplyMissing(w) \/ RefuseEmpty(w) \/ Exhausted(w) \/ StorageFault(w)
  BY <1>3, <1>b DEF ApplyMissing, RefuseEmpty, Exhausted, StorageFault
<1>4. CASE RefuseUncovered(w) \/ RefuseRemoval(w) \/ RebaseFails(w)
  BY <1>4, <1>b DEF RefuseUncovered, RefuseRemoval, RebaseFails
<1>5. CASE Conflict(w) \/ Publish(w) \/ AnswerLost(w)
  <2>1. pc'[w] \in {"recover", "committed", "failed"} /\ UNCHANGED <<catalog, plan>>
    BY <1>5, <1>a DEF Conflict, Publish, AnswerLost
  <2>2. Applied(w)' = 1
    BY <2>1 DEF Applied
  <2> QED BY <2>1, <2>2, FoundedStays DEF SamePointers
<1>6. CASE Adopt(w)
  <2>1. pc[w] = "recover" /\ Orphaned(w) = {} /\ UNCHANGED <<plan, loop>>
    BY <1>6 DEF Adopt
  <2>2. pc'[w] = "rebase" /\ catalog'[w].staged = NoPointers
    BY <1>6, <1>a DEF Adopt, RebasedOnto, Catalog
  <2>3. plan[w].direct = << >>
    BY <2>1 DEF Directs, Orphaned
  <2> QED BY <2>1, <2>2, <2>3, FoundedAfresh
<1>7. CASE Rebase(w)
  <2>1. pc[w] = "rebase" /\ UNCHANGED <<catalog, plan>>
    BY <1>7 DEF Rebase
  <2>2. pc'[w] = "apply" /\ loop'[w].next = 1
    BY <1>7, <1>a DEF Rebase, Loop
  <2>3. Applied(w)' = 1
    BY <2>2 DEF Applied
  <2> QED BY <2>1, <2>2, <2>3, FoundedStays DEF SamePointers
<1> QED BY <1>1, <1>3, <1>4, <1>5, <1>6, <1>7 DEF Commit

\* The invariant of the refinement: what is staged is serial, and founded.
RInv == SInv /\ \A w \in Writers : Founded(w)

\* At the start nothing is staged.
LEMMA InitFounded == Init => RInv
<1> SUFFICES ASSUME Init PROVE RInv
  OBVIOUS
<1>1. SInv /\ Shape
  BY InitSerial, InitShape
<1>2. ASSUME NEW w \in Writers PROVE Founded(w)
  <2>1. pc[w] = "idle" /\ plan[w].intents = << >> /\ plan[w].direct = << >> /\ catalog[w].staged = NoPointers
    BY DEF Init
  <2>2. PICK p, q, d, s :
            p = catalog[w].pointers /\ q = catalog[w].staged /\ d = plan[w].direct /\ s = plan[w].intents
    OBVIOUS
  <2>3. Found(p, q, d, s, Applied(w)) /\ Stood(p, q, d)
    BY <2>1, <2>2 DEF Found, Stood
  <2>4. Sourced(p, q, d, s)
    BY <2>1, <2>2 DEF Sourced, NoPointers
  <2> QED BY <2>1, <2>2, <2>3, <2>4 DEF Founded
<1> QED BY <1>1, <1>2 DEF RInv

\* Every step keeps it, as long as the tips are still.
LEMMA NextFounded == RInv /\ [Next]_vars /\ [Still]_vars => RInv'
<1> SUFFICES ASSUME RInv, [Next]_vars, [Still]_vars PROVE RInv'
  OBVIOUS
<1>1. SInv' /\ Shape /\ Shape'
  BY NextSerial, NextShape DEF RInv, SInv, WInv, LInv
<1>2. \A v \in Writers : Founded(v) /\ Directs(v) /\ Untouched(v)
  BY DEF RInv, SInv, WInv, IInv, WriterInv
<1>3. ASSUME NEW v \in Writers,
             catalog'[v] = catalog[v], plan'[v] = plan[v], loop'[v] = loop[v], pc'[v] = pc[v]
      PROVE  Founded(v)'
  <2>1. Applied(v)' = Applied(v)
    BY <1>3 DEF Applied
  <2> QED BY <1>1, <1>2, <1>3, <2>1, FoundedStays DEF SamePointers
<1>4. CASE UNCHANGED vars
  <2>1. UNCHANGED <<pc, catalog, plan, loop>>
    BY <1>4 DEF vars
  <2> QED BY <1>1, <1>3, <2>1 DEF RInv
<1>5. ASSUME NEW w \in Writers, Caller(w) \/ Commit(w) \/ StorageFault(w) \/ AnswerLost(w)
      PROVE  RInv'
  <2>1. Founded(w)'
    BY <1>1, <1>2, <1>5, CallerFounds, CommitFounds
  <2>2. ASSUME NEW v \in Writers, v # w PROVE Founded(v)'
    <3>1. StepOf(w)
      BY <1>1, <1>5, CallerForms, CommitForms
    <3>2. catalog'[v] = catalog[v] /\ plan'[v] = plan[v] /\ loop'[v] = loop[v] /\ pc'[v] = pc[v]
      BY <2>2, <3>1 DEF StepOf, OwnStep
    <3> QED BY <1>3, <3>2
  <2> QED BY <1>1, <2>1, <2>2 DEF RInv
<1> QED BY <1>4, <1>5 DEF Next, Terminated

(***************************************************************************)
(* The tables a whole transaction leaves.                                  *)
(***************************************************************************)

\* Two batches, one after the other.
Joins(ops, d, s) ==
    /\ ops \in Seq(Op) /\ Len(d) \in Nat /\ Len(ops) = Len(d) + Len(s)
    /\ \A i \in DOMAIN d : i \in DOMAIN ops /\ i <= Len(d) /\ i >= 1 /\ ops[i] = d[i]
    /\ \A i \in DOMAIN s : i \in Nat /\ i >= 1 /\ Len(d) + i \in DOMAIN ops /\ ops[Len(d) + i] = s[i]
    /\ \A k \in DOMAIN ops : k \in DOMAIN d \/ \E i \in DOMAIN s : k = Len(d) + i

\* The work of a transaction is its direct work and then its intents.
LEMMA Joined ==
    ASSUME NEW d \in Seq(Op), NEW s \in Seq(Op), NEW ops, ops = d \o s
    PROVE  Joins(ops, d, s)
<1>1. /\ ops \in Seq(Op) /\ Len(d) \in Nat /\ Len(s) \in Nat /\ Len(ops) = Len(d) + Len(s)
      /\ DOMAIN ops = 1..Len(d) + Len(s) /\ DOMAIN d = 1..Len(d) /\ DOMAIN s = 1..Len(s)
      /\ \A i \in 1..Len(d) + Len(s) : ops[i] = IF i <= Len(d) THEN d[i] ELSE s[i - Len(d)]
  BY ConcatProperties
<1>2. \A i \in DOMAIN d : i \in DOMAIN ops /\ i <= Len(d) /\ i >= 1 /\ ops[i] = d[i]
  BY <1>1
<1>3. ASSUME NEW i \in DOMAIN s
      PROVE  i \in Nat /\ i >= 1 /\ Len(d) + i \in DOMAIN ops /\ ops[Len(d) + i] = s[i]
  <2>1. /\ i \in Nat /\ i >= 1 /\ i <= Len(s) /\ Len(d) + i \in 1..Len(d) + Len(s)
        /\ ~(Len(d) + i <= Len(d)) /\ (Len(d) + i) - Len(d) = i
    BY <1>1
  <2> QED BY <1>1, <2>1
<1>4. ASSUME NEW k \in DOMAIN ops, k \notin DOMAIN d
      PROVE  \E i \in DOMAIN s : k = Len(d) + i
  <2>1. k - Len(d) \in DOMAIN s /\ k = Len(d) + (k - Len(d))
    BY <1>1, <1>4
  <2> QED BY <2>1
<1> QED BY <1>1, <1>2, <1>3, <1>4 DEF Joins

\* Tables come from those there were and from the operations that create them.
Comes(p, q, T, ops) ==
    /\ {t \in Tables : p[t] # Nil \/ q[t] # Nil} = T \cup CreatedBy(ops, Len(ops))
    /\ \A k \in DOMAIN ops :
          ops[k].kind # "create" => ops[k].table \in T \cup CreatedBy(ops, k - 1)

\* Once all intents are applied, the tables are those adopted and those created,
\* and every operation found its table.
LEMMA TablesCome ==
    ASSUME NEW p, NEW q, NEW d \in Seq(Op), NEW s \in Seq(Op), NEW n, NEW ops, ops = d \o s,
           \A i \in DOMAIN s : i < n,
           Found(p, q, d, s, n), Sourced(p, q, d, s), Stood(p, q, d),
           NEW T, T = {t \in Tables : p[t] # Nil}
    PROVE  Comes(p, q, T, ops)
<1>0. Joins(ops, d, s)
  BY Joined
<1>1. /\ ops \in Seq(Op) /\ Len(d) \in Nat /\ Len(ops) = Len(d) + Len(s)
      /\ \A i \in DOMAIN d : i \in DOMAIN ops /\ i <= Len(d) /\ i >= 1 /\ ops[i] = d[i]
      /\ \A i \in DOMAIN s : i \in Nat /\ i >= 1 /\ Len(d) + i \in DOMAIN ops /\ ops[Len(d) + i] = s[i]
      /\ \A k \in DOMAIN ops : k \in DOMAIN d \/ \E i \in DOMAIN s : k = Len(d) + i
  BY <1>0 DEF Joins
<1>2. \A k \in DOMAIN ops : ops[k] \in Op /\ k \in Nat /\ k >= 1 /\ k <= Len(ops)
  BY <1>1
<1>3. \A o \in Op : o.table \in Tables
  BY DEF Op
<1>4. \A k \in DOMAIN ops : ops[k].table \in Tables
  BY <1>2, <1>3
<1>5. \A t \in Tables : t \in CreatedBy(ops, Len(ops)) <=> \E k \in DOMAIN ops : Creates(ops, k, t)
  BY <1>2 DEF CreatedBy, Creates
<1>6. \A i \in DOMAIN s : Ready(Grounded(p, d), s, i)
                          /\ (s[i].kind = "create" => p[s[i].table] # Nil \/ q[s[i].table] # Nil)
  BY DEF Found
<1>7. \A i \in DOMAIN d : IF d[i].kind = "create" THEN p[d[i].table] # Nil \/ q[d[i].table] # Nil
                          ELSE p[d[i].table] # Nil
  BY DEF Stood
<1>8. \A t \in Tables : t \in Grounded(p, d) =>
          p[t] # Nil \/ \E k \in DOMAIN d : Creates(ops, k, t)
  BY <1>1 DEF Grounded, Creates
<1>9. ASSUME NEW t \in Tables, p[t] # Nil \/ q[t] # Nil
      PROVE  p[t] # Nil \/ \E k \in DOMAIN ops : Creates(ops, k, t)
  <2>1. CASE p[t] # Nil \/ t \in Grounded(p, d)
    BY <2>1, <1>1, <1>8
  <2>2. CASE q[t] # Nil /\ t \notin Grounded(p, d)
    <3>1. PICK j \in DOMAIN s : Creates(s, j, t)
      BY <2>2 DEF Sourced
    <3>2. Len(d) + j \in DOMAIN ops /\ Creates(ops, Len(d) + j, t)
      BY <1>1, <3>1 DEF Creates
    <3> QED BY <3>2
  <2> QED BY <1>9, <2>1, <2>2
<1>10. ASSUME NEW t \in Tables, NEW k \in DOMAIN ops, Creates(ops, k, t)
       PROVE  p[t] # Nil \/ q[t] # Nil
  <2>1. CASE k \in DOMAIN d
    BY <2>1, <1>1, <1>7, <1>10 DEF Creates
  <2>2. CASE k \notin DOMAIN d
    <3>1. PICK i \in DOMAIN s : k = Len(d) + i
      BY <2>2, <1>1
    <3>2. s[i].kind = "create" /\ s[i].table = t
      BY <3>1, <1>1, <1>10 DEF Creates
    <3> QED BY <3>2, <1>6
  <2> QED BY <2>1, <2>2
<1>11. {t \in Tables : p[t] # Nil \/ q[t] # Nil} = T \cup CreatedBy(ops, Len(ops))
  <2>1. CreatedBy(ops, Len(ops)) \subseteq Tables
    BY DEF CreatedBy
  <2> QED BY <2>1, <1>5, <1>9, <1>10
<1>12. ASSUME NEW k \in DOMAIN ops, ops[k].kind # "create"
       PROVE  ops[k].table \in T \cup CreatedBy(ops, k - 1)
  <2>1. \A t \in Tables, j \in DOMAIN ops : j < k /\ Creates(ops, j, t) => t \in CreatedBy(ops, k - 1)
    <3>1. \A j \in DOMAIN ops : j < k => j <= k - 1
      BY <1>2
    <3> QED BY <3>1 DEF CreatedBy, Creates
  <2>2. CASE k \in DOMAIN d
    BY <2>2, <1>1, <1>4, <1>7, <1>12
  <2>3. CASE k \notin DOMAIN d
    <3>1. PICK i \in DOMAIN s : k = Len(d) + i
      BY <2>3, <1>1
    <3>2. PICK t \in Tables : t = s[i].table /\ t = ops[k].table
      BY <3>1, <1>1, <1>4
    <3>3. t \in Grounded(p, d) \/ \E j \in DOMAIN s : j < i /\ Creates(s, j, t)
      BY <3>1, <3>2, <1>1, <1>6, <1>12 DEF Ready
    <3>4. CASE p[t] # Nil
      BY <3>2, <3>4
    <3>5. CASE t \in Grounded(p, d) /\ p[t] = Nil
      <4>1. PICK j \in DOMAIN d : Creates(ops, j, t)
        BY <3>5, <1>8
      <4>2. j \in DOMAIN ops /\ j < k
        BY <3>1, <1>1
      <4> QED BY <4>1, <4>2, <2>1, <3>2
    <3>6. CASE \E j \in DOMAIN s : j < i /\ Creates(s, j, t)
      <4>1. PICK j \in DOMAIN s : j < i /\ Creates(s, j, t)
        BY <3>6
      <4>2. Len(d) + j \in DOMAIN ops /\ Creates(ops, Len(d) + j, t) /\ Len(d) + j < k
        BY <4>1, <3>1, <1>1 DEF Creates
      <4> QED BY <4>2, <2>1, <3>2
    <3> QED BY <3>3, <3>4, <3>5, <3>6
  <2> QED BY <2>2, <2>3
<1> QED BY <1>11, <1>12 DEF Comes

(***************************************************************************)
(* The parts of the mapping.                                               *)
(***************************************************************************)

\* Where a transaction is, as StatusOf has it.
StatusAt(w) ==
    CASE loop[w].err = "answer lost" -> "committed"
      [] loop[w].err # "answer lost" /\ pc[w] \in {"apply", "recover", "rebase"} -> "open"
      [] OTHER -> pc[w]

\* The status case by case: an answer that was lost is a commit.
LEMMA StatusIs ==
    ASSUME NEW w
    PROVE  /\ loop[w].err = "answer lost" => StatusAt(w) = "committed"
           /\ loop[w].err # "answer lost" /\ pc[w] \in {"apply", "recover", "rebase"} => StatusAt(w) = "open"
           /\ loop[w].err # "answer lost" /\ pc[w] \notin {"apply", "recover", "rebase"} => StatusAt(w) = pc[w]
BY DEF StatusAt

\* The work of a transaction has its four parts.
Work(b, v, o, c) == [branch |-> b, seen |-> v, ops |-> o, chunks |-> c]

\* What a reader of a snapshot sees never changes.
LEMMA ViewStays ==
    ASSUME Shape, Grows, NEW i \in DOMAIN snaps
    PROVE  View(i)' = View(i)
<1>1. snaps'[i] = snaps[i]
  BY DEF Grows
<1>2. {t \in Tables : snaps'[i].pointers[t] # Nil} = {t \in Tables : snaps[i].pointers[t] # Nil}
  BY <1>1
<1>3. \A t \in Tables : RowsAt(snaps[i].pointers, t)' = RowsAt(snaps[i].pointers, t)
  BY RowsStay
<1>4. [t \in Tables |-> RowsAt(snaps[i].pointers, t)]' = [t \in Tables |-> RowsAt(snaps[i].pointers, t)]
  BY <1>3
<1> QED BY <1>1, <1>2, <1>4 DEF View

\* The work of a transaction stays if its plan does.
LEMMA WorkStays ==
    ASSUME Shape, Grows, NEW v \in Writers, plan'[v] = plan[v]
    PROVE  WorkAt(v)' = WorkAt(v)
<1>1. PICK i : i = plan[v].start
  OBVIOUS
<1>2. i \in DOMAIN snaps
  BY <1>1 DEF Shape, Refs
<1>3. View(plan[v].start)' = View(i)'
  BY <1>1 DEF View
<1>4. View(i)' = View(plan[v].start)
  BY <1>1, <1>2, ViewStays
<1> QED BY <1>3, <1>4 DEF WorkAt

\* A step of w changes nothing of the other transactions, nor of a branch whose tip
\* stays.
LEMMA MapOthers ==
    ASSUME Shape, Grows, NEW w \in Writers, OwnStep(w)
    PROVE  /\ WorkOf' = [WorkOf EXCEPT ![w] = WorkAt(w)']
           /\ StatusOf' = [StatusOf EXCEPT ![w] = StatusAt(w)']
           /\ WorkOf[w] = WorkAt(w) /\ StatusOf[w] = StatusAt(w)
           /\ UNCHANGED tip => StoreOf' = StoreOf
<1>1. WorkOf = [v \in Writers |-> WorkAt(v)] /\ WorkOf' = [v \in Writers |-> WorkAt(v)']
  BY DEF WorkOf, WorkAt
<1>2. StatusOf = [v \in Writers |-> StatusAt(v)] /\ StatusOf' = [v \in Writers |-> StatusAt(v)']
  BY DEF StatusOf, StatusAt
<1>3. ASSUME NEW v \in Writers, v # w
      PROVE  WorkAt(v)' = WorkAt(v) /\ StatusAt(v)' = StatusAt(v)
  <2>1. plan'[v] = plan[v] /\ loop'[v] = loop[v] /\ pc'[v] = pc[v]
    BY <1>3 DEF OwnStep
  <2>2. WorkAt(v)' = WorkAt(v)
    BY <2>1, WorkStays
  <2>3. StatusAt(v)' = StatusAt(v)
    BY <2>1 DEF StatusAt
  <2> QED BY <2>2, <2>3
<1>4. WorkOf' = [WorkOf EXCEPT ![w] = WorkAt(w)'] /\ WorkOf[w] = WorkAt(w)
  BY <1>1, <1>3
<1>5. StatusOf' = [StatusOf EXCEPT ![w] = StatusAt(w)'] /\ StatusOf[w] = StatusAt(w)
  BY <1>2, <1>3
<1>6. ASSUME UNCHANGED tip PROVE StoreOf' = StoreOf
  <2>1. ASSUME NEW b \in Branches PROVE View(tip[b])' = View(tip[b])
    <3>1. PICK i : i = tip[b]
      OBVIOUS
    <3>2. i \in DOMAIN snaps
      BY <3>1 DEF Shape, TypeOK
    <3>3. View(tip[b])' = View(i)'
      BY <1>6, <3>1 DEF View
    <3> QED BY <3>1, <3>2, <3>3, ViewStays
  <2> QED BY <2>1 DEF StoreOf
<1> QED BY <1>4, <1>5, <1>6

\* What a reader and the caller of the atomic store would see stays.
Stutters == StoreOf' = StoreOf /\ WorkOf' = WorkOf /\ StatusOf' = StatusOf

\* Staging, conflicts, adopting and rebasing are unseen.
LEMMA MapStutter ==
    ASSUME Shape, Grows, NEW w \in Writers, OwnStep(w), UNCHANGED tip,
           plan'[w] = plan[w], StatusAt(w)' = StatusAt(w)
    PROVE  Stutters
<1>1. WorkAt(w)' = WorkAt(w)
  BY WorkStays
<1>2. WorkOf[w] = WorkAt(w) /\ StatusOf[w] = StatusAt(w)
  BY MapOthers
<1>3. WorkOf' = [WorkOf EXCEPT ![w] = WorkOf[w]]
  BY <1>1, <1>2, MapOthers
<1>4. StatusOf' = [StatusOf EXCEPT ![w] = StatusOf[w]]
  BY <1>2, MapOthers
<1>5. WorkOf' = WorkOf
  BY <1>3 DEF WorkOf
<1>6. StatusOf' = StatusOf
  BY <1>4 DEF StatusOf
<1> QED BY <1>5, <1>6, MapOthers DEF Stutters

(***************************************************************************)
(* The steps of the atomic store.                                          *)
(***************************************************************************)

\* Status of a transaction that did not end.
LEMMA StatusOpen ==
    ASSUME NEW w \in Writers, Carrying(w), pc[w] # "failed"
    PROVE  /\ loop[w].err # "answer lost"
           /\ pc[w] \in {"open", "apply", "recover", "rebase"} => StatusAt(w) = "open"
           /\ pc[w] = "idle" => StatusAt(w) = "idle"
<1>1. loop[w].err # "answer lost"
  BY DEF Carrying
<1> QED BY <1>1, StatusIs

\* An error before the end aborts the transaction.
LEMMA MapAbort ==
    ASSUME Shape, Grows, NEW w \in Writers, Carrying(w), OwnStep(w), NEW err, Fail(w, err),
           err # "answer lost", pc[w] \notin {"committed", "failed"}
    PROVE  Atomic!Abort(w)
<1>1. pc \in [Writers -> Phases] /\ loop \in [Writers -> Loop]
  BY DEF Shape, TypeOK
<1>2. pc'[w] = "failed" /\ loop'[w].err = err /\ UNCHANGED <<tip, plan>>
  BY <1>1 DEF Fail, Loop
<1>3. pc[w] \in {"idle", "open", "apply", "recover", "rebase"}
  BY <1>1 DEF Phases
<1>4. StatusAt(w) \in {"idle", "open"}
  BY <1>3, StatusOpen
<1>5. StatusAt(w)' = "failed"
  BY <1>2 DEF StatusAt
<1>6. WorkAt(w)' = WorkAt(w)
  BY <1>2, WorkStays
<1>7. /\ WorkOf' = [WorkOf EXCEPT ![w] = WorkAt(w)]
      /\ StatusOf' = [StatusOf EXCEPT ![w] = "failed"]
      /\ WorkOf[w] = WorkAt(w) /\ StatusOf[w] = StatusAt(w) /\ StoreOf' = StoreOf
  BY <1>2, <1>5, <1>6, MapOthers
<1>8. WorkOf' = WorkOf
  BY <1>7 DEF WorkOf
<1> QED BY <1>4, <1>7, <1>8 DEF Atomic!Abort

\* Opening begins the transaction, on what its branch holds.
LEMMA MapBegin ==
    ASSUME Shape, Grows, NEW w \in Writers, Carrying(w), OwnStep(w),
           NEW b \in Branches, NEW sb \in Branches, Open(w, b, sb)
    PROVE  Atomic!Begin(w, b)
<1>1. pc \in [Writers -> Phases] /\ plan \in [Writers -> Plan] /\ tip[b] \in DOMAIN snaps
  BY DEF Shape, TypeOK
<1>2. sb = b /\ pc[w] = "idle" /\ pc'[w] = "open" /\ UNCHANGED <<tip, loop>>
  BY <1>1 DEF Open, SessionAccepted
<1>3. /\ plan'[w].branch = b /\ plan'[w].start = tip[b] /\ plan'[w].chunks = plan[w].chunks
      /\ plan'[w].direct = plan[w].direct /\ plan'[w].intents = plan[w].intents
  BY <1>1, <1>2 DEF Open, Plan
<1>4. StatusAt(w) = "idle" /\ StatusAt(w)' = "open"
  BY <1>2, StatusOpen DEF StatusAt
<1>5. PICK i : i = tip[b]
  OBVIOUS
<1>6. View(plan[w].start)' = View(i)'
  BY <1>3, <1>5 DEF View
<1>7. View(plan[w].start)' = StoreOf[b]
  BY <1>1, <1>5, <1>6, ViewStays DEF StoreOf
<1>8. WorkAt(w)' = [WorkAt(w) EXCEPT !.branch = b, !.seen = StoreOf[b]]
  <2>1. PICK x, y, o, c : x = plan[w].branch /\ y = View(plan[w].start)
                          /\ o = plan[w].direct \o plan[w].intents /\ c = plan[w].chunks
    OBVIOUS
  <2>2. WorkAt(w) = Work(x, y, o, c)
    BY <2>1 DEF WorkAt, Work
  <2>3. plan'[w].direct \o plan'[w].intents = o
    BY <1>3, <2>1
  <2>4. WorkAt(w)' = Work(b, StoreOf[b], o, c)
    BY <1>3, <1>7, <2>1, <2>3 DEF WorkAt, Work
  <2>5. PICK st : st = StoreOf[b]
    OBVIOUS
  <2>6. [Work(x, y, o, c) EXCEPT !.branch = b, !.seen = st] = Work(b, st, o, c)
    <3>1. [Work(x, y, o, c) EXCEPT !.branch = b] = Work(b, y, o, c)
      BY DEF Work
    <3>2. [Work(b, y, o, c) EXCEPT !.seen = st] = Work(b, st, o, c)
      BY DEF Work
    <3> QED BY <3>1, <3>2
  <2> QED BY <2>2, <2>4, <2>5, <2>6
<1>9. /\ WorkOf' = [WorkOf EXCEPT ![w] = [WorkAt(w) EXCEPT !.branch = b, !.seen = StoreOf[b]]]
      /\ StatusOf' = [StatusOf EXCEPT ![w] = "open"]
      /\ WorkOf[w] = WorkAt(w) /\ StatusOf[w] = StatusAt(w) /\ StoreOf' = StoreOf
  BY <1>2, <1>4, <1>8, MapOthers
<1>10. WorkOf' = [WorkOf EXCEPT ![w].branch = b, ![w].seen = StoreOf[b]]
  BY <1>9 DEF WorkOf
<1> QED BY <1>4, <1>9, <1>10 DEF Atomic!Begin

\* An operation after the others, or before them.
LEMMA InsertEnds ==
    ASSUME NEW d \in Seq(Op), NEW s \in Seq(Op), NEW op \in Op
    PROVE  /\ d \o Append(s, op) = Atomic!InsertAt(d \o s, Len(d \o s) + 1, op)
           /\ <<op>> \o s = Atomic!InsertAt(<< >> \o s, 1, op)
<1>1. d \o Append(s, op) = Atomic!InsertAt(d \o s, Len(d \o s) + 1, op)
  <2>1. PICK ds \in Seq(Op) : ds = d \o s
    BY ConcatProperties
  <2>2. d \o Append(s, op) = Append(ds, op)
    BY <2>1
  <2>3. SubSeq(ds, 1, (Len(ds) + 1) - 1) = ds /\ SubSeq(ds, Len(ds) + 1, Len(ds)) = << >>
    OBVIOUS
  <2>4. (ds \o <<op>>) \o << >> = Append(ds, op)
    OBVIOUS
  <2> QED BY <2>1, <2>2, <2>3, <2>4 DEF Atomic!InsertAt
<1>2. <<op>> \o s = Atomic!InsertAt(<< >> \o s, 1, op)
  <2>1. << >> \o s = s
    OBVIOUS
  <2>2. SubSeq(s, 1, 1 - 1) = << >> /\ SubSeq(s, 1, Len(s)) = s
    OBVIOUS
  <2>3. << >> \o <<op>> = <<op>>
    OBVIOUS
  <2> QED BY <2>1, <2>2, <2>3 DEF Atomic!InsertAt
<1> QED BY <1>1, <1>2

\* Recording an intent, or working directly on the catalog, asks for an operation.
LEMMA MapAsk ==
    ASSUME Shape, Grows, NEW w \in Writers, Carrying(w), OwnStep(w), NEW op \in Op,
           pc[w] = "open", UNCHANGED <<tip, pc, loop>>, SamePlan(w),
           \/ plan'[w].intents = Append(plan[w].intents, op) /\ plan'[w].direct = plan[w].direct
           \/ /\ plan[w].direct = << >> /\ plan'[w].direct = <<op>>
              /\ plan'[w].intents = plan[w].intents
    PROVE  Atomic!Ask(w, op)
<1>1. plan[w].direct \in Seq(Op) /\ plan[w].intents \in Seq(Op)
  BY DEF Shape, TypeOK, Plan
<1>2. StatusAt(w) = "open" /\ StatusAt(w)' = StatusAt(w)
  BY StatusOpen DEF StatusAt
<1>3. View(plan[w].start)' = View(plan[w].start)
  <2>1. PICK i : i = plan[w].start
    OBVIOUS
  <2>2. i \in DOMAIN snaps /\ plan'[w].start = i
    BY <2>1 DEF Shape, Refs, SamePlan
  <2>3. View(plan[w].start)' = View(i)'
    BY <2>2 DEF View
  <2> QED BY <2>1, <2>2, <2>3, ViewStays
<1>4. PICK ops : ops = plan[w].direct \o plan[w].intents
  OBVIOUS
<1>5. Len(ops) \in Nat
  <2>1. PICK d \in Seq(Op), s \in Seq(Op) : d = plan[w].direct /\ s = plan[w].intents
    BY <1>1
  <2>2. d \o s \in Seq(Op)
    BY ConcatProperties
  <2>3. ops \in Seq(Op)
    BY <1>4, <2>1, <2>2
  <2> QED BY <2>3
<1>6. PICK i \in 1..Len(ops) + 1 : plan'[w].direct \o plan'[w].intents = Atomic!InsertAt(ops, i, op)
  <2>1. CASE plan'[w].intents = Append(plan[w].intents, op) /\ plan'[w].direct = plan[w].direct
    <3>1. Len(ops) + 1 \in 1..Len(ops) + 1
      BY <1>5
    <3>2. plan'[w].direct \o plan'[w].intents = Atomic!InsertAt(ops, Len(ops) + 1, op)
      BY <1>1, <1>4, <2>1, InsertEnds, ZenonT(60)
    <3> QED BY <3>1, <3>2
  <2>2. CASE plan[w].direct = << >> /\ plan'[w].direct = <<op>> /\ plan'[w].intents = plan[w].intents
    <3>1. 1 \in 1..Len(ops) + 1
      BY <1>5
    <3>2. plan'[w].direct \o plan'[w].intents = Atomic!InsertAt(ops, 1, op)
      BY <1>1, <1>4, <2>2, InsertEnds
    <3> QED BY <3>1, <3>2
  <2> QED BY <2>1, <2>2
<1>7. PICK new : new = Atomic!InsertAt(ops, i, op)
  OBVIOUS
<1>8. WorkAt(w)' = [WorkAt(w) EXCEPT !.ops = new] /\ WorkAt(w).ops = ops
  <2>1. PICK x, y, c : x = plan[w].branch /\ y = View(plan[w].start) /\ c = plan[w].chunks
    OBVIOUS
  <2>2. WorkAt(w) = Work(x, y, ops, c)
    BY <1>4, <2>1 DEF WorkAt, Work
  <2>3. plan'[w].direct \o plan'[w].intents = new /\ plan'[w].branch = x /\ plan'[w].chunks = c
    BY <1>6, <1>7, <2>1 DEF SamePlan
  <2>4. WorkAt(w)' = Work(x, y, new, c)
    BY <1>3, <2>1, <2>3 DEF WorkAt, Work
  <2> QED BY <2>2, <2>4 DEF Work
<1>9. /\ WorkOf' = [WorkOf EXCEPT ![w] = WorkAt(w)']
      /\ StatusOf' = [StatusOf EXCEPT ![w] = StatusOf[w]]
      /\ WorkOf[w] = WorkAt(w) /\ StatusOf[w] = "open" /\ StoreOf' = StoreOf
  BY <1>2, MapOthers
<1>10. WorkOf' = [WorkOf EXCEPT ![w].ops = new]
  BY <1>8, <1>9 DEF WorkOf
<1>11. StatusOf' = StatusOf
  BY <1>9 DEF StatusOf
<1>12. WorkOf[w].ops = ops
  BY <1>8, <1>9
<1>13. \E k \in 1..Len(WorkOf[w].ops) + 1 :
           WorkOf' = [WorkOf EXCEPT ![w].ops = Atomic!InsertAt(@, k, op)]
  <2>1. WorkOf' = [WorkOf EXCEPT ![w].ops = Atomic!InsertAt(@, i, op)]
    BY <1>7, <1>10, <1>12
  <2> QED BY <1>12, <2>1
<1> QED BY <1>9, <1>11, <1>13 DEF Atomic!Ask

\* A chunk written.
LEMMA MapWrite ==
    ASSUME Shape, Grows, NEW w \in Writers, Carrying(w), OwnStep(w), NEW c \in Chunks, WriteChunk(w, c)
    PROVE  Atomic!Write(w, c)
<1>1. plan \in [Writers -> Plan]
  BY DEF Shape, TypeOK
<1>2. pc[w] = "open" /\ UNCHANGED <<tip, pc, loop>>
  BY DEF WriteChunk
<1>3. /\ plan'[w].branch = plan[w].branch /\ plan'[w].start = plan[w].start
      /\ plan'[w].direct = plan[w].direct /\ plan'[w].intents = plan[w].intents
      /\ plan'[w].chunks = plan[w].chunks \cup {c}
  BY <1>1 DEF WriteChunk, Plan
<1>4. StatusAt(w) = "open" /\ StatusAt(w)' = StatusAt(w)
  BY <1>2, StatusOpen DEF StatusAt
<1>5. View(plan[w].start)' = View(plan[w].start)
  <2>1. PICK i : i = plan[w].start
    OBVIOUS
  <2>2. i \in DOMAIN snaps /\ plan'[w].start = i
    BY <1>3, <2>1 DEF Shape, Refs
  <2>3. View(plan[w].start)' = View(i)'
    BY <2>2 DEF View
  <2> QED BY <2>1, <2>2, <2>3, ViewStays
<1>6. WorkAt(w)' = [WorkAt(w) EXCEPT !.chunks = @ \cup {c}]
  <2>1. PICK x, y, o, e : x = plan[w].branch /\ y = View(plan[w].start)
                          /\ o = plan[w].direct \o plan[w].intents /\ e = plan[w].chunks
    OBVIOUS
  <2>2. WorkAt(w) = Work(x, y, o, e)
    BY <2>1 DEF WorkAt, Work
  <2>3. plan'[w].direct \o plan'[w].intents = o
    BY <1>3, <2>1
  <2>4. WorkAt(w)' = Work(x, y, o, e \cup {c})
    BY <1>3, <1>5, <2>1, <2>3 DEF WorkAt, Work
  <2>5. WorkAt(w).chunks = e
    BY <2>2 DEF Work
  <2> QED BY <2>2, <2>4, <2>5 DEF Work
<1>7. /\ WorkOf' = [WorkOf EXCEPT ![w] = WorkAt(w)']
      /\ StatusOf' = [StatusOf EXCEPT ![w] = StatusOf[w]]
      /\ WorkOf[w] = WorkAt(w) /\ StatusOf[w] = "open" /\ StoreOf' = StoreOf
  BY <1>2, <1>4, MapOthers
<1>8. WorkOf' = [WorkOf EXCEPT ![w].chunks = @ \cup {c}]
  BY <1>6, <1>7 DEF WorkOf
<1>9. StatusOf' = StatusOf
  BY <1>7 DEF StatusOf
<1> QED BY <1>7, <1>8, <1>9 DEF Atomic!Write

\* A call of commit() on a failed transaction resumes it.
LEMMA MapResume ==
    ASSUME Shape, Grows, NEW w \in Writers, OwnStep(w), BeginCommit(w), pc[w] = "failed"
    PROVE  Atomic!Resume(w)
<1>1. pc \in [Writers -> Phases] /\ loop \in [Writers -> Loop]
  BY DEF Shape, TypeOK
<1>2. loop[w].err # "answer lost" /\ UNCHANGED <<tip, plan>>
  BY DEF BeginCommit
<1>3. pc'[w] = "apply" /\ loop'[w].err = "none"
  BY <1>1 DEF BeginCommit
<1>4. StatusAt(w) = "failed" /\ StatusAt(w)' = "open"
  BY <1>2, <1>3 DEF StatusAt
<1>5. WorkAt(w)' = WorkAt(w)
  BY <1>2, WorkStays
<1>6. /\ WorkOf' = [WorkOf EXCEPT ![w] = WorkAt(w)]
      /\ StatusOf' = [StatusOf EXCEPT ![w] = "open"]
      /\ WorkOf[w] = WorkAt(w) /\ StatusOf[w] = "failed" /\ StoreOf' = StoreOf
  BY <1>2, <1>4, <1>5, MapOthers
<1>7. WorkOf' = WorkOf
  BY <1>6 DEF WorkOf
<1> QED BY <1>6, <1>7 DEF Atomic!Resume

\* What a snapshot shows is a store.
LEMMA ViewIs ==
    ASSUME Shape, NEW i \in DOMAIN snaps
    PROVE  /\ View(i) = StoreWith({t \in Tables : snaps[i].pointers[t] # Nil},
                                  [t \in Tables |-> RowsAt(snaps[i].pointers, t)], snaps[i].chunks)
           /\ [t \in Tables |-> RowsAt(snaps[i].pointers, t)] \in [Tables -> SUBSET Row]
<1>1. \A t \in Tables : RowsAt(snaps[i].pointers, t) \subseteq Row
  BY RowsAreRows DEF Shape, Refs
<1> QED BY <1>1 DEF View, StoreWith

\* The rows a transaction would publish are those its operations make of what it
\* adopted, and it takes away none but rows it saw.
LEMMA RowsCome ==
    ASSUME Shape, NEW w \in Writers, Settled(w), StagedSafe(w), AllApplied(w), NEW t \in Tables
    PROVE  /\ Shown(w, t) = Serially(w, t, Adopted(w, t))
           /\ Adopted(w, t) \ Shown(w, t) \subseteq RowsAt(Start(w), t)
<1>1. Shown(w, t) \subseteq Row
  BY CurrentPointersRefs, RowsAreRows DEF Shown
<1>2. Serially(w, t, Adopted(w, t)) \subseteq Row
  BY DEF Serially, InOrder
<1>3. Shown(w, t) = Serially(w, t, Adopted(w, t))
  BY <1>1, <1>2, ShownIsSerial
<1>4. CASE catalog[w].staged[t] = Nil
  <2>1. Shown(w, t) = Adopted(w, t)
    BY <1>4 DEF Shown, Adopted, RowsAt, CurrentPointers
  <2> QED BY <1>3, <2>1
<1>5. CASE catalog[w].staged[t] # Nil
  <2>1. Shown(w, t) = RowsAt(catalog[w].staged, t)
    BY <1>5 DEF Shown, RowsAt, CurrentPointers
  <2> QED BY <1>3, <1>5, <2>1 DEF StagedSafe, Adopted
<1> QED BY <1>3, <1>4, <1>5

\* Operations apply if each finds its table there or created.
LEMMA AppliesIf ==
    ASSUME NEW w \in Writers, NEW ops \in Seq(Op), NEW T \in SUBSET Tables,
           NEW R \in [Tables -> SUBSET Row], NEW C, NEW v, v = StoreWith(T, R, C),
           \A k \in DOMAIN ops :
               ops[k].kind # "create" => ops[k].table \in T \cup CreatedBy(ops, k - 1)
    PROVE  Atomic!Applies(w, ops, v)
<1> SUFFICES ASSUME NEW k \in DOMAIN ops, ops[k].kind # "create"
             PROVE  ops[k].table \in Atomic!Through(w, ops, v)[k - 1].tables
  BY DEF Atomic!Applies
<1>1. k - 1 \in 0..Len(ops)
  OBVIOUS
<1>2. Atomic!Through(w, ops, v)[k - 1] = StoreAt(w, ops, k - 1, T, R, C)
  BY <1>1, ThroughIs
<1>3. StoreAt(w, ops, k - 1, T, R, C).tables = T \cup CreatedBy(ops, k - 1)
  BY DEF StoreAt, StoreWith
<1> QED BY <1>2, <1>3

\* The store a commit at the tip lands on, and what it makes of it.
LEMMA LandsOn ==
    ASSUME RInv, NEW w \in Writers, AllApplied(w), AtTip(w)
    PROVE  /\ Atomic!Applies(w, AllOps(w), View(session[w].snap))
           /\ Atomic!Outcome(w, View(session[w].snap)) =
                 StoreWith({t \in Tables : CurrentPointers(catalog[w])[t] # Nil},
                           [t \in Tables |-> Shown(w, t)], NewSnapshot(w).chunks)
           /\ \A t \in Tables :
                 View(session[w].snap).rows[t] \ Shown(w, t) \subseteq View(plan[w].start).rows[t]
<1>1. Shape /\ Settled(w) /\ StagedSafe(w) /\ Current(w) /\ Carrying(w) /\ Founded(w)
  BY DEF RInv, SInv, WInv, DInv, LInv, Lineage, Ledger, IInv, WriterInv
<1>2. pc[w] = "apply" /\ loop[w].next > Len(plan[w].intents)
  BY DEF AllApplied
<1>3. catalog[w].pointers = snaps[session[w].snap].pointers /\ session[w].chunks = plan[w].chunks
  BY <1>1, <1>2 DEF Current, Carrying
<1>4. session[w].snap \in DOMAIN snaps /\ plan[w].start \in DOMAIN snaps
  BY <1>1 DEF Shape, Refs
<1>5. /\ plan[w].direct \in Seq(Op) /\ plan[w].intents \in Seq(Op) /\ loop[w].next \in Nat
  BY <1>1 DEF Shape, TypeOK, Plan, Loop
<1>6. PICK p, q, d, s, n, ops :
          /\ p = catalog[w].pointers /\ q = catalog[w].staged /\ d = plan[w].direct
          /\ s = plan[w].intents /\ n = loop[w].next /\ ops = AllOps(w)
  OBVIOUS
<1>7. d \in Seq(Op) /\ s \in Seq(Op) /\ n \in Nat /\ n > Len(s) /\ ops = d \o s /\ ops \in Seq(Op)
  BY <1>1, <1>2, <1>5, <1>6, Places DEF AllOps
<1>8. \A i \in DOMAIN s : i < n
  BY <1>7
<1>9. Found(p, q, d, s, n) /\ Sourced(p, q, d, s) /\ Stood(p, q, d)
  BY <1>1, <1>2, <1>6 DEF Founded, Applied
<1>10. PICK T : T = {t \in Tables : p[t] # Nil}
  OBVIOUS
<1>11. /\ {t \in Tables : p[t] # Nil \/ q[t] # Nil} = T \cup CreatedBy(ops, Len(ops))
       /\ \A k \in DOMAIN ops :
             ops[k].kind # "create" => ops[k].table \in T \cup CreatedBy(ops, k - 1)
  <2>1. Comes(p, q, T, ops)
    BY <1>7, <1>8, <1>9, <1>10, TablesCome
  <2> QED BY <2>1 DEF Comes
<1>12. T \in SUBSET Tables
  BY <1>10
<1>13. PICK R : R = [t \in Tables |-> Adopted(w, t)]
  OBVIOUS
<1>14. PICK C : C = snaps[session[w].snap].chunks
  OBVIOUS
<1>15. PICK v : v = View(session[w].snap)
  OBVIOUS
<1>16. v = StoreWith(T, R, C) /\ R \in [Tables -> SUBSET Row]
  <2>1. R = [t \in Tables |-> RowsAt(snaps[session[w].snap].pointers, t)]
    BY <1>3, <1>13 DEF Adopted
  <2>2. T = {t \in Tables : snaps[session[w].snap].pointers[t] # Nil}
    BY <1>3, <1>6, <1>10
  <2> QED BY <1>1, <1>4, <1>14, <1>15, <2>1, <2>2, ViewIs
<1>17. Atomic!Applies(w, ops, v)
  BY <1>7, <1>11, <1>12, <1>16, AppliesIf
<1>18. Atomic!Outcome(w, v) =
           StoreWith({t \in Tables : CurrentPointers(catalog[w])[t] # Nil},
                     [t \in Tables |-> Shown(w, t)], NewSnapshot(w).chunks)
  <2>1. Atomic!Outcome(w, StoreWith(T, R, C)) =
            StoreWith(T \cup CreatedBy(AllOps(w), Len(AllOps(w))),
                      [t \in Tables |-> Serially(w, t, R[t])],
                      [c \in Chunks |-> IF c \in plan[w].chunks THEN w ELSE C[c]])
    BY <1>1, <1>12, <1>16, OutcomeIs
  <2>2. \A t \in Tables : CurrentPointers(catalog[w])[t] # Nil <=> p[t] # Nil \/ q[t] # Nil
    BY <1>6 DEF CurrentPointers
  <2>3. {t \in Tables : CurrentPointers(catalog[w])[t] # Nil} = T \cup CreatedBy(AllOps(w), Len(AllOps(w)))
    BY <1>6, <1>11, <2>2
  <2>4. [t \in Tables |-> Serially(w, t, R[t])] = [t \in Tables |-> Shown(w, t)]
    <3>1. \A t \in Tables : R[t] = Adopted(w, t)
      BY <1>13
    <3>2. \A t \in Tables : Serially(w, t, R[t]) = Shown(w, t)
      BY <1>1, <3>1, RowsCome
    <3> QED BY <3>2
  <2>5. [c \in Chunks |-> IF c \in plan[w].chunks THEN w ELSE C[c]] = NewSnapshot(w).chunks
    BY <1>3, <1>14 DEF NewSnapshot
  <2> QED BY <1>16, <2>1, <2>3, <2>4, <2>5
<1>19. ASSUME NEW t \in Tables PROVE v.rows[t] \ Shown(w, t) \subseteq View(plan[w].start).rows[t]
  <2>1. v.rows[t] = Adopted(w, t)
    BY <1>13, <1>16 DEF StoreWith
  <2>2. View(plan[w].start).rows[t] = RowsAt(Start(w), t)
    BY DEF View, Start
  <2> QED BY <1>1, <2>1, <2>2, RowsCome
<1> QED BY <1>6, <1>15, <1>17, <1>18, <1>19

\* A commit that lands is the transaction taking effect.
LEMMA MapCommit ==
    ASSUME RInv, Shape', Grows, NEW w \in Writers, OwnStep(w), Publish(w) \/ AnswerLost(w)
    PROVE  Atomic!Commit(w)
<1>1. AllApplied(w) /\ AtTip(w) /\ Landed(w) /\ pc[w] = "apply"
  BY DEF Publish, AnswerLost, Landed, AllApplied
<1>2. Shape /\ Carrying(w)
  BY DEF RInv, SInv, WInv, LInv, Ledger
<1>3. /\ snaps \in Seq(Snapshot) /\ NewSnapshot(w) \in Snapshot /\ tip \in [Branches -> 1..Len(snaps)]
      /\ pc \in [Writers -> Phases] /\ loop \in [Writers -> Loop] /\ plan \in [Writers -> Plan]
      /\ snaps' = Append(snaps, NewSnapshot(w)) /\ UNCHANGED <<warehouse, catalog, plan>>
  BY <1>1, <1>2, NewSnapshotType DEF Landed, Shape, TypeOK
<1>4. PICK b, i, n : b = plan[w].branch /\ i = session[w].snap /\ n = Len(snaps) + 1
  OBVIOUS
<1>5. b \in Branches /\ session[w].branch = b /\ tip[b] = i /\ i \in DOMAIN snaps
  <2>1. plan[w].branch \in Branches
    BY <1>3 DEF Plan
  <2>2. session[w].branch = plan[w].branch
    BY <1>2 DEF Carrying
  <2>3. tip[b] = i
    BY <1>1, <1>4, <2>2 DEF AtTip
  <2>4. tip[b] \in 1..Len(snaps)
    BY <1>3, <1>4, <2>1
  <2> QED BY <1>3, <1>4, <2>1, <2>2, <2>3, <2>4
<1>6. tip' = [tip EXCEPT ![b] = n] /\ snaps'[n] = NewSnapshot(w)
  BY <1>1, <1>3, <1>4, <1>5 DEF Landed
<1>7. PICK now : now = View(i)
  OBVIOUS
<1>8. StoreOf[b] = now /\ WorkOf[w].branch = b /\ WorkOf[w].ops = AllOps(w) /\ WorkOf[w].seen = View(plan[w].start)
  BY <1>4, <1>5, <1>7 DEF StoreOf, WorkOf, AllOps
<1>9. PICK out : out = Atomic!Outcome(w, now)
  OBVIOUS
<1>10. /\ Atomic!Applies(w, AllOps(w), now)
       /\ out = StoreWith({t \in Tables : CurrentPointers(catalog[w])[t] # Nil},
                          [t \in Tables |-> Shown(w, t)], NewSnapshot(w).chunks)
       /\ \A t \in Tables : now.rows[t] \ Shown(w, t) \subseteq View(plan[w].start).rows[t]
  BY <1>1, <1>4, <1>7, <1>9, LandsOn
<1>11. View(n)' = out
  <2>1. snaps'[n].pointers = CurrentPointers(catalog[w]) /\ snaps'[n].chunks = NewSnapshot(w).chunks
    BY <1>6 DEF NewSnapshot, CommitMetadata
  <2>2. \A t \in Tables : RowsAt(snaps[n].pointers, t)' = Shown(w, t)
    BY <1>3, <2>1 DEF RowsAt, Shown
  <2>3. [t \in Tables |-> RowsAt(snaps[n].pointers, t)]' = [t \in Tables |-> Shown(w, t)]
    BY <2>2
  <2>4. {t \in Tables : snaps'[n].pointers[t] # Nil} = {t \in Tables : CurrentPointers(catalog[w])[t] # Nil}
    BY <2>1
  <2> QED BY <1>10, <2>1, <2>3, <2>4 DEF View, StoreWith
<1>12. StoreOf' = [StoreOf EXCEPT ![b] = out]
  <2>1. ASSUME NEW a \in Branches PROVE View(tip[a])' = IF a = b THEN out ELSE View(tip[a])
    <3>1. CASE a = b
      <4>1. tip'[a] = n
        BY <1>3, <1>5, <1>6, <3>1
      <4>2. View(tip[a])' = View(n)'
        BY <4>1 DEF View
      <4> QED BY <1>11, <3>1, <4>2
    <3>2. CASE a # b
      <4>1. PICK k : k = tip[a]
        OBVIOUS
      <4>2. tip'[a] = k /\ k \in DOMAIN snaps
        BY <1>3, <1>6, <3>2, <4>1
      <4>3. View(tip[a])' = View(k)'
        BY <4>2 DEF View
      <4> QED BY <1>2, <3>2, <4>1, <4>2, <4>3, ViewStays
    <3> QED BY <3>1, <3>2
  <2> QED BY <1>5, <2>1 DEF StoreOf
<1>13. StatusAt(w) = "open" /\ StatusAt(w)' = "committed"
  <2>1. StatusAt(w) = "open" /\ loop[w].err # "answer lost"
    BY <1>1, <1>2, StatusOpen
  <2>2. CASE Publish(w)
    <3>1. pc'[w] = "committed" /\ loop' = loop
      BY <1>3, <2>2 DEF Publish
    <3> QED BY <2>1, <3>1 DEF StatusAt
  <2>3. CASE AnswerLost(w)
    <3>1. loop'[w].err = "answer lost"
      BY <1>3, <2>3 DEF AnswerLost, Loop
    <3> QED BY <2>1, <3>1 DEF StatusAt
  <2> QED BY <2>2, <2>3
<1>14. /\ WorkOf' = [WorkOf EXCEPT ![w] = WorkAt(w)] /\ WorkOf[w] = WorkAt(w)
       /\ StatusOf' = [StatusOf EXCEPT ![w] = "committed"] /\ StatusOf[w] = "open"
  BY <1>2, <1>3, <1>13, WorkStays, MapOthers
<1>15. WorkOf' = WorkOf
  BY <1>14 DEF WorkOf
<1>16. \A t \in Tables : out.rows[t] = Shown(w, t)
  BY <1>10 DEF StoreWith
<1>17. \A t \in Tables : now.rows[t] \ out.rows[t] \subseteq WorkOf[w].seen.rows[t]
  BY <1>8, <1>10, <1>16
<1> QED BY <1>8, <1>9, <1>10, <1>12, <1>14, <1>15, <1>17 DEF Atomic!Commit

(***************************************************************************)
(* Every step is one of the atomic store's, or none.                       *)
(***************************************************************************)

\* At the start every branch shows the seed, and no transaction has begun.
LEMMA MapInit == Init => Atomic!Init
<1> SUFFICES ASSUME Init PROVE Atomic!Init
  OBVIOUS
<1>1. Shape /\ LInv
  BY InitShape, InitLedger
<1>2. snaps = <<FirstSnapshot(FirstBranch)>> /\ tip = [b \in Branches |-> 1] /\ DOMAIN snaps = {1}
  BY DEF Init
<1>3. \A b \in Branches : StoreOf[b] = View(1)
  BY <1>2 DEF StoreOf
<1>4. StatusOf = [w \in Writers |-> "idle"]
  BY DEF Init, StatusOf
<1>5. ASSUME NEW t \in Tables, NEW r \in View(1).rows[t] PROVE r.by \notin Writers
  <2>1. r \in RowsAt(snaps[1].pointers, t)
    BY DEF View
  <2>2. PICK i \in DOMAIN snaps : snaps[i].by = r.by
    BY <1>1, <1>2, <2>1 DEF LInv, Authorship, Published
  <2>3. r.by = Seeder
    BY <1>1, <1>2, <2>2 DEF LInv, Authorship
  <2> QED BY <2>3, WriterAssumption
<1>6. \A c \in Chunks : View(1).chunks[c] = Nil
  BY <1>2 DEF View, FirstSnapshot
<1>7. \A w \in Writers : WorkOf[w].ops = << >> /\ WorkOf[w].chunks = {}
  BY DEF Init, WorkOf
<1> QED BY <1>3, <1>4, <1>5, <1>6, <1>7 DEF Atomic!Init

\* The caller's steps.
LEMMA MapCaller ==
    ASSUME RInv, Shape', Grows, NEW w \in Writers, Caller(w)
    PROVE  Atomic!Next \/ Stutters
<1>1. Shape /\ Carrying(w) /\ OwnStep(w)
  BY CallerForms DEF RInv, SInv, WInv, LInv, Ledger, StepOf
<1>2. /\ pc \in [Writers -> Phases] /\ loop \in [Writers -> Loop] /\ plan \in [Writers -> Plan]
  BY <1>1 DEF Shape, TypeOK
<1>3. ASSUME NEW b \in Branches, NEW sb \in Branches, Open(w, b, sb) PROVE Atomic!Next
  <2>1. Atomic!Begin(w, b)
    BY <1>1, <1>3, MapBegin
  <2> QED BY <2>1 DEF Atomic!Next
<1>4. ASSUME NEW b \in Branches, NEW sb \in Branches, RefuseSession(w, b, sb) PROVE Atomic!Next
  <2>1. Fail(w, "session branch") /\ pc[w] = "idle"
    BY <1>4 DEF RefuseSession
  <2>2. Atomic!Abort(w)
    BY <1>1, <2>1, MapAbort
  <2> QED BY <2>2 DEF Atomic!Next
<1>5. ASSUME NEW op \in Ops, CreateTable(w, op) \/ AppendRows(w, op) \/ RemoveRows(w, op)
      PROVE  Atomic!Next
  <2>1. op \in Op /\ pc[w] = "open" /\ UNCHANGED <<tip, pc, loop>>
    BY <1>5, OpAssumption DEF CreateTable, AppendRows, RemoveRows, MayRecord
  <2>2. plan'[w].intents = Append(plan[w].intents, op) /\ plan'[w].direct = plan[w].direct /\ SamePlan(w)
    BY <1>2, <1>5 DEF CreateTable, AppendRows, RemoveRows, Plan, SamePlan
  <2>3. Atomic!Ask(w, op)
    BY <1>1, <2>1, <2>2, MapAsk
  <2>4. op \in Ops \cup DirectOps
    OBVIOUS
  <2> QED BY <2>3, <2>4 DEF Atomic!Next
<1>6. ASSUME NEW c \in Chunks, WriteChunk(w, c) PROVE Atomic!Next
  <2>1. Atomic!Write(w, c)
    BY <1>1, <1>6, MapWrite
  <2> QED BY <2>1 DEF Atomic!Next
<1>7. ASSUME NEW op \in DirectOps, Direct(w, op) PROVE Atomic!Next
  <2>1. op \in Op /\ pc[w] = "open" /\ UNCHANGED <<tip, pc, loop>> /\ plan[w].direct = << >>
    BY <1>7, OpAssumption DEF Direct
  <2>2. plan'[w].intents = plan[w].intents /\ plan'[w].direct = Append(plan[w].direct, op) /\ SamePlan(w)
    BY <1>2, <1>7 DEF Direct, Plan, SamePlan
  <2>3. plan'[w].direct = <<op>>
    BY <2>1, <2>2
  <2>4. Atomic!Ask(w, op)
    BY <1>1, <2>1, <2>2, <2>3, MapAsk
  <2>5. op \in Ops \cup DirectOps
    OBVIOUS
  <2> QED BY <2>4, <2>5 DEF Atomic!Next
<1>8. CASE BodyRaises(w)
  <2>1. Fail(w, "body raised") /\ pc[w] = "open"
    BY <1>8 DEF BodyRaises
  <2>2. Atomic!Abort(w)
    BY <1>1, <2>1, MapAbort
  <2> QED BY <2>2 DEF Atomic!Next
<1>9. CASE BeginCommit(w) /\ pc[w] = "failed"
  <2>1. Atomic!Resume(w)
    BY <1>1, <1>9, MapResume
  <2> QED BY <2>1 DEF Atomic!Next
<1>10. CASE BeginCommit(w) /\ pc[w] # "failed"
  <2>1. pc[w] = "open" /\ UNCHANGED <<tip, plan>>
    BY <1>10 DEF BeginCommit
  <2>2. pc'[w] = "apply" /\ loop'[w].err = "none"
    BY <1>2, <1>10 DEF BeginCommit
  <2>3. StatusAt(w) = "open" /\ StatusAt(w)' = "open"
    BY <1>1, <2>1, <2>2, StatusOpen DEF StatusAt
  <2> QED BY <1>1, <2>1, <2>3, MapStutter
<1> QED BY <1>3, <1>4, <1>5, <1>6, <1>7, <1>8, <1>9, <1>10 DEF Caller

\* The steps of a running commit().
LEMMA MapRunning ==
    ASSUME RInv, Shape', Grows, NEW w \in Writers, Commit(w) \/ StorageFault(w) \/ AnswerLost(w)
    PROVE  Atomic!Next \/ Stutters
<1>1. Shape /\ Carrying(w) /\ OwnStep(w)
  BY CommitForms DEF RInv, SInv, WInv, LInv, Ledger, StepOf
<1>2. pc \in [Writers -> Phases] /\ loop \in [Writers -> Loop]
  BY <1>1 DEF Shape, TypeOK
<1>3. ASSUME NEW err, Fail(w, err), err # "answer lost", pc[w] \notin {"committed", "failed"}
      PROVE  Atomic!Next
  <2>1. Atomic!Abort(w)
    BY <1>1, <1>3, MapAbort
  <2> QED BY <2>1 DEF Atomic!Next
<1>4. CASE ApplyMissing(w) \/ RefuseEmpty(w) \/ Exhausted(w) \/ StorageFault(w)
  <2>1. \E err \in {"no such table", "no changes", "ConflictError", "storage"} : Fail(w, err)
    BY <1>4 DEF ApplyMissing, RefuseEmpty, Exhausted, StorageFault
  <2>2. pc[w] = "apply"
    BY <1>4 DEF ApplyMissing, RefuseEmpty, Exhausted, StorageFault, Applying, AllApplied
  <2> QED BY <1>3, <2>1, <2>2
<1>5. CASE RefuseUncovered(w) \/ RefuseRemoval(w) \/ RebaseFails(w)
  <2>1. \E err \in {"UnreplayableChangeError", "TableConflictError", "RebaseFailedError"} : Fail(w, err)
    BY <1>5 DEF RefuseUncovered, RefuseRemoval, RebaseFails
  <2>2. pc[w] \in {"recover", "rebase"}
    BY <1>5 DEF RefuseUncovered, RefuseRemoval, RebaseFails
  <2> QED BY <1>3, <2>1, <2>2
<1>6. CASE Publish(w) \/ AnswerLost(w)
  <2>1. Atomic!Commit(w)
    BY <1>1, <1>6, MapCommit
  <2> QED BY <2>1 DEF Atomic!Next
<1>7. CASE ApplyIntent(w) \/ ApplyNothing(w) \/ Conflict(w) \/ Adopt(w) \/ Rebase(w)
  <2>1. UNCHANGED <<tip, plan>> /\ pc[w] \in {"apply", "recover", "rebase"}
    BY <1>7 DEF ApplyIntent, ApplyNothing, Conflict, Adopt, Rebase, Applying, AllApplied
  <2>2. pc'[w] \in {"apply", "recover", "rebase"} /\ loop'[w].err = loop[w].err
    BY <1>2, <1>7, <2>1 DEF ApplyIntent, ApplyNothing, Conflict, Adopt, Rebase, Loop
  <2>3. StatusAt(w) = "open" /\ loop[w].err # "answer lost"
    BY <1>1, <2>1, StatusOpen
  <2>4. StatusAt(w)' = "open"
    BY <2>2, <2>3 DEF StatusAt
  <2> QED BY <1>1, <2>1, <2>3, <2>4, MapStutter
<1> QED BY <1>4, <1>5, <1>6, <1>7 DEF Commit

\* Every step is a step of the atomic store, or one it does not see.
LEMMA MapNext == RInv /\ [Next]_vars => [Atomic!Next]_(Atomic!vars)
<1> SUFFICES ASSUME RInv, [Next]_vars PROVE Atomic!Next \/ Stutters
  BY DEF Stutters, Atomic!vars
<1>1. Shape /\ Shape' /\ Grows
  BY NextShape, StepGrows DEF RInv, SInv, WInv, LInv
<1>2. CASE UNCHANGED vars
  <2>1. StoreOf' = StoreOf
    BY <1>2 DEF vars, StoreOf, View, RowsAt
  <2>2. WorkOf' = WorkOf
    BY <1>2 DEF vars, WorkOf, View, RowsAt
  <2>3. StatusOf' = StatusOf
    BY <1>2 DEF vars, StatusOf
  <2> QED BY <2>1, <2>2, <2>3 DEF Stutters
<1>3. ASSUME NEW w \in Writers, Caller(w) \/ Commit(w) \/ StorageFault(w) \/ AnswerLost(w)
      PROVE  Atomic!Next \/ Stutters
  BY <1>1, <1>3, MapCaller, MapRunning
<1> QED BY <1>2, <1>3 DEF Next, Terminated

\* commit() implements the atomic store: whatever conflicts, replays, storage
\* errors, lost answers and second calls there are, a transaction takes effect
\* whole, in one step, on what its branch holds then, or not at all - unless a
\* commit lands between the two reads of the tip in _recover.
THEOREM CommitIsAtomic == Spec /\ TipStill => Implements
<1>1. RInv /\ [Next]_vars /\ [Still]_vars => [Atomic!Next]_(Atomic!vars)
  BY MapNext
<1>2. Spec /\ TipStill => []RInv
  BY InitFounded, NextFounded, PTL DEF Spec, TipStill
<1> QED BY <1>1, <1>2, MapInit, PTL DEF Spec, TipStill, Implements, Atomic!Spec

\* With two writers no third commit can land between the two reads: commit()
\* implements the atomic store in every interleaving.
THEOREM TwoWritersAreAtomic ==
    ASSUME AtMostTwo
    PROVE  Spec => Implements
<1>1. LInv /\ [Next]_vars => [Still]_vars
  BY TwoKeepStill
<1>2. RInv => LInv
  BY DEF RInv, SInv, WInv
<1>3. RInv /\ [Next]_vars => RInv'
  BY <1>1, <1>2, NextFounded
<1>4. RInv /\ [Next]_vars => [Atomic!Next]_(Atomic!vars)
  BY MapNext
<1>5. Spec => []RInv
  BY <1>3, InitFounded, PTL DEF Spec
<1> QED BY <1>4, <1>5, MapInit, PTL DEF Spec, Implements, Atomic!Spec
=============================================================================
