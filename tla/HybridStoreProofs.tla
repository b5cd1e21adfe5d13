-------------------------- MODULE HybridStoreProofs --------------------------
(***************************************************************************)
(* Theorems about HybridStore, for any number of writers, tables, keys,    *)
(* branches, operations and retries: types, time travel and the isolation  *)
(* of removals; all or nothing, giving up only when overtaken, and no lost *)
(* update; declarations that resolve.  RefinementProofs goes on with       *)
(* serializability and the refinement of AtomicStore.                      *)
(***************************************************************************)
EXTENDS HybridStore, FiniteSetTheorems, TLAPS

(***************************************************************************)
(* What the table operations return.                                       *)
(***************************************************************************)

\* The version a CREATE TABLE leaves is a version.
LEMMA NewTableType == NewTable \in Metadata
BY DEF NewTable, Metadata

\* The rows a caller hands to append or overwrite are rows.
LEMMA DataRowsType ==
    ASSUME NEW w \in Writers, NEW op \in Op
    PROVE  DataRows(w, op) \subseteq Row
BY DEF DataRows, Op, Row, Authors

\* Recording a snapshot on a version makes a version.
LEMMA WithSnapshotType ==
    ASSUME NEW m \in Metadata, NEW id \in Loc, NEW dropped,
           NEW added \in SUBSET File
    PROVE  WithSnapshot(m, id, dropped, added) \in Metadata
BY DEF WithSnapshot, Metadata, Recorded

\* A copy-on-write rewrite writes files.
LEMMA RewritesType ==
    ASSUME NEW m \in Metadata, NEW pred
    PROVE  Rewrites(m, pred) \in SUBSET File
<1>1. \A f \in m.files : f \in File
  BY DEF Metadata
<1>2. \A f \in File : [orig |-> f.orig, rows |-> f.rows \ Matching(f.rows, pred)] \in File
  BY DEF File
<1> QED BY <1>1, <1>2 DEF Rewrites, Touched

\* Every table operation turns a version into a version.
LEMMA ResultType ==
    ASSUME NEW w \in Writers, NEW op \in Op, NEW m \in Metadata, NEW id \in Loc
    PROVE  Result(w, op, m, id) \in Metadata
<1>1. [orig |-> id, rows |-> DataRows(w, op)] \in File
  BY DataRowsType DEF File
<1>2. CASE op.kind = "create"
  BY <1>2, NewTableType DEF Result
<1>3. CASE op.kind = "append"
  BY <1>1, <1>3, WithSnapshotType DEF Result, Appended
<1>4. CASE op.kind = "delete"
  BY <1>4, RewritesType, WithSnapshotType DEF Result, Deleted
<1>5. CASE op.kind = "overwrite"
  <2>1. Rewrites(m, op.pred) \cup {[orig |-> id, rows |-> DataRows(w, op)]} \in SUBSET File
    BY <1>1, RewritesType
  <2> QED BY <1>5, <2>1, WithSnapshotType DEF Result, Overwritten
<1> QED BY <1>2, <1>3, <1>4, <1>5 DEF Op, Kinds

(***************************************************************************)
(* The inductive invariant.                                                *)
(***************************************************************************)

\* Where metadata locations come from: nothing points at a file that was not
\* written, and every transaction holds on to snapshots that exist.
Written == DOMAIN warehouse \cup {Nil}
Refs ==
    /\ \A i \in DOMAIN snaps : \A t \in Tables : snaps[i].pointers[t] \in Written
    /\ \A w \in Writers :
        /\ session[w].snap \in DOMAIN snaps
        /\ plan[w].start \in DOMAIN snaps
        /\ \A t \in Tables : catalog[w].pointers[t] \in Written
        /\ \A t \in Tables : catalog[w].staged[t] \in Written

\* A writer's next metadata file has a name no file has.
Fresh ==
    \A l \in DOMAIN warehouse : l.by \in Writers => l.n <= catalog[l.by].written

\* commit() recovers only when it has a retry left.
Retrying ==
    \A w \in Writers :
        pc[w] \in {"recover", "rebase"} => loop[w].attempt < MaxRetries

\* A version's history accounts for its rows: the version records its own
\* location as the last snapshot, each snapshot once, and each row was in the
\* version any one of these snapshots names or was added after it.
History(l) ==
    LET m == warehouse[l] IN
    /\ m.snaps = << >> => m.files = {}
    /\ m.snaps # << >> => m.snaps[Len(m.snaps)].id = l
    /\ \A i \in DOMAIN m.snaps : m.snaps[i].id \in DOMAIN warehouse
    /\ \A i, j \in DOMAIN m.snaps : m.snaps[i].id = m.snaps[j].id => i = j
    /\ \A i \in DOMAIN m.snaps : \A r \in Rows(m) :
          \/ r \in Rows(warehouse[m.snaps[i].id])
          \/ \E j \in DOMAIN m.snaps : j > i /\ \E f \in m.snaps[j].added : r \in f.rows
Histories == \A l \in DOMAIN warehouse : History(l)

\* The pointers a transaction started from.
Start(w) == snaps[plan[w].start].pointers

\* The left edge of a validation window is the version the transaction started
\* from, or the table was staged past the intents and no replay will be tried.
Anchored(w) ==
    \A t \in Tables :
        plan[w].base[t] # Nil =>
            \/ plan[w].base[t] = Start(w)[t]
            \/ /\ catalog[w].staged[t] # Nil
               /\ pc[w] \in {"apply", "recover"} => t \in loop[w].unmanaged
               /\ pc[w] # "rebase"

Removals == {"delete", "overwrite"}

\* Whatever a removal selects in the version it will be applied to was there
\* when the transaction started.
RemovalsSafe(w) ==
    \A i \in DOMAIN plan[w].intents :
        LET op == plan[w].intents[i] IN
        op.kind \in Removals =>
            Matching(RowsAt(catalog[w].pointers, op.table), op.pred)
                \subseteq RowsAt(Start(w), op.table)

\* NoBlindRemoval, for one transaction.
StagedSafe(w) ==
    \A t \in Tables :
        catalog[w].staged[t] # Nil =>
            RowsAt(catalog[w].pointers, t) \ RowsAt(catalog[w].staged, t)
                \subseteq RowsAt(Start(w), t)

\* Nothing is replayed before commit() is called.
Untouched(w) ==
    /\ pc[w] = "open" => catalog[w].pointers = Start(w)
    /\ pc[w] = "idle" => catalog[w].staged = NoPointers /\ plan[w].intents = << >>
                         /\ plan[w].base = NoPointers

Shape        == TypeOK /\ Refs /\ Fresh /\ Retrying
WriterInv(w) == Anchored(w) /\ RemovalsSafe(w) /\ StagedSafe(w) /\ Untouched(w)
IInv         == Shape /\ Histories /\ \A w \in Writers : WriterInv(w)

(***************************************************************************)
(* The shape of the state.                                                 *)
(***************************************************************************)

\* The pointer map a transaction would publish points at written files.
LEMMA CurrentPointersRefs ==
    ASSUME Shape, NEW w \in Writers
    PROVE  /\ CurrentPointers(catalog[w]) \in Pointers
           /\ \A t \in Tables : CurrentPointers(catalog[w])[t] \in Written
BY DEF Shape, TypeOK, Refs, CurrentPointers, Catalog, Pointers

\* The version an operation starts from is a version.
LEMMA BaseVersion ==
    ASSUME Shape, NEW w \in Writers, NEW t \in Tables
    PROVE  LET loc == CurrentPointers(catalog[w])[t]
           IN  (IF loc = Nil THEN NewTable ELSE warehouse[loc]) \in Metadata
BY CurrentPointersRefs, NewTableType DEF Shape, TypeOK, Written

\* The name of the next metadata file is a fresh location.
LEMMA NextLocFresh ==
    ASSUME Shape, NEW w \in Writers, NEW t \in Tables
    PROVE  NextLoc(w, t) \in Loc /\ NextLoc(w, t) \notin DOMAIN warehouse
<1>1. catalog[w].written \in Nat
  BY DEF Shape, TypeOK, Catalog
<1>2. NextLoc(w, t).by = w /\ NextLoc(w, t).n = catalog[w].written + 1
  BY DEF NextLoc
<1>3. NextLoc(w, t) \in Loc
  BY <1>1 DEF NextLoc, Loc, Authors
<1> QED BY <1>1, <1>2, <1>3 DEF Shape, Fresh

\* A snapshot id a version records is a location.
LEMMA CurrentSnapshotIdType ==
    ASSUME NEW m \in Metadata
    PROVE  CurrentSnapshotId(m) \in Loc \cup {Nil}
<1>1. m.snaps \in Seq(Recorded)
  BY DEF Metadata
<1>2. CASE m.snaps = << >>
  BY <1>2 DEF CurrentSnapshotId
<1>3. CASE m.snaps # << >>
  <2>1. m.snaps[Len(m.snaps)] \in Recorded
    BY <1>1, <1>3
  <2> QED BY <1>3, <2>1 DEF CurrentSnapshotId, Recorded
<1> QED BY <1>2, <1>3

\* Staging a table version writes one fresh file and leaves the rest alone.
LEMMA StageWrites ==
    ASSUME Shape, NEW w \in Writers, NEW op \in Op, Stage(w, op)
    PROVE  LET new == NextLoc(w, op.table) IN
           /\ new \in Loc /\ new \notin DOMAIN warehouse
           /\ DOMAIN warehouse' = DOMAIN warehouse \cup {new}
           /\ \A l \in DOMAIN warehouse : warehouse'[l] = warehouse[l]
           /\ warehouse'[new] \in Metadata
           /\ catalog' \in [Writers -> Catalog]
           /\ \A v \in Writers : catalog'[v].pointers = catalog[v].pointers
           /\ \A v \in Writers : v # w => catalog'[v] = catalog[v]
           /\ \A t \in Tables : catalog'[w].staged[t] =
                  IF t = op.table THEN new ELSE catalog[w].staged[t]
           /\ catalog'[w].written = catalog[w].written + 1
<1> DEFINE new == NextLoc(w, op.table)
           loc == CurrentPointers(catalog[w])[op.table]
           base == IF loc = Nil THEN NewTable ELSE warehouse[loc]
<1>1. op.table \in Tables
  BY DEF Op
<1>2. new \in Loc /\ new \notin DOMAIN warehouse
  BY <1>1, NextLocFresh
<1>3. base \in Metadata
  BY <1>1, BaseVersion
<1>4. Result(w, op, base, new) \in Metadata
  BY <1>2, <1>3, ResultType
<1> HIDE DEF base
<1>5. warehouse' = [l \in DOMAIN warehouse \cup {new} |->
                       IF l = new THEN Result(w, op, base, new) ELSE warehouse[l]]
  BY DEF Stage, base
<1> DEFINE st == [catalog[w].staged EXCEPT ![op.table] = new]
           c  == [pointers |-> catalog[w].pointers, staged |-> st,
                  written |-> catalog[w].written + 1]
<1>6. catalog' = [catalog EXCEPT ![w] = c]
  BY DEF Stage
<1> HIDE DEF new
<1>7. catalog' \in [Writers -> Catalog]
  <2>1. catalog[w] \in Catalog
    BY DEF Shape, TypeOK
  <2>2. st \in Pointers
    BY <1>1, <1>2, <2>1 DEF Catalog, Pointers
  <2> HIDE DEF st
  <2>3. c \in Catalog
    BY <2>1, <2>2 DEF Catalog
  <2> QED BY <1>6, <2>3 DEF Shape, TypeOK
<1>8. /\ \A v \in Writers : catalog'[v].pointers = catalog[v].pointers
      /\ \A v \in Writers : v # w => catalog'[v] = catalog[v]
      /\ \A t \in Tables : catalog'[w].staged[t] =
                  IF t = op.table THEN new ELSE catalog[w].staged[t]
      /\ catalog'[w].written = catalog[w].written + 1
  BY <1>6 DEF Shape, TypeOK, Catalog, Pointers
<1>9. /\ DOMAIN warehouse' = DOMAIN warehouse \cup {new}
      /\ \A l \in DOMAIN warehouse : warehouse'[l] = warehouse[l]
      /\ warehouse'[new] \in Metadata
  BY <1>2, <1>4, <1>5
<1> QED BY <1>2, <1>7, <1>8, <1>9 DEF new

\* So it keeps the shape, if the rest of the state does.
LEMMA StageShape ==
    ASSUME Shape, NEW w \in Writers, NEW op \in Op, Stage(w, op),
           UNCHANGED <<snaps, tip, faults, pc, session>>,
           plan' \in [Writers -> Plan], loop' \in [Writers -> Loop],
           \A v \in Writers : plan'[v].start = plan[v].start,
           \A v \in Writers : loop'[v].attempt = loop[v].attempt
    PROVE  Shape'
<1> DEFINE new == NextLoc(w, op.table)
<1>1. /\ new \in Loc /\ new \notin DOMAIN warehouse
      /\ DOMAIN warehouse' = DOMAIN warehouse \cup {new}
      /\ \A l \in DOMAIN warehouse : warehouse'[l] = warehouse[l]
      /\ warehouse'[new] \in Metadata
  BY StageWrites
<1>2. /\ catalog' \in [Writers -> Catalog]
      /\ \A v \in Writers : catalog'[v].pointers = catalog[v].pointers
      /\ \A v \in Writers : v # w => catalog'[v] = catalog[v]
      /\ \A t \in Tables : catalog'[w].staged[t] =
                  IF t = op.table THEN new ELSE catalog[w].staged[t]
      /\ catalog'[w].written = catalog[w].written + 1
  BY StageWrites
<1>3. new.by = w /\ new.n = catalog[w].written + 1
  BY DEF NextLoc
<1> HIDE DEF new
<1>4. TypeOK'
  BY <1>1, <1>2 DEF Shape, TypeOK
<1>5. Refs'
  BY <1>1, <1>2 DEF Shape, Refs, Written
<1>6. Fresh'
  <2> SUFFICES ASSUME NEW l \in DOMAIN warehouse', l.by \in Writers
               PROVE  l.n <= catalog'[l.by].written
    BY DEF Fresh
  <2>1. catalog[w].written \in Nat
    BY DEF Shape, TypeOK, Catalog
  <2>2. CASE l = new
    BY <1>2, <1>3, <2>1, <2>2
  <2>3. CASE l # new
    <3>1. l \in Loc /\ l.n \in Nat /\ l.n <= catalog[l.by].written
      BY <1>1, <2>3 DEF Shape, TypeOK, Fresh, Loc
    <3> QED BY <1>2, <2>1, <3>1
  <2> QED BY <2>2, <2>3
<1>7. Retrying'
  BY DEF Shape, Retrying
<1> QED BY <1>4, <1>5, <1>6, <1>7 DEF Shape

\* A raised error keeps the shape.
LEMMA FailShape ==
    ASSUME Shape, NEW w \in Writers, NEW err \in Errors, Fail(w, err),
           faults' \in 0..MaxFaults
    PROVE  Shape'
<1>1. session' \in [Writers -> Session] /\ \A v \in Writers : session'[v].snap = session[v].snap
  BY ZenonT(40) DEF Shape, TypeOK, Fail, Session, Discarded
<1>2. loop' \in [Writers -> Loop]
  BY DEF Shape, TypeOK, Fail, Loop
<1>3. pc' \in [Writers -> Phases] /\ \A v \in Writers : v # w => pc'[v] = pc[v] /\ loop'[v] = loop[v]
  BY DEF Shape, TypeOK, Fail, Phases
<1>4. pc'[w] = "failed"
  BY DEF Shape, TypeOK, Fail
<1>5. UNCHANGED <<snaps, tip, warehouse, catalog, plan>>
  BY DEF Fail
<1>6. TypeOK'
  BY <1>1, <1>2, <1>3, <1>5 DEF Shape, TypeOK
<1>7. Refs' /\ Fresh'
  BY <1>1, <1>5 DEF Shape, Refs, Fresh, Written
<1>8. Retrying'
  BY <1>3, <1>4 DEF Shape, Retrying
<1> QED BY <1>6, <1>7, <1>8 DEF Shape

\* Recording an intent, or a direct operation, keeps the plan well formed.
LEMMA PlanWithIntent ==
    ASSUME plan \in [Writers -> Plan], NEW w \in Writers, NEW op \in Op,
           \/ plan' = [plan EXCEPT ![w].intents = Append(@, op)]
           \/ plan' = [plan EXCEPT ![w].direct = Append(@, op)]
    PROVE  /\ plan' \in [Writers -> Plan]
           /\ \A v \in Writers : plan'[v].start = plan[v].start
<1>1. Append(plan[w].intents, op) \in Seq(Op) /\ Append(plan[w].direct, op) \in Seq(Op)
  BY DEF Plan
<1>2. CASE plan' = [plan EXCEPT ![w].intents = Append(@, op)]
  <2>1. plan' \in [Writers -> Plan]
    BY <1>1, <1>2, ZenonT(40) DEF Plan
  <2>2. \A v \in Writers : plan'[v].start = plan[v].start
    BY <1>2 DEF Plan
  <2> QED BY <2>1, <2>2
<1>3. CASE plan' = [plan EXCEPT ![w].direct = Append(@, op)]
  <2>1. plan' \in [Writers -> Plan]
    BY <1>1, <1>3 DEF Plan
  <2>2. \A v \in Writers : plan'[v].start = plan[v].start
    BY <1>3 DEF Plan
  <2> QED BY <2>1, <2>2
<1> QED BY <1>2, <1>3

\* Recording a removal with its base snapshot does too.
LEMMA PlanWithRemoval ==
    ASSUME plan \in [Writers -> Plan], NEW w \in Writers, NEW op \in Op,
           NEW b \in Loc \cup {Nil}, op.table \in Tables,
           plan' = [plan EXCEPT ![w].intents = Append(@, op),
                                ![w].base[op.table] = b,
                                ![w].captured = @ \cup {op.table}]
    PROVE  /\ plan' \in [Writers -> Plan]
           /\ \A v \in Writers : plan'[v].start = plan[v].start
<1>1. Append(plan[w].intents, op) \in Seq(Op)
  BY DEF Plan
<1>2. [plan[w].base EXCEPT ![op.table] = b] \in Pointers
  BY DEF Plan, Pointers
<1>3. plan[w] \in Plan
  OBVIOUS
<1>4. plan' = [plan EXCEPT ![w] = [plan[w] EXCEPT
                  !.intents = Append(plan[w].intents, op),
                  !.base = [plan[w].base EXCEPT ![op.table] = b],
                  !.captured = plan[w].captured \cup {op.table}]]
  BY <1>3 DEF Plan, Pointers
<1>5. [plan[w] EXCEPT !.intents = Append(plan[w].intents, op),
                      !.base = [plan[w].base EXCEPT ![op.table] = b],
                      !.captured = plan[w].captured \cup {op.table}] \in Plan
  BY <1>1, <1>2, <1>3 DEF Plan
<1>6. plan' \in [Writers -> Plan]
  BY <1>4, <1>5
<1>7. \A v \in Writers : plan'[v].start = plan[v].start
  BY DEF Plan
<1> QED BY <1>6, <1>7

\* The caller's steps keep the shape.
LEMMA CallerShape ==
    ASSUME Shape, NEW w \in Writers, Caller(w)
    PROVE  Shape'
<1>a. plan \in [Writers -> Plan] /\ session \in [Writers -> Session]
  BY DEF Shape, TypeOK
<1>b. loop \in [Writers -> Loop] /\ catalog \in [Writers -> Catalog]
  BY DEF Shape, TypeOK
<1>1. ASSUME NEW b \in Branches, NEW sb \in Branches, Open(w, b, sb)
      PROVE  Shape'
  <2>1. tip[sb] \in DOMAIN snaps /\ snaps[tip[sb]] \in Snapshot
    BY DEF Shape, TypeOK
  <2>2. snaps[tip[sb]].attrs \in SUBSET Tables /\ snaps[tip[sb]].pointers \in Pointers
    BY <2>1 DEF Snapshot
  <2>3. tip[sb] \in Nat
    BY DEF Shape, TypeOK
  <2>4. session' \in [Writers -> Session]
    BY <1>1, <2>2, <2>3 DEF Shape, TypeOK, Open, Session
  <2>5. catalog' \in [Writers -> Catalog] /\ plan' \in [Writers -> Plan] /\ pc' \in [Writers -> Phases]
    BY <1>1, <2>2, <2>3, ZenonT(40) DEF Shape, TypeOK, Open, Catalog, Plan, Phases
  <2>6. TypeOK'
    BY <1>1, <2>4, <2>5 DEF Shape, TypeOK, Open
  <2>7. Refs'
    <3>1. \A v \in Writers : v # w => /\ session'[v] = session[v]
                                      /\ catalog'[v] = catalog[v] /\ plan'[v] = plan[v]
      BY <1>1, <1>a, <1>b DEF Open
    <3>2. session'[w].snap = tip[sb] /\ plan'[w].start = tip[sb]
      BY <1>1, <1>a DEF Open, Session, Plan
    <3>3. /\ catalog'[w].pointers = snaps[tip[sb]].pointers
          /\ catalog'[w].staged = catalog[w].staged
      BY <1>1, <1>b DEF Open, Catalog
    <3>4. UNCHANGED <<snaps, warehouse>>
      BY <1>1 DEF Open
    <3> QED BY <2>1, <3>1, <3>2, <3>3, <3>4 DEF Shape, Refs, Written
  <2>8. Fresh' /\ Retrying'
    BY <1>1 DEF Shape, TypeOK, Fresh, Retrying, Open, Catalog
  <2> QED BY <2>6, <2>7, <2>8 DEF Shape
<1>2. ASSUME NEW b \in Branches, NEW sb \in Branches, RefuseSession(w, b, sb)
      PROVE  Shape'
  BY <1>2, FailShape DEF RefuseSession, Errors, Shape, TypeOK
<1>3. ASSUME NEW op \in Ops, CreateTable(w, op)
      PROVE  Shape'
  <2>1. op \in Op
    BY OpAssumption
  <2>2. session' \in [Writers -> Session] /\ \A v \in Writers : session'[v].snap = session[v].snap
    <3>1. Grouped(w) \in Session /\ Grouped(w).snap = session[w].snap
      BY <1>a DEF Grouped, HasRoot, Session
    <3>2. op.table \in Tables
      BY <2>1 DEF Op
    <3>3. /\ Declared(Grouped(w), op.table) \in Session
          /\ Declared(Grouped(w), op.table).snap = session[w].snap
      BY <3>1, <3>2 DEF Declared, Session
    <3> QED BY <1>3, <1>a, <3>3 DEF CreateTable
  <2>3. plan' \in [Writers -> Plan] /\ \A v \in Writers : plan'[v].start = plan[v].start
    BY <1>3, <1>a, <2>1, PlanWithIntent DEF CreateTable
  <2> QED BY <1>3, <2>2, <2>3 DEF Shape, TypeOK, Refs, Fresh, Retrying, Written, CreateTable
<1>4. ASSUME NEW op \in Ops, AppendRows(w, op)
      PROVE  Shape'
  <2>1. plan' \in [Writers -> Plan] /\ \A v \in Writers : plan'[v].start = plan[v].start
    BY <1>4, <1>a, OpAssumption, PlanWithIntent DEF AppendRows
  <2> QED BY <1>4, <2>1 DEF Shape, TypeOK, Refs, Fresh, Retrying, Written, AppendRows
<1>5. ASSUME NEW op \in Ops, RemoveRows(w, op)
      PROVE  Shape'
  <2>1. op \in Op /\ op.table \in Tables
    BY OpAssumption DEF Op
  <2>2. BaseSnapshot(w, op.table) \in Loc \cup {Nil}
    <3>1. plan[w].base[op.table] \in Loc \cup {Nil}
      BY <2>1 DEF Shape, TypeOK, Plan, Pointers
    <3>2. ASSUME catalog[w].pointers[op.table] # Nil
          PROVE  warehouse[CurrentPointers(catalog[w])[op.table]] \in Metadata
      BY <2>1, <3>2, CurrentPointersRefs DEF CurrentPointers, Written, Shape, TypeOK
    <3> QED BY <3>1, <3>2, CurrentSnapshotIdType DEF BaseSnapshot
  <2>3. plan' \in [Writers -> Plan] /\ \A v \in Writers : plan'[v].start = plan[v].start
    BY <1>5, <1>a, <2>1, <2>2, PlanWithRemoval DEF RemoveRows
  <2> QED BY <1>5, <2>3 DEF Shape, TypeOK, Refs, Fresh, Retrying, Written, RemoveRows
<1>6. ASSUME NEW c \in Chunks, WriteChunk(w, c)
      PROVE  Shape'
  <2>1. session' \in [Writers -> Session] /\ \A v \in Writers : session'[v].snap = session[v].snap
    BY <1>6, <1>a DEF WriteChunk, Session
  <2>2. plan' \in [Writers -> Plan] /\ \A v \in Writers : plan'[v].start = plan[v].start
    BY <1>6, <1>a DEF WriteChunk, Plan
  <2> QED BY <1>6, <2>1, <2>2 DEF Shape, TypeOK, Refs, Fresh, Retrying, Written, WriteChunk
<1>7. ASSUME NEW op \in DirectOps, Direct(w, op)
      PROVE  Shape'
  <2>1. op \in Op
    BY OpAssumption
  <2>2. plan' \in [Writers -> Plan] /\ \A v \in Writers : plan'[v].start = plan[v].start
    BY <1>7, <1>a, <2>1, PlanWithIntent DEF Direct
  <2> QED BY <1>7, <2>1, <2>2, StageShape DEF Direct, Shape, TypeOK
<1>8. CASE BodyRaises(w)
  BY <1>8, FailShape DEF BodyRaises, Errors, Shape, TypeOK
<1>9. CASE BeginCommit(w)
  <2>1. "none" \in Errors /\ StagedTables(catalog[w]) \in SUBSET Tables
    BY DEF Errors, StagedTables
  <2>2. 0 \in 0..MaxRetries /\ loop[w].calls + 1 \in 0..MaxCalls
    <3>1. loop[w].calls < MaxCalls
      BY <1>9 DEF BeginCommit
    <3> QED BY <1>b, <3>1, BoundAssumption DEF Loop
  <2>3. loop' = [loop EXCEPT ![w] =
           [unmanaged |-> StagedTables(catalog[w]), next |-> 1, attempt |-> 0,
            calls |-> @.calls + 1, err |-> "none"]]
    BY <1>9 DEF BeginCommit
  <2>4. loop' \in [Writers -> Loop] /\ \A v \in Writers : v # w => loop'[v] = loop[v]
    BY <1>b, <2>1, <2>2, <2>3 DEF Loop
  <2>5. pc' \in [Writers -> Phases] /\ pc'[w] = "apply" /\ \A v \in Writers : v # w => pc'[v] = pc[v]
    BY <1>9 DEF Shape, TypeOK, BeginCommit, Phases
  <2> QED BY <1>9, <2>4, <2>5 DEF Shape, TypeOK, Refs, Fresh, Retrying, Written, BeginCommit
<1> QED BY <1>1, <1>2, <1>3, <1>4, <1>5, <1>6, <1>7, <1>8, <1>9 DEF Caller

\* The snapshot session.commit makes is a snapshot, and its pointers resolve.
LEMMA NewSnapshotType ==
    ASSUME Shape, NEW w \in Writers
    PROVE  NewSnapshot(w) \in Snapshot
<1>1. session[w] \in Session /\ session[w].snap \in DOMAIN snaps
  BY DEF Shape, TypeOK, Refs
<1>2. snaps[session[w].snap] \in Snapshot
  BY <1>1 DEF Shape, TypeOK
<1>3. CurrentPointers(catalog[w]) \in Pointers
  BY CurrentPointersRefs
<1>4. HasRoot(w) \in BOOLEAN
  BY DEF HasRoot
<1>5. w \in Authors
  BY DEF Authors
<1>6. [c \in Chunks |-> IF c \in session[w].chunks THEN w ELSE snaps[session[w].snap].chunks[c]]
          \in [Chunks -> Authors \cup {Nil}]
  BY <1>2, <1>5 DEF Snapshot
<1>7. (IF session[w].root THEN session[w].attrs ELSE snaps[session[w].snap].attrs) \in SUBSET Tables
  BY <1>1, <1>2 DEF Session, Snapshot
<1>8. /\ session[w].snap \in Nat /\ session[w].branch \in Branches
      /\ session[w].chunks \in SUBSET Chunks /\ session[w].root \in BOOLEAN
  BY <1>1 DEF Session
<1> QED BY <1>3, <1>4, <1>5, <1>6, <1>7, <1>8 DEF NewSnapshot, Snapshot, CommitMetadata

\* session.commit landed: the snapshot is made and the branch moved.
Landed(w) ==
    /\ snaps' = Append(snaps, NewSnapshot(w))
    /\ tip' = [tip EXCEPT ![session[w].branch] = Len(snaps) + 1]
    /\ UNCHANGED <<warehouse, catalog, plan>>

\* A step in which w's commit lands and w ends keeps the shape.
LEMMA LandedShape ==
    ASSUME Shape, NEW w \in Writers, Landed(w), faults' \in 0..MaxFaults,
           pc' \in [Writers -> Phases], pc'[w] \in {"committed", "failed"},
           \A v \in Writers : v # w => pc'[v] = pc[v],
           session' \in [Writers -> Session],
           \A v \in Writers : session'[v].snap = session[v].snap,
           loop' \in [Writers -> Loop],
           \A v \in Writers : loop'[v].attempt = loop[v].attempt
    PROVE  Shape'
<1>1. snaps' = Append(snaps, NewSnapshot(w)) /\ snaps \in Seq(Snapshot)
  BY DEF Landed, Shape, TypeOK
<1>2. NewSnapshot(w) \in Snapshot
  BY NewSnapshotType
<1>3. snaps' \in Seq(Snapshot) /\ Len(snaps') = Len(snaps) + 1 /\ Len(snaps) \in Nat
  BY <1>1, <1>2
<1>4. /\ \A i \in DOMAIN snaps : i \in DOMAIN snaps' /\ snaps'[i] = snaps[i]
      /\ DOMAIN snaps' = DOMAIN snaps \cup {Len(snaps) + 1}
      /\ snaps'[Len(snaps) + 1] = NewSnapshot(w)
  BY <1>1, <1>2
<1>5. tip' \in [Branches -> 1..Len(snaps')]
  <2>1. session[w].branch \in Branches
    BY DEF Shape, TypeOK, Session
  <2>2. tip \in [Branches -> 1..Len(snaps)]
    BY DEF Shape, TypeOK
  <2>3. tip' = [tip EXCEPT ![session[w].branch] = Len(snaps) + 1]
    BY DEF Landed
  <2> QED BY <1>3, <2>1, <2>2, <2>3
<1>6. UNCHANGED <<warehouse, catalog, plan>>
  BY DEF Landed
<1>7. TypeOK'
  BY <1>3, <1>5, <1>6 DEF Shape, TypeOK
<1>8. \A t \in Tables : NewSnapshot(w).pointers[t] \in Written
  BY CurrentPointersRefs DEF NewSnapshot, CommitMetadata
<1>9. Refs'
  BY <1>4, <1>6, <1>8 DEF Shape, Refs, Written
<1>10. Fresh' /\ Retrying'
  BY <1>6 DEF Shape, Fresh, Retrying
<1> QED BY <1>7, <1>9, <1>10 DEF Shape

\* A commit whose answer was lost keeps the shape.
LEMMA AnswerLostShape ==
    ASSUME Shape, NEW w \in Writers, AnswerLost(w)
    PROVE  Shape'
<1>1. /\ pc \in [Writers -> Phases] /\ session \in [Writers -> Session]
      /\ loop \in [Writers -> Loop]
  BY DEF Shape, TypeOK
<1>2. faults' \in 0..MaxFaults
  <2>1. faults < MaxFaults /\ faults' = faults + 1
    BY DEF AnswerLost
  <2>2. faults \in 0..MaxFaults
    BY DEF Shape, TypeOK
  <2> QED BY <2>1, <2>2, BoundAssumption
<1>3. pc' \in [Writers -> Phases] /\ pc'[w] = "failed" /\ \A v \in Writers : v # w => pc'[v] = pc[v]
  BY <1>1 DEF AnswerLost, Phases
<1>4. session' \in [Writers -> Session] /\ \A v \in Writers : session'[v].snap = session[v].snap
  BY <1>1 DEF AnswerLost, Session, Discarded
<1>5. loop' \in [Writers -> Loop] /\ \A v \in Writers : loop'[v].attempt = loop[v].attempt
  BY <1>1 DEF AnswerLost, Loop, Errors
<1> QED BY <1>2, <1>3, <1>4, <1>5, LandedShape DEF AnswerLost, Landed

\* The steps of a running commit() keep the shape.
LEMMA CommitShape ==
    ASSUME Shape, NEW w \in Writers, Commit(w)
    PROVE  Shape'
<1>a. faults \in 0..MaxFaults /\ pc \in [Writers -> Phases]
  BY DEF Shape, TypeOK
<1>b. loop \in [Writers -> Loop] /\ catalog \in [Writers -> Catalog]
  BY DEF Shape, TypeOK
<1>c. plan \in [Writers -> Plan] /\ session \in [Writers -> Session]
  BY DEF Shape, TypeOK
<1>d. ASSUME loop' = [loop EXCEPT ![w].next = @ + 1]
      PROVE  loop' \in [Writers -> Loop] /\ \A v \in Writers : loop'[v].attempt = loop[v].attempt
  BY <1>b, <1>d DEF Loop
<1>1. CASE ApplyIntent(w)
  <2>1. Len(plan[w].intents) \in Nat /\ loop[w].next \in Nat \ {0}
    BY <1>b, <1>c DEF Plan, Loop
  <2>2. Intent(w) \in Op
    <3>1. loop[w].next \in 1..Len(plan[w].intents)
      BY <1>1, <2>1 DEF ApplyIntent, Applying
    <3>2. plan[w].intents \in Seq(Op)
      BY <1>c DEF Plan
    <3> QED BY <3>1, <3>2 DEF Intent
  <2> QED BY <1>1, <1>c, <1>d, <2>2, StageShape DEF ApplyIntent
<1>2. CASE ApplyNothing(w)
  BY <1>2, <1>d DEF ApplyNothing, Shape, TypeOK, Refs, Fresh, Retrying, Written
<1>3. CASE ApplyMissing(w)
  BY <1>3, <1>a, FailShape DEF ApplyMissing, Errors
<1>4. CASE RefuseEmpty(w)
  BY <1>4, <1>a, FailShape DEF RefuseEmpty, Errors
<1>5. CASE Publish(w)
  <2>1. pc' \in [Writers -> Phases] /\ pc'[w] = "committed" /\ \A v \in Writers : v # w => pc'[v] = pc[v]
    BY <1>5, <1>a DEF Publish, Phases
  <2>2. session' \in [Writers -> Session] /\ \A v \in Writers : session'[v].snap = session[v].snap
    BY <1>5, <1>c DEF Publish, Session, Discarded
  <2>3. loop' \in [Writers -> Loop] /\ \A v \in Writers : loop'[v].attempt = loop[v].attempt
    BY <1>5, <1>b DEF Publish
  <2> QED BY <1>5, <1>a, <2>1, <2>2, <2>3, LandedShape DEF Publish, Landed
<1>6. CASE Conflict(w)
  <2>1. pc' \in [Writers -> Phases]
    BY <1>6, <1>a DEF Conflict, Phases
  <2>2. loop[w].attempt < MaxRetries /\ \A v \in Writers : v # w => pc'[v] = pc[v]
    BY <1>6, <1>a DEF Conflict
  <2> QED BY <1>6, <2>1, <2>2 DEF Conflict, Shape, TypeOK, Refs, Fresh, Retrying, Written
<1>7. CASE Exhausted(w)
  BY <1>7, <1>a, FailShape DEF Exhausted, Errors
<1>8. CASE RefuseUncovered(w)
  BY <1>8, <1>a, FailShape DEF RefuseUncovered, Errors
<1>9. CASE RefuseRemoval(w)
  BY <1>9, <1>a, FailShape DEF RefuseRemoval, Errors
<1>10. CASE Adopt(w)
  <2>1. tip[plan[w].branch] \in DOMAIN snaps
    BY <1>c DEF Shape, TypeOK, Plan
  <2>2. snaps[tip[plan[w].branch]] \in Snapshot
    BY <2>1 DEF Shape, TypeOK
  <2>3. TipPointers(w) \in Pointers /\ \A t \in Tables : TipPointers(w)[t] \in Written
    BY <2>1, <2>2 DEF TipPointers, Snapshot, Shape, Refs
  <2>4. NoPointers \in Pointers
    BY DEF NoPointers, Pointers
  <2>5. catalog' = [catalog EXCEPT ![w] = RebasedOnto(@, TipPointers(w))]
    BY <1>10 DEF Adopt
  <2>6. /\ catalog' \in [Writers -> Catalog]
        /\ catalog'[w].pointers = TipPointers(w) /\ catalog'[w].staged = NoPointers
        /\ \A v \in Writers : catalog'[v].written = catalog[v].written
        /\ \A v \in Writers : v # w => catalog'[v] = catalog[v]
    BY <1>b, <2>3, <2>4, <2>5 DEF RebasedOnto, Catalog
  <2>7. pc' \in [Writers -> Phases] /\ pc[w] = "recover" /\ \A v \in Writers : v # w => pc'[v] = pc[v]
    BY <1>10, <1>a DEF Adopt, Phases
  <2>8. UNCHANGED <<snaps, tip, warehouse, faults, session, plan, loop>>
    BY <1>10 DEF Adopt
  <2>9. TypeOK'
    BY <2>6, <2>7, <2>8 DEF Shape, TypeOK
  <2>10. \A t \in Tables : NoPointers[t] = Nil
    BY DEF NoPointers
  <2>11. Refs'
    BY <2>3, <2>6, <2>8, <2>10 DEF Shape, Refs, Written
  <2>12. Fresh' /\ Retrying'
    BY <2>6, <2>7, <2>8 DEF Shape, Fresh, Retrying
  <2> QED BY <2>9, <2>11, <2>12 DEF Shape
<1>11. CASE Rebase(w)
  <2>1. tip[session[w].branch] \in DOMAIN snaps /\ tip[session[w].branch] \in Nat
    BY <1>c DEF Shape, TypeOK, Session
  <2>2. session' = [session EXCEPT ![w].snap = tip[session[w].branch]]
    BY <1>11 DEF Rebase
  <2>3. session' \in [Writers -> Session] /\ \A v \in Writers : session'[v].snap \in DOMAIN snaps
    BY <1>c, <2>1, <2>2 DEF Session, Shape, Refs
  <2>4. loop[w].attempt < MaxRetries /\ loop[w].attempt \in 0..MaxRetries
    BY <1>11, <1>b DEF Rebase, Shape, Retrying, Loop
  <2>5. loop[w].attempt + 1 \in 0..MaxRetries
    BY <2>4, BoundAssumption
  <2>6. loop' = [loop EXCEPT ![w].attempt = @ + 1, ![w].next = 1]
    BY <1>11 DEF Rebase
  <2>7. loop' \in [Writers -> Loop] /\ \A v \in Writers : v # w => loop'[v] = loop[v]
    <3>1. 1 \in Nat \ {0}
      OBVIOUS
    <3>2. loop' \in [Writers -> Loop]
      BY <1>b, <2>5, <2>6, <3>1 DEF Loop
    <3> QED BY <1>b, <2>6, <3>2
  <2>8. pc' \in [Writers -> Phases] /\ pc'[w] = "apply" /\ \A v \in Writers : v # w => pc'[v] = pc[v]
    BY <1>11, <1>a DEF Rebase, Phases
  <2>9. UNCHANGED <<snaps, tip, warehouse, faults, catalog, plan>>
    BY <1>11 DEF Rebase
  <2> QED BY <2>3, <2>7, <2>8, <2>9 DEF Shape, TypeOK, Refs, Fresh, Retrying, Written
<1>12. CASE RebaseFails(w)
  BY <1>12, <1>a, FailShape DEF RebaseFails, Errors
<1> QED BY <1>1, <1>2, <1>3, <1>4, <1>5, <1>6, <1>7, <1>8, <1>9, <1>10, <1>11, <1>12 DEF Commit

\* The first state has the shape.
LEMMA InitShape == Init => Shape
<1> SUFFICES ASSUME Init PROVE Shape
  OBVIOUS
<1>1. FirstBranch \in Branches
  BY BranchAssumption DEF FirstBranch
<1>2. NoPointers \in Pointers /\ \A t \in Tables : NoPointers[t] = Nil
  BY DEF NoPointers, Pointers
<1>3. \A t \in Tables : SeedLoc(t) \in Loc /\ SeedLoc(t).by = Seeder
  BY DEF SeedLoc, Loc, Authors
<1>4. FirstSnapshot(FirstBranch) \in Snapshot
  BY <1>1, <1>3, SeedAssumption DEF FirstSnapshot, Snapshot, Pointers, Authors
<1>5. snaps \in Seq(Snapshot) /\ Len(snaps) = 1 /\ snaps[1] = FirstSnapshot(FirstBranch)
  BY <1>4 DEF Init
<1>6. \A t \in Tables : SeedTable(t) \in Metadata
  <2> SUFFICES ASSUME NEW t \in Tables PROVE SeedTable(t) \in Metadata
    OBVIOUS
  <2>1. {[key |-> k, by |-> Seeder] : k \in SeedKeys} \subseteq Row
    BY KeyAssumption DEF Row, Authors
  <2>2. [orig |-> SeedLoc(t), rows |-> {[key |-> k, by |-> Seeder] : k \in SeedKeys}] \in File
    BY <1>3, <2>1 DEF File
  <2> QED BY <1>3, <2>2, NewTableType, WithSnapshotType DEF SeedTable, Appended
<1>7. /\ DOMAIN warehouse = {SeedLoc(t) : t \in SeedTables}
      /\ \A l \in DOMAIN warehouse : l \in Loc /\ l.by = Seeder /\ l.table \in Tables
                                     /\ warehouse[l] = SeedTable(l.table)
  BY <1>3, SeedAssumption DEF Init, Loc
<1>8. session \in [Writers -> Session] /\ \A w \in Writers : session[w].snap = 1
  BY <1>1 DEF Init, Session
<1>9. plan \in [Writers -> Plan] /\ \A w \in Writers : plan[w].start = 1
  BY <1>1, <1>2 DEF Init, Plan
<1>10. catalog \in [Writers -> Catalog] /\ \A w \in Writers :
           catalog[w].pointers = NoPointers /\ catalog[w].staged = NoPointers
  BY <1>2 DEF Init, Catalog
<1>11. loop \in [Writers -> Loop]
  <2>1. 0 \in 0..MaxRetries /\ 0 \in 0..MaxCalls /\ 1 \in Nat \ {0} /\ "none" \in Errors
    BY BoundAssumption DEF Errors
  <2> QED BY <2>1 DEF Init, Loop
<1>12. pc \in [Writers -> Phases] /\ \A w \in Writers : pc[w] = "idle"
  BY DEF Init, Phases
<1>13. tip \in [Branches -> 1..Len(snaps)] /\ faults \in 0..MaxFaults
  BY <1>5, BoundAssumption DEF Init
<1>14. TypeOK
  BY <1>5, <1>6, <1>7, <1>8, <1>9, <1>10, <1>11, <1>12, <1>13 DEF TypeOK
<1>15. Refs
  <2>1. \A t \in Tables : snaps[1].pointers[t] \in Written
    <3>1. \A t \in Tables : snaps[1].pointers[t] = IF t \in SeedTables THEN SeedLoc(t) ELSE Nil
      BY <1>5 DEF FirstSnapshot
    <3> QED BY <1>7, <3>1 DEF Written
  <2> QED BY <1>2, <1>5, <1>8, <1>9, <1>10, <2>1 DEF Refs, Written
<1>16. Fresh
  BY <1>7, WriterAssumption DEF Fresh
<1>17. Retrying
  BY <1>12 DEF Retrying
<1> QED BY <1>14, <1>15, <1>16, <1>17 DEF Shape

\* Every step keeps it.
LEMMA NextShape == Shape /\ [Next]_vars => Shape'
<1> SUFFICES ASSUME Shape, [Next]_vars PROVE Shape'
  OBVIOUS
<1>1. ASSUME NEW w \in Writers, StorageFault(w)
      PROVE  Shape'
  <2>1. faults' \in 0..MaxFaults
    BY <1>1, BoundAssumption DEF StorageFault, Shape, TypeOK
  <2> QED BY <1>1, <2>1, FailShape DEF StorageFault, Errors
<1>2. CASE UNCHANGED vars
  BY <1>2 DEF vars, Shape, TypeOK, Refs, Fresh, Retrying, Written
<1> QED BY <1>1, <1>2, CallerShape, CommitShape, AnswerLostShape DEF Next, Terminated

\* TypeOK holds in every reachable state: in particular the retry counter of
\* commit() stays within max_retries, and every location a snapshot or a
\* transaction refers to has been written.
THEOREM TypeCorrect == Spec => []TypeOK
<1>1. Shape => TypeOK
  BY DEF Shape
<1> QED BY <1>1, InitShape, NextShape, PTL DEF Spec

(***************************************************************************)
(* Published state never changes.                                          *)
(***************************************************************************)

\* What is written stays as it was written.
Grows ==
    /\ \A l \in DOMAIN warehouse : l \in DOMAIN warehouse' /\ warehouse'[l] = warehouse[l]
    /\ \A i \in DOMAIN snaps : i \in DOMAIN snaps' /\ snaps'[i] = snaps[i]

\* Every step only adds files to the warehouse and snapshots to the repository.
LEMMA StepGrows == Shape /\ [Next]_vars => Grows
<1> SUFFICES ASSUME Shape, [Next]_vars PROVE Grows
  OBVIOUS
<1>1. ASSUME UNCHANGED <<snaps, warehouse>> PROVE Grows
  BY <1>1 DEF Grows
<1>2. ASSUME NEW w \in Writers, NEW op \in Op, Stage(w, op), UNCHANGED snaps PROVE Grows
  BY <1>2, StageWrites DEF Grows
<1>3. ASSUME NEW w \in Writers, Publish(w) \/ AnswerLost(w) PROVE Grows
  <2>1. snaps' = Append(snaps, NewSnapshot(w)) /\ UNCHANGED warehouse
    BY <1>3 DEF Publish, AnswerLost
  <2>2. snaps \in Seq(Snapshot)
    BY DEF Shape, TypeOK
  <2> QED BY <2>1, <2>2, NewSnapshotType DEF Grows
<1>4. ASSUME NEW w \in Writers, ApplyIntent(w) PROVE Grows
  <2>1. plan[w].intents \in Seq(Op) /\ loop[w].next \in Nat \ {0}
    BY DEF Shape, TypeOK, Plan, Loop
  <2>2. loop[w].next <= Len(plan[w].intents)
    BY <1>4 DEF ApplyIntent, Applying
  <2>3. Intent(w) \in Op
    BY <2>1, <2>2 DEF Intent
  <2> QED BY <1>2, <1>4, <2>3 DEF ApplyIntent
<1>5. ASSUME NEW w \in Writers, NEW op \in DirectOps, Direct(w, op) PROVE Grows
  BY <1>2, <1>5, OpAssumption DEF Direct
<1>6. ASSUME NEW w \in Writers, NEW err, Fail(w, err) PROVE Grows
  BY <1>1, <1>6 DEF Fail
<1>7. ASSUME NEW w \in Writers, Caller(w) PROVE Grows
  BY <1>1, <1>5, <1>6, <1>7
  DEF Caller, Open, RefuseSession, CreateTable, AppendRows, RemoveRows, WriteChunk,
      BodyRaises, BeginCommit
<1>8. ASSUME NEW w \in Writers, Commit(w) PROVE Grows
  BY <1>1, <1>3, <1>4, <1>6, <1>8
  DEF Commit, ApplyNothing, ApplyMissing, RefuseEmpty, Conflict, Exhausted,
      RefuseUncovered, RefuseRemoval, Adopt, Rebase, RebaseFails
<1>9. ASSUME NEW w \in Writers, StorageFault(w) PROVE Grows
  BY <1>6, <1>9 DEF StorageFault
<1>10. CASE UNCHANGED vars
  BY <1>1, <1>10 DEF vars
<1> QED BY <1>3, <1>7, <1>8, <1>9, <1>10 DEF Next, Terminated

\* Time travel: no step changes a snapshot or a table version a snapshot
\* resolves to, so every reader of a snapshot or tag sees the same arrays and
\* rows for ever.
THEOREM SnapshotsStay == Spec => SnapshotsAreImmutable
<1>1. Shape /\ [Next]_vars =>
        [\A i \in DOMAIN snaps :
            /\ snaps'[i] = snaps[i]
            /\ \A t \in Tables :
                snaps[i].pointers[t] # Nil =>
                    warehouse'[snaps[i].pointers[t]] = warehouse[snaps[i].pointers[t]]]_vars
  <2> SUFFICES ASSUME Shape, [Next]_vars
               PROVE  \A i \in DOMAIN snaps :
                        /\ snaps'[i] = snaps[i]
                        /\ \A t \in Tables :
                            snaps[i].pointers[t] # Nil =>
                                warehouse'[snaps[i].pointers[t]] = warehouse[snaps[i].pointers[t]]
    OBVIOUS
  <2>1. Grows
    BY StepGrows
  <2> QED BY <2>1 DEF Grows, Shape, Refs, Written
<1> QED BY <1>1, InitShape, NextShape, PTL DEF Spec, SnapshotsAreImmutable

(***************************************************************************)
(* Histories account for rows.                                             *)
(***************************************************************************)

\* Every operation but CreateTable records one snapshot on the version it
\* starts from.
LEMMA ResultForm ==
    ASSUME NEW w \in Writers, NEW op \in Op, op.kind # "create",
           NEW m \in Metadata, NEW id \in Loc
    PROVE  \E dropped, added : /\ added \in SUBSET File
                               /\ Result(w, op, m, id) = WithSnapshot(m, id, dropped, added)
<1> DEFINE file == [orig |-> id, rows |-> DataRows(w, op)]
<1>1. file \in File /\ Rewrites(m, op.pred) \in SUBSET File
  BY DataRowsType, RewritesType DEF File
<1>2. CASE op.kind = "append"
  <2>1. Result(w, op, m, id) = WithSnapshot(m, id, {}, {file})
    BY <1>2 DEF Result, Appended
  <2> QED BY <1>1, <2>1
<1>3. CASE op.kind = "delete"
  <2>1. Result(w, op, m, id) = WithSnapshot(m, id, Touched(m, op.pred), Rewrites(m, op.pred))
    BY <1>3 DEF Result, Deleted
  <2> QED BY <1>1, <2>1
<1>4. CASE op.kind = "overwrite"
  <2>1. Result(w, op, m, id) =
            WithSnapshot(m, id, Touched(m, op.pred), Rewrites(m, op.pred) \cup {file})
    BY <1>4 DEF Result, Overwritten
  <2> QED BY <1>1, <2>1
<1> QED BY <1>2, <1>3, <1>4 DEF Op, Kinds

\* The history of a version that was already written is not disturbed.
LEMMA HistoryKept ==
    ASSUME Histories, Grows, NEW l \in DOMAIN warehouse
    PROVE  History(l)'
<1>1. History(l)
  BY DEF Histories
<1>2. warehouse'[l] = warehouse[l]
  BY DEF Grows
<1>3. \A i \in DOMAIN warehouse[l].snaps :
         /\ warehouse[l].snaps[i].id \in DOMAIN warehouse'
         /\ warehouse'[warehouse[l].snaps[i].id] = warehouse[warehouse[l].snaps[i].id]
  BY <1>1 DEF History, Grows
<1> QED BY <1>1, <1>2, <1>3 DEF History

\* Recording a snapshot extends the history.
LEMMA HistoryExtended ==
    ASSUME Shape, Histories, Grows, NEW loc \in DOMAIN warehouse,
           NEW new \in Loc, new \notin DOMAIN warehouse, new \in DOMAIN warehouse',
           NEW dropped, NEW added \in SUBSET File,
           warehouse'[new] = WithSnapshot(warehouse[loc], new, dropped, added)
    PROVE  History(new)'
<1> DEFINE m == warehouse[loc]
           e == [id |-> new, added |-> added]
           n == warehouse'[new]
           k == Len(m.snaps) + 1
<1>1. m.snaps \in Seq(Recorded) /\ e \in Recorded
  BY DEF Shape, TypeOK, Metadata, Recorded
<1>2. n.snaps = Append(m.snaps, e) /\ n.files \subseteq m.files \cup added
  BY DEF WithSnapshot
<1>3. /\ Len(m.snaps) \in Nat /\ DOMAIN m.snaps = 1..Len(m.snaps)
      /\ Len(n.snaps) = k /\ DOMAIN n.snaps = 1..k /\ n.snaps[k] = e
      /\ \A i \in DOMAIN m.snaps : n.snaps[i] = m.snaps[i]
  BY <1>1, <1>2
<1>4. History(loc)
  BY DEF Histories
<1> HIDE DEF n, k
<1>5. k \in Nat /\ k > 0 /\ \A i \in 1..k : i = k \/ i \in DOMAIN m.snaps
  BY <1>3 DEF k
<1>6. n.snaps # << >> /\ n.snaps[Len(n.snaps)].id = new
  BY <1>3, <1>5
<1>7. \A i \in DOMAIN m.snaps : m.snaps[i].id \in DOMAIN warehouse /\ m.snaps[i].id # new
  BY <1>4 DEF History
<1>8. \A i \in DOMAIN n.snaps : n.snaps[i].id \in DOMAIN warehouse'
  BY <1>3, <1>5, <1>7 DEF Grows
<1>9. \A i, j \in DOMAIN n.snaps : n.snaps[i].id = n.snaps[j].id => i = j
  BY <1>3, <1>4, <1>5, <1>7 DEF History
<1>10. ASSUME NEW i \in DOMAIN n.snaps, NEW r \in Rows(n)
       PROVE  \/ r \in Rows(warehouse'[n.snaps[i].id])
              \/ \E j \in DOMAIN n.snaps : j > i /\ \E f \in n.snaps[j].added : r \in f.rows
  <2>1. CASE i = k
    BY <1>3, <1>10, <2>1 DEF n
  <2>2. CASE i \in DOMAIN m.snaps
    <3>1. k > i /\ k \in DOMAIN n.snaps /\ n.snaps[k].added = added
      BY <1>3, <1>5, <2>2 DEF k
    <3>2. warehouse'[n.snaps[i].id] = warehouse[m.snaps[i].id]
      BY <1>3, <1>7, <2>2 DEF Grows
    <3>3. r \in Rows(m) \/ \E f \in added : r \in f.rows
      BY <1>2, <1>10 DEF Rows
    <3>4. CASE r \in Rows(m)
      <4>1. \/ r \in Rows(warehouse[m.snaps[i].id])
            \/ \E j \in DOMAIN m.snaps : j > i /\ \E f \in m.snaps[j].added : r \in f.rows
        BY <1>4, <2>2, <3>4 DEF History
      <4>2. \A j \in DOMAIN m.snaps : j \in DOMAIN n.snaps /\ n.snaps[j] = m.snaps[j]
        BY <1>3 DEF k
      <4> QED BY <3>2, <4>1, <4>2
    <3> QED BY <3>1, <3>3, <3>4
  <2> QED BY <1>3, <1>5, <2>1, <2>2
<1> QED BY <1>6, <1>8, <1>9, <1>10 DEF History, n

\* Staging keeps every history.
LEMMA StageHistories ==
    ASSUME Shape, Histories, Grows, NEW w \in Writers, NEW op \in Op,
           ~Missing(catalog[w], op), WritesMetadata(catalog[w], op), Stage(w, op)
    PROVE  Histories'
<1>1. PICK new \in Loc : new = NextLoc(w, op.table)
  BY StageWrites
<1>2. PICK loc : loc = CurrentPointers(catalog[w])[op.table]
  OBVIOUS
<1>3. new \notin DOMAIN warehouse /\ DOMAIN warehouse' = DOMAIN warehouse \cup {new}
  BY <1>1, StageWrites
<1>4. History(new)'
  <2>1. warehouse'[new] = Result(w, op, IF loc = Nil THEN NewTable ELSE warehouse[loc], new)
    BY <1>1, <1>2 DEF Stage
  <2>2. CASE op.kind = "create"
    <3>1. warehouse'[new] = NewTable
      BY <2>1, <2>2 DEF Result
    <3>2. /\ warehouse'[new].snaps = << >> /\ warehouse'[new].files = {}
          /\ DOMAIN warehouse'[new].snaps = {}
      BY <3>1 DEF NewTable
    <3> QED BY <3>2 DEF History
  <2>3. CASE op.kind # "create"
    <3>1. loc \in DOMAIN warehouse /\ loc # Nil
      BY <1>2, <2>3, CurrentPointersRefs DEF Missing, Written, Op
    <3>2. warehouse[loc] \in Metadata
      BY <3>1 DEF Shape, TypeOK
    <3>3. PICK dropped, added : /\ added \in SUBSET File
              /\ Result(w, op, warehouse[loc], new) = WithSnapshot(warehouse[loc], new, dropped, added)
      BY <2>3, <3>2, ResultForm
    <3>4. warehouse'[new] = WithSnapshot(warehouse[loc], new, dropped, added)
      BY <2>1, <3>1, <3>3
    <3> QED BY <1>3, <3>1, <3>3, <3>4, HistoryExtended
  <2> QED BY <2>2, <2>3
<1>5. \A l \in DOMAIN warehouse : History(l)'
  BY HistoryKept
<1> QED BY <1>3, <1>4, <1>5 DEF Histories

(***************************************************************************)
(* Removals are validated.                                                 *)
(***************************************************************************)

\* An operation removes no row but those its predicate selects.
LEMMA ResultRemoves ==
    ASSUME NEW w \in Writers, NEW op \in Op, op.kind # "create",
           NEW m \in Metadata, NEW id \in Loc,
           NEW r \in Rows(m), r \notin Rows(Result(w, op, m, id))
    PROVE  op.kind \in Removals /\ r \in Matching(Rows(m), op.pred)
<1>1. PICK f \in m.files : r \in f.rows
  BY DEF Rows
<1>2. CASE op.kind = "append"
  <2>1. f \in Result(w, op, m, id).files
    BY <1>1, <1>2 DEF Result, Appended, WithSnapshot
  <2> QED BY <1>1, <2>1 DEF Rows
<1>3. CASE op.kind \in Removals
  <2>1. (m.files \ Touched(m, op.pred)) \cup Rewrites(m, op.pred)
            \subseteq Result(w, op, m, id).files
    <3>1. CASE op.kind = "delete"
      BY <3>1 DEF Result, Deleted, WithSnapshot
    <3>2. CASE op.kind = "overwrite"
      BY <3>2 DEF Result, Overwritten, WithSnapshot
    <3> QED BY <1>3, <3>1, <3>2 DEF Removals
  <2>2. SUFFICES ASSUME r \notin Matching(Rows(m), op.pred) PROVE FALSE
    BY <1>3
  <2>3. r.key \notin op.pred
    BY <2>2 DEF Matching
  <2>4. CASE f \notin Touched(m, op.pred)
    BY <1>1, <2>1, <2>4 DEF Rows
  <2>5. CASE f \in Touched(m, op.pred)
    <3> DEFINE g == [orig |-> f.orig, rows |-> f.rows \ Matching(f.rows, op.pred)]
    <3>1. r \in g.rows
      BY <1>1, <2>3 DEF Matching
    <3>2. g \in Rewrites(m, op.pred)
      BY <2>5, <3>1 DEF Rewrites
    <3> HIDE DEF g
    <3> QED BY <2>1, <3>1, <3>2 DEF Rows
  <2> QED BY <2>4, <2>5
<1> QED BY <1>2, <1>3 DEF Op, Kinds, Removals

\* A file with a selected row is never missed by the metrics evaluator.
LEMMA SelectedMayMatch ==
    ASSUME NEW f \in File, NEW r \in f.rows, NEW pred, r.key \in pred
    PROVE  MayMatch(f, pred)
<1>1. r.key \in Nat
  BY KeyAssumption DEF File, Row
<1> QED BY <1>1 DEF MayMatch

\* If validation finds nothing in the window (base, tip], whatever the
\* predicate selects at the tip was in the base version.
LEMMA WindowIsClean ==
    ASSUME Shape, Histories, NEW l \in DOMAIN warehouse, NEW base \in Loc, NEW pred,
           warehouse[l].snaps # << >>,
           ConflictingAdds(warehouse[l], base, pred) = {},
           NEW r \in Rows(warehouse[l]), r.key \in pred
    PROVE  base \in DOMAIN warehouse /\ r \in Rows(warehouse[base])
<1> DEFINE m == warehouse[l]
           i == PositionOf(m, base)
<1>1. History(l) /\ m \in Metadata /\ m.snaps \in Seq(Recorded)
  BY DEF Histories, Shape, TypeOK, Metadata
<1>2. CurrentSnapshotId(m) = l
  BY <1>1 DEF CurrentSnapshotId, History
<1>3. CASE base = l
  BY <1>3
<1>4. CASE base # l
  <2>1. i # 0 /\ MatchingAdds(m, i, pred) \ {base} = {}
    BY <1>2, <1>4 DEF ConflictingAdds
  <2>2. i \in DOMAIN m.snaps /\ m.snaps[i].id = base
    BY <2>1 DEF PositionOf
  <2> HIDE DEF i
  <2>3. base \in DOMAIN warehouse
    BY <1>1, <2>2 DEF History
  <2>4. SUFFICES ASSUME NEW j \in DOMAIN m.snaps, j > i,
                        NEW f \in m.snaps[j].added, r \in f.rows
                 PROVE  FALSE
    BY <1>1, <2>2, <2>3 DEF History
  <2>5. i \in Nat /\ j \in Nat /\ i <= j
    BY <1>1, <2>2, <2>4
  <2>6. f \in File
    <3>1. m.snaps[j] \in Recorded
      BY <1>1
    <3> QED BY <3>1 DEF Recorded
  <2>7. MayMatch(f, pred)
    BY <2>4, <2>6, SelectedMayMatch
  <2>8. m.snaps[j].id \in MatchingAdds(m, i, pred)
    BY <2>5, <2>7 DEF MatchingAdds
  <2>9. m.snaps[j].id # base
    BY <1>1, <2>2, <2>4, <2>5 DEF History
  <2> QED BY <2>1, <2>8, <2>9
<1> QED BY <1>3, <1>4

\* A removal that passes _validate_removal selects nothing at the winner's
\* version that the transaction did not start with.
LEMMA ValidatedRemoval ==
    ASSUME Shape, Histories, NEW w \in Writers, NEW op \in Op, NEW p,
           p[op.table] \in Written, ~RemovalConflict(w, op, p),
           plan[w].base[op.table] # Nil => plan[w].base[op.table] = Start(w)[op.table]
    PROVE  Matching(RowsAt(p, op.table), op.pred) \subseteq RowsAt(Start(w), op.table)
<1> DEFINE loc  == p[op.table]
           base == plan[w].base[op.table]
<1> SUFFICES ASSUME NEW r \in RowsAt(p, op.table), r.key \in op.pred
             PROVE  r \in RowsAt(Start(w), op.table)
  BY DEF Matching
<1>1. loc \in DOMAIN warehouse /\ loc # Nil /\ r \in Rows(warehouse[loc])
  BY DEF RowsAt, Written
<1>2. History(loc)
  BY <1>1 DEF Histories
<1>3. warehouse[loc].snaps # << >>
  BY <1>1, <1>2 DEF History, Rows
<1>4. CurrentSnapshotId(warehouse[loc]) = loc
  BY <1>2, <1>3 DEF CurrentSnapshotId, History
<1>5. base # Nil /\ ConflictingAdds(warehouse[loc], base, op.pred) = {}
  BY <1>1, <1>4 DEF RemovalConflict
<1>6. base \in Loc
  <2>1. plan[w].base \in Pointers /\ op.table \in Tables
    BY DEF Shape, TypeOK, Plan, Op
  <2> QED BY <1>5, <2>1 DEF Pointers
<1> HIDE DEF loc, base
<1>7. r \in Rows(warehouse[base])
  BY <1>1, <1>3, <1>5, <1>6, WindowIsClean
<1> QED BY <1>5, <1>7 DEF base, RowsAt

(***************************************************************************)
(* One transaction's part of the invariant.                                *)
(***************************************************************************)

\* An intent is an operation on a table.
LEMMA IntentType ==
    ASSUME Shape, NEW w \in Writers, NEW i \in DOMAIN plan[w].intents
    PROVE  plan[w].intents[i] \in Op /\ plan[w].intents[i].table \in Tables
<1>1. plan[w].intents \in Seq(Op)
  BY DEF Shape, TypeOK, Plan
<1>2. plan[w].intents[i] \in Op
  BY <1>1
<1> QED BY <1>2 DEF Op

\* The rows a transaction refers to do not change under it.
LEMMA RowsKept ==
    ASSUME Shape, Grows, NEW v \in Writers,
           catalog'[v].pointers = catalog[v].pointers, plan'[v].start = plan[v].start
    PROVE  /\ Start(v)' = Start(v)
           /\ \A t \in Tables : RowsAt(Start(v), t)' = RowsAt(Start(v), t)
           /\ \A t \in Tables : RowsAt(catalog[v].pointers, t)' = RowsAt(catalog[v].pointers, t)
           /\ \A t \in Tables : catalog'[v].staged[t] = catalog[v].staged[t] =>
                  RowsAt(catalog[v].staged, t)' = RowsAt(catalog[v].staged, t)
<1>1. plan[v].start \in DOMAIN snaps
  BY DEF Shape, Refs
<1>2. Start(v)' = Start(v)
  BY <1>1 DEF Start, Grows
<1>3. \A t \in Tables : /\ Start(v)[t] \in Written /\ catalog[v].pointers[t] \in Written
                        /\ catalog[v].staged[t] \in Written
  BY <1>1 DEF Shape, Refs, Start
<1> QED BY <1>2, <1>3 DEF RowsAt, Written, Grows

\* A step that leaves a transaction's plan and catalog alone keeps its part.
LEMMA WriterKept ==
    ASSUME Shape, Grows, NEW v \in Writers, WriterInv(v),
           catalog'[v].pointers = catalog[v].pointers, catalog'[v].staged = catalog[v].staged,
           plan'[v].start = plan[v].start, plan'[v].base = plan[v].base,
           plan'[v].intents = plan[v].intents,
           loop'[v].unmanaged = loop[v].unmanaged,
           \/ pc'[v] = pc[v] \/ pc'[v] \in {"committed", "failed"}
           \/ pc[v] = "apply" /\ pc'[v] = "recover"
           \/ pc[v] = "rebase" /\ pc'[v] = "apply"
    PROVE  WriterInv(v)'
<1>1. /\ Start(v)' = Start(v)
      /\ \A t \in Tables : RowsAt(Start(v), t)' = RowsAt(Start(v), t)
      /\ \A t \in Tables : RowsAt(catalog[v].pointers, t)' = RowsAt(catalog[v].pointers, t)
      /\ \A t \in Tables : RowsAt(catalog[v].staged, t)' = RowsAt(catalog[v].staged, t)
  BY RowsKept
<1>2. Anchored(v)'
  BY <1>1 DEF WriterInv, Anchored
<1>3. RemovalsSafe(v)'
  <2> SUFFICES ASSUME NEW i \in DOMAIN plan[v].intents, plan[v].intents[i].kind \in Removals
               PROVE  Matching(RowsAt(catalog[v].pointers, plan[v].intents[i].table)',
                               plan[v].intents[i].pred)
                        \subseteq RowsAt(Start(v), plan[v].intents[i].table)'
    BY DEF RemovalsSafe, Matching
  <2>1. plan[v].intents[i].table \in Tables
    BY IntentType
  <2> QED BY <1>1, <2>1 DEF WriterInv, RemovalsSafe
<1>4. StagedSafe(v)'
  BY <1>1 DEF WriterInv, StagedSafe
<1>5. Untouched(v)'
  BY <1>1 DEF WriterInv, Untouched
<1> QED BY <1>2, <1>3, <1>4, <1>5 DEF WriterInv

\* Opening a transaction establishes its part.
LEMMA WriterOpen ==
    ASSUME Shape, NEW w \in Writers, WriterInv(w),
           NEW b \in Branches, NEW sb \in Branches, Open(w, b, sb)
    PROVE  WriterInv(w)'
<1>1. catalog \in [Writers -> Catalog] /\ plan \in [Writers -> Plan] /\ pc \in [Writers -> Phases]
  BY DEF Shape, TypeOK
<1>2. /\ pc'[w] = "open" /\ catalog'[w].pointers = snaps[tip[sb]].pointers
      /\ catalog'[w].staged = catalog[w].staged
  BY <1>1 DEF Open, Catalog
<1>3. /\ plan'[w].start = tip[sb] /\ plan'[w].intents = plan[w].intents
      /\ plan'[w].base = plan[w].base /\ snaps' = snaps
  BY <1>1 DEF Open, Plan
<1>4. catalog[w].staged = NoPointers /\ plan[w].intents = << >> /\ plan[w].base = NoPointers
  BY DEF WriterInv, Untouched, Open
<1>5. \A t \in Tables : NoPointers[t] = Nil
  BY DEF NoPointers
<1>6. Anchored(w)' /\ StagedSafe(w)'
  BY <1>2, <1>3, <1>4, <1>5 DEF Anchored, StagedSafe
<1>7. RemovalsSafe(w)'
  BY <1>3, <1>4 DEF RemovalsSafe
<1>8. Untouched(w)'
  BY <1>2, <1>3 DEF Untouched, Start
<1> QED BY <1>6, <1>7, <1>8 DEF WriterInv

\* Recording an intent that removes nothing keeps it.
LEMMA WriterAppend ==
    ASSUME Shape, Grows, NEW w \in Writers, WriterInv(w), NEW op \in Op,
           op.kind \notin Removals, plan' = [plan EXCEPT ![w].intents = Append(@, op)],
           pc[w] = "open", UNCHANGED <<pc, catalog, loop>>
    PROVE  WriterInv(w)'
<1>1. plan \in [Writers -> Plan] /\ plan[w].intents \in Seq(Op)
  BY DEF Shape, TypeOK, Plan
<1>2. /\ plan'[w].start = plan[w].start /\ plan'[w].base = plan[w].base
      /\ plan'[w].intents = Append(plan[w].intents, op)
  BY <1>1 DEF Plan
<1>3. /\ Start(w)' = Start(w)
      /\ \A t \in Tables : RowsAt(Start(w), t)' = RowsAt(Start(w), t)
      /\ \A t \in Tables : RowsAt(catalog[w].pointers, t)' = RowsAt(catalog[w].pointers, t)
      /\ \A t \in Tables : RowsAt(catalog[w].staged, t)' = RowsAt(catalog[w].staged, t)
  BY <1>2, RowsKept
<1>4. Anchored(w)' /\ StagedSafe(w)' /\ Untouched(w)'
  BY <1>2, <1>3 DEF WriterInv, Anchored, StagedSafe, Untouched
<1>5. RemovalsSafe(w)'
  <2>1. \A i \in DOMAIN plan'[w].intents : plan'[w].intents[i].kind \in Removals =>
            i \in DOMAIN plan[w].intents /\ plan'[w].intents[i] = plan[w].intents[i]
    BY <1>1, <1>2
  <2> SUFFICES ASSUME NEW i \in DOMAIN plan'[w].intents, plan'[w].intents[i].kind \in Removals
               PROVE  Matching(RowsAt(catalog[w].pointers, plan[w].intents[i].table)',
                               plan'[w].intents[i].pred)
                        \subseteq RowsAt(Start(w), plan[w].intents[i].table)'
    BY DEF RemovalsSafe, Matching
  <2>2. i \in DOMAIN plan[w].intents /\ plan'[w].intents[i] = plan[w].intents[i]
    BY <2>1
  <2>3. plan[w].intents[i].table \in Tables
    BY <2>2, IntentType
  <2> QED BY <1>3, <2>2, <2>3 DEF WriterInv, RemovalsSafe
<1> QED BY <1>4, <1>5 DEF WriterInv

\* Before commit() a transaction's catalog is where it started, so that any
\* removal recorded or staged then is of rows it started with.
LEMMA WriterRemove ==
    ASSUME Shape, Histories, Grows, NEW w \in Writers, WriterInv(w),
           NEW op \in Op, RemoveRows(w, op)
    PROVE  WriterInv(w)'
<1>1. plan \in [Writers -> Plan] /\ plan[w].intents \in Seq(Op) /\ op.table \in Tables
  BY DEF Shape, TypeOK, Plan, Op
<1>2. pc[w] = "open" /\ UNCHANGED <<pc, catalog, loop>>
  BY DEF RemoveRows, MayRecord
<1>3. plan' = [plan EXCEPT ![w].intents = Append(@, op),
                           ![w].base[op.table] = BaseSnapshot(w, op.table),
                           ![w].captured = @ \cup {op.table}]
  BY DEF RemoveRows
<1>4. plan'[w].start = plan[w].start
  BY <1>1, <1>3 DEF Plan
<1>5. \A t \in Tables : plan'[w].base[t] =
          IF t = op.table THEN BaseSnapshot(w, op.table) ELSE plan[w].base[t]
  BY <1>1, <1>3 DEF Plan, Pointers
<1>6. catalog[w].pointers = Start(w)
  BY <1>2 DEF WriterInv, Untouched
<1>7. /\ Start(w)' = Start(w)
      /\ \A t \in Tables : RowsAt(Start(w), t)' = RowsAt(Start(w), t)
      /\ \A t \in Tables : RowsAt(catalog[w].pointers, t)' = RowsAt(catalog[w].pointers, t)
      /\ \A t \in Tables : RowsAt(catalog[w].staged, t)' = RowsAt(catalog[w].staged, t)
  BY <1>2, <1>4, RowsKept
<1>8. Anchored(w)'
  <2>1. ASSUME BaseSnapshot(w, op.table) # Nil, op.table \notin plan[w].captured
        PROVE  BaseSnapshot(w, op.table) = CurrentPointers(catalog[w])[op.table]
    <3>1. catalog[w].pointers[op.table] # Nil
      BY <2>1 DEF BaseSnapshot
    <3>2. CurrentPointers(catalog[w])[op.table] \in DOMAIN warehouse
      BY <1>1, <3>1, CurrentPointersRefs DEF CurrentPointers, Written
    <3>3. History(CurrentPointers(catalog[w])[op.table])
      BY <3>2 DEF Histories
    <3> QED BY <2>1, <3>1, <3>3 DEF BaseSnapshot, CurrentSnapshotId, History
  <2>2. ASSUME op.table \in plan[w].captured
        PROVE  BaseSnapshot(w, op.table) = plan[w].base[op.table]
    BY <2>2 DEF BaseSnapshot
  <2>3. CurrentPointers(catalog[w])[op.table] =
            IF catalog[w].staged[op.table] # Nil THEN catalog[w].staged[op.table]
            ELSE Start(w)[op.table]
    BY <1>1, <1>6 DEF CurrentPointers
  <2> QED BY <1>1, <1>2, <1>5, <1>7, <2>1, <2>2, <2>3 DEF WriterInv, Anchored
<1>9. RemovalsSafe(w)'
  BY <1>2, <1>6, <1>7 DEF RemovalsSafe, Matching
<1>10. StagedSafe(w)' /\ Untouched(w)'
  BY <1>2, <1>6, <1>7 DEF WriterInv, StagedSafe, Untouched
<1> QED BY <1>8, <1>9, <1>10 DEF WriterInv

\* Staging on the catalog: the tables staged before stay staged.
LEMMA WriterStage ==
    ASSUME Shape, Grows, NEW w \in Writers, WriterInv(w), NEW op \in Op,
           ~Missing(catalog[w], op), WritesMetadata(catalog[w], op), Stage(w, op),
           plan'[w].start = plan[w].start, plan'[w].base = plan[w].base,
           plan'[w].intents = plan[w].intents,
           loop'[w].unmanaged = loop[w].unmanaged, pc'[w] = pc[w],
           \/ pc[w] = "open"
           \/ pc[w] = "apply" /\ \E i \in DOMAIN plan[w].intents : op = plan[w].intents[i]
    PROVE  WriterInv(w)'
<1> DEFINE t0 == op.table
           loc == CurrentPointers(catalog[w])[t0]
           new == NextLoc(w, t0)
           m == warehouse[loc]
<1>1. /\ new \in Loc /\ new \notin DOMAIN warehouse
      /\ catalog'[w].pointers = catalog[w].pointers
      /\ \A t \in Tables : catalog'[w].staged[t] = IF t = t0 THEN new ELSE catalog[w].staged[t]
  BY StageWrites
<1>2. new # Nil /\ t0 \in Tables
  BY <1>1, NilAssumption DEF Op
<1>3. /\ Start(w)' = Start(w)
      /\ \A t \in Tables : RowsAt(Start(w), t)' = RowsAt(Start(w), t)
      /\ \A t \in Tables : RowsAt(catalog[w].pointers, t)' = RowsAt(catalog[w].pointers, t)
      /\ \A t \in Tables : catalog'[w].staged[t] = catalog[w].staged[t] =>
             RowsAt(catalog[w].staged, t)' = RowsAt(catalog[w].staged, t)
  BY <1>1, RowsKept
<1>4. Anchored(w)'
  BY <1>1, <1>2, <1>3 DEF WriterInv, Anchored
<1>5. RemovalsSafe(w)'
  <2> SUFFICES ASSUME NEW i \in DOMAIN plan[w].intents, plan[w].intents[i].kind \in Removals
               PROVE  Matching(RowsAt(catalog[w].pointers, plan[w].intents[i].table)',
                               plan[w].intents[i].pred)
                        \subseteq RowsAt(Start(w), plan[w].intents[i].table)'
    BY DEF RemovalsSafe, Matching
  <2>1. plan[w].intents[i].table \in Tables
    BY IntentType
  <2> QED BY <1>3, <2>1 DEF WriterInv, RemovalsSafe
<1>6. Untouched(w)'
  BY <1>1, <1>3 DEF WriterInv, Untouched
<1>7. StagedSafe(w)'
  <2>1. ASSUME NEW t \in Tables, t # t0, catalog'[w].staged[t] # Nil
        PROVE  RowsAt(catalog[w].pointers, t)' \ RowsAt(catalog[w].staged, t)'
                   \subseteq RowsAt(Start(w), t)'
    BY <1>1, <1>3, <2>1 DEF WriterInv, StagedSafe
  <2>2. RowsAt(catalog[w].pointers, t0)' \ RowsAt(catalog[w].staged, t0)'
            \subseteq RowsAt(Start(w), t0)'
    <3>1. CASE pc[w] = "open"
      BY <1>2, <1>3, <3>1 DEF WriterInv, Untouched
    <3>2. CASE /\ pc[w] = "apply"
               /\ \E i \in DOMAIN plan[w].intents : op = plan[w].intents[i]
      <4> SUFFICES ASSUME NEW r, r \in RowsAt(catalog[w].pointers, t0),
                          r \notin RowsAt(catalog[w].staged, t0)'
                   PROVE  r \in RowsAt(Start(w), t0)
        BY <1>2, <1>3
      <4>1. catalog[w].pointers[t0] # Nil
        BY DEF RowsAt
      <4>2. loc # Nil /\ loc \in DOMAIN warehouse
        BY <1>2, <4>1, CurrentPointersRefs DEF CurrentPointers, Written
      <4>3. op.kind # "create"
        BY <4>2 DEF WritesMetadata
      <4>4. warehouse'[new] = Result(w, op, m, new) /\ m \in Metadata
        BY <1>1, <4>2 DEF Stage, Shape, TypeOK
      <4>5. r \notin Rows(Result(w, op, m, new))
        <5>1. RowsAt(catalog[w].staged, t0)' = Rows(warehouse'[catalog'[w].staged[t0]])
          BY <1>1, <1>2 DEF RowsAt
        <5> QED BY <1>1, <1>2, <4>4, <5>1
      <4>6. CASE r \in Rows(m)
        <5>1. op.kind \in Removals /\ r.key \in op.pred
          BY <1>1, <4>3, <4>4, <4>5, <4>6, ResultRemoves DEF Matching
        <5>2. r \in Matching(RowsAt(catalog[w].pointers, t0), op.pred)
          BY <5>1 DEF Matching
        <5> QED BY <3>2, <5>1, <5>2 DEF WriterInv, RemovalsSafe
      <4>7. CASE r \notin Rows(m)
        <5>1. catalog[w].staged[t0] # Nil /\ r \notin RowsAt(catalog[w].staged, t0)
          BY <1>2, <4>1, <4>7 DEF RowsAt, CurrentPointers
        <5> QED BY <1>2, <5>1 DEF WriterInv, StagedSafe
      <4> QED BY <4>6, <4>7
    <3> QED BY <3>1, <3>2
  <2> QED BY <2>1, <2>2 DEF StagedSafe
<1> QED BY <1>4, <1>5, <1>6, <1>7 DEF WriterInv

\* commit() starts: what was staged before it is remembered as unmanaged.
LEMMA WriterBegin ==
    ASSUME Shape, Grows, NEW w \in Writers, WriterInv(w), BeginCommit(w)
    PROVE  WriterInv(w)'
<1>1. pc'[w] = "apply" /\ UNCHANGED <<catalog, plan>>
  BY DEF BeginCommit, Shape, TypeOK
<1>2. loop'[w].unmanaged = StagedTables(catalog[w])
  BY DEF BeginCommit, Shape, TypeOK
<1>3. /\ Start(w)' = Start(w)
      /\ \A t \in Tables : RowsAt(Start(w), t)' = RowsAt(Start(w), t)
      /\ \A t \in Tables : RowsAt(catalog[w].pointers, t)' = RowsAt(catalog[w].pointers, t)
      /\ \A t \in Tables : RowsAt(catalog[w].staged, t)' = RowsAt(catalog[w].staged, t)
  BY <1>1, RowsKept
<1>4. Anchored(w)'
  BY <1>1, <1>2, <1>3 DEF WriterInv, Anchored, StagedTables
<1>5. RemovalsSafe(w)'
  <2>1. \A i \in DOMAIN plan[w].intents : plan[w].intents[i].table \in Tables
    BY IntentType
  <2> QED BY <1>1, <1>3, <2>1 DEF WriterInv, RemovalsSafe, Matching
<1>6. StagedSafe(w)' /\ Untouched(w)'
  BY <1>1, <1>3 DEF WriterInv, StagedSafe, Untouched
<1> QED BY <1>4, <1>5, <1>6 DEF WriterInv

\* A replay is adopted only when every removal has been validated.
LEMMA WriterAdopt ==
    ASSUME Shape, Histories, Grows, NEW w \in Writers, WriterInv(w), Adopt(w)
    PROVE  WriterInv(w)'
<1>1. catalog \in [Writers -> Catalog] /\ pc \in [Writers -> Phases]
  BY DEF Shape, TypeOK
<1>2. /\ pc[w] = "recover" /\ pc'[w] = "rebase"
      /\ UNCHANGED <<snaps, tip, warehouse, plan, loop>>
  BY <1>1 DEF Adopt
<1>3. catalog'[w].pointers = TipPointers(w) /\ \A t \in Tables : catalog'[w].staged[t] = Nil
  BY <1>1 DEF Adopt, RebasedOnto, NoPointers, Catalog
<1>4. \A t \in Tables : plan[w].base[t] # Nil => plan[w].base[t] = Start(w)[t]
  <2>1. loop[w].unmanaged = {}
    BY DEF Adopt, Orphaned
  <2> QED BY <1>2, <2>1 DEF WriterInv, Anchored
<1>5. tip[plan[w].branch] \in DOMAIN snaps
  BY DEF Shape, TypeOK, Plan
<1>6. \A t \in Tables : TipPointers(w)[t] \in Written
  BY <1>5 DEF TipPointers, Shape, Refs
<1>7. ASSUME NEW i \in DOMAIN plan[w].intents, plan[w].intents[i].kind \in Removals
      PROVE  Matching(RowsAt(TipPointers(w), plan[w].intents[i].table), plan[w].intents[i].pred)
                 \subseteq RowsAt(Start(w), plan[w].intents[i].table)
  <2>1. plan[w].intents[i] \in Op /\ plan[w].intents[i].table \in Tables
    BY IntentType
  <2>2. ~RemovalConflict(w, plan[w].intents[i], TipPointers(w))
    BY <1>7 DEF Adopt, Unreplayable, Removals
  <2> QED BY <1>4, <1>6, <2>1, <2>2, ValidatedRemoval
<1>8. RemovalsSafe(w)'
  BY <1>2, <1>3, <1>7 DEF RemovalsSafe, RowsAt, Start, Matching
<1>9. Anchored(w)' /\ StagedSafe(w)' /\ Untouched(w)'
  BY <1>2, <1>3, <1>4 DEF Anchored, StagedSafe, Untouched, Start
<1> QED BY <1>8, <1>9 DEF WriterInv

(***************************************************************************)
(* The invariant is inductive.                                             *)
(***************************************************************************)

\* A transaction's state is its own: a step of w leaves the others' parts.
OwnStep(w) ==
    \A v \in Writers : v # w =>
        /\ catalog'[v] = catalog[v] /\ plan'[v] = plan[v]
        /\ loop'[v] = loop[v] /\ pc'[v] = pc[v]

\* What holds of the other transactions goes on to hold.
LEMMA OthersKept ==
    ASSUME IInv, Grows, NEW w \in Writers, OwnStep(w), WriterInv(w)'
    PROVE  \A v \in Writers : WriterInv(v)'
<1> SUFFICES ASSUME NEW v \in Writers, v # w PROVE WriterInv(v)'
  OBVIOUS
<1> QED BY WriterKept DEF IInv, OwnStep

\* A raised error keeps the invariant.
LEMMA FailInv ==
    ASSUME IInv, Grows, NEW w \in Writers, NEW err, Fail(w, err)
    PROVE  Histories' /\ \A v \in Writers : WriterInv(v)'
<1>1. Shape /\ Histories /\ WriterInv(w)
  BY DEF IInv
<1>2. loop \in [Writers -> Loop] /\ pc \in [Writers -> Phases]
  BY <1>1 DEF Shape, TypeOK
<1>3. /\ pc'[w] = "failed" /\ loop'[w].unmanaged = loop[w].unmanaged
      /\ OwnStep(w) /\ UNCHANGED <<warehouse, catalog, plan>>
  BY <1>2 DEF Fail, OwnStep, Loop
<1>4. WriterInv(w)'
  BY <1>1, <1>3, WriterKept
<1>5. Histories'
  BY <1>1, <1>3, HistoryKept DEF Histories
<1> QED BY <1>3, <1>4, <1>5, OthersKept

\* So do the caller's steps.
LEMMA CallerInv ==
    ASSUME IInv, Grows, NEW w \in Writers, Caller(w)
    PROVE  Histories' /\ \A v \in Writers : WriterInv(v)'
<1>1. Shape /\ Histories /\ WriterInv(w)
  BY DEF IInv
<1>2. /\ catalog \in [Writers -> Catalog] /\ plan \in [Writers -> Plan]
      /\ loop \in [Writers -> Loop] /\ pc \in [Writers -> Phases]
  BY <1>1 DEF Shape, TypeOK
<1>3. ASSUME UNCHANGED warehouse PROVE Histories'
  BY <1>1, <1>3, HistoryKept DEF Histories
<1>4. ASSUME NEW b \in Branches, NEW sb \in Branches, Open(w, b, sb)
      PROVE  Histories' /\ \A v \in Writers : WriterInv(v)'
  <2>1. OwnStep(w) /\ UNCHANGED warehouse
    BY <1>2, <1>4 DEF Open, OwnStep
  <2> QED BY <1>1, <1>3, <1>4, <2>1, WriterOpen, OthersKept
<1>5. ASSUME NEW b \in Branches, NEW sb \in Branches, RefuseSession(w, b, sb)
      PROVE  Histories' /\ \A v \in Writers : WriterInv(v)'
  BY <1>5, FailInv DEF RefuseSession
<1>6. ASSUME NEW op \in Ops, CreateTable(w, op) \/ AppendRows(w, op)
      PROVE  Histories' /\ \A v \in Writers : WriterInv(v)'
  <2>1. /\ op.kind \in {"create", "append"} /\ pc[w] = "open"
        /\ plan' = [plan EXCEPT ![w].intents = Append(@, op)]
        /\ UNCHANGED <<pc, catalog, loop, warehouse>>
    BY <1>6 DEF CreateTable, AppendRows, MayRecord
  <2>2. OwnStep(w)
    BY <1>2, <2>1 DEF OwnStep
  <2>3. op \in Op /\ op.kind \notin Removals
    BY <2>1, OpAssumption DEF Removals
  <2>4. WriterInv(w)'
    BY <1>1, <2>1, <2>3, WriterAppend
  <2> QED BY <1>3, <2>1, <2>2, <2>4, OthersKept
<1>7. ASSUME NEW op \in Ops, RemoveRows(w, op)
      PROVE  Histories' /\ \A v \in Writers : WriterInv(v)'
  <2>1. OwnStep(w) /\ UNCHANGED warehouse
    BY <1>2, <1>7 DEF RemoveRows, OwnStep
  <2>2. WriterInv(w)'
    BY <1>1, <1>7, OpAssumption, WriterRemove
  <2> QED BY <1>3, <2>1, <2>2, OthersKept
<1>8. ASSUME NEW c \in Chunks, WriteChunk(w, c)
      PROVE  Histories' /\ \A v \in Writers : WriterInv(v)'
  <2>1. /\ OwnStep(w) /\ UNCHANGED <<warehouse, pc, catalog, loop>>
    BY <1>2, <1>8 DEF WriteChunk, OwnStep
  <2>2. /\ plan'[w].start = plan[w].start /\ plan'[w].base = plan[w].base
        /\ plan'[w].intents = plan[w].intents
    BY <1>2, <1>8 DEF WriteChunk, Plan
  <2>3. WriterInv(w)'
    BY <1>1, <2>1, <2>2, WriterKept
  <2> QED BY <1>3, <2>1, <2>3, OthersKept
<1>9. ASSUME NEW op \in DirectOps, Direct(w, op)
      PROVE  Histories' /\ \A v \in Writers : WriterInv(v)'
  <2>1. /\ op \in Op /\ pc[w] = "open" /\ Stage(w, op)
        /\ ~Missing(catalog[w], op) /\ WritesMetadata(catalog[w], op)
        /\ UNCHANGED <<pc, loop>>
    BY <1>9, OpAssumption DEF Direct
  <2>2. /\ plan'[w].start = plan[w].start /\ plan'[w].base = plan[w].base
        /\ plan'[w].intents = plan[w].intents
    BY <1>2, <1>9 DEF Direct, Plan
  <2>3. \A v \in Writers : v # w => catalog'[v] = catalog[v]
    BY <1>1, <2>1, StageWrites
  <2>4. OwnStep(w)
    BY <1>2, <1>9, <2>3 DEF Direct, OwnStep
  <2>5. WriterInv(w)'
    BY <1>1, <2>1, <2>2, WriterStage
  <2>6. Histories'
    BY <1>1, <2>1, StageHistories
  <2> QED BY <2>4, <2>5, <2>6, OthersKept
<1>10. CASE BodyRaises(w)
  BY <1>10, FailInv DEF BodyRaises
<1>11. CASE BeginCommit(w)
  <2>1. OwnStep(w) /\ UNCHANGED warehouse
    BY <1>2, <1>11 DEF BeginCommit, OwnStep
  <2> QED BY <1>1, <1>3, <1>11, <2>1, WriterBegin, OthersKept
<1> QED BY <1>4, <1>5, <1>6, <1>7, <1>8, <1>9, <1>10, <1>11 DEF Caller

\* And the steps of a running commit().
LEMMA CommitInv ==
    ASSUME IInv, Grows, NEW w \in Writers, Commit(w)
    PROVE  Histories' /\ \A v \in Writers : WriterInv(v)'
<1>1. Shape /\ Histories /\ WriterInv(w)
  BY DEF IInv
<1>2. /\ catalog \in [Writers -> Catalog] /\ plan \in [Writers -> Plan]
      /\ loop \in [Writers -> Loop] /\ pc \in [Writers -> Phases]
  BY <1>1 DEF Shape, TypeOK
<1>3. ASSUME UNCHANGED warehouse PROVE Histories'
  BY <1>1, <1>3, HistoryKept DEF Histories
<1>4. ASSUME UNCHANGED <<warehouse, catalog, plan>>, OwnStep(w),
             loop'[w].unmanaged = loop[w].unmanaged,
             \/ pc'[w] = pc[w] \/ pc'[w] \in {"committed", "failed"}
             \/ pc[w] = "apply" /\ pc'[w] = "recover"
             \/ pc[w] = "rebase" /\ pc'[w] = "apply"
      PROVE  Histories' /\ \A v \in Writers : WriterInv(v)'
  <2>1. WriterInv(w)'
    BY <1>1, <1>4, WriterKept
  <2> QED BY <1>3, <1>4, <2>1, OthersKept
<1>5. ASSUME loop' = [loop EXCEPT ![w].next = @ + 1]
      PROVE  loop'[w].unmanaged = loop[w].unmanaged /\ \A v \in Writers : v # w => loop'[v] = loop[v]
  BY <1>2, <1>5 DEF Loop
<1>6. CASE ApplyIntent(w)
  <2>1. plan[w].intents \in Seq(Op) /\ loop[w].next \in Nat \ {0}
    BY <1>2 DEF Plan, Loop
  <2>2. /\ pc[w] = "apply" /\ loop[w].next <= Len(plan[w].intents) /\ Stage(w, Intent(w))
        /\ ~Missing(catalog[w], Intent(w)) /\ WritesMetadata(catalog[w], Intent(w))
        /\ UNCHANGED <<pc, plan>> /\ loop' = [loop EXCEPT ![w].next = @ + 1]
    BY <1>6 DEF ApplyIntent, Applying
  <2>3. /\ Intent(w) \in Op
        /\ \E i \in DOMAIN plan[w].intents : Intent(w) = plan[w].intents[i]
    BY <2>1, <2>2 DEF Intent
  <2>4. \A v \in Writers : v # w => catalog'[v] = catalog[v]
    BY <1>1, <2>2, <2>3, StageWrites
  <2>5. OwnStep(w)
    BY <1>5, <2>2, <2>4 DEF OwnStep
  <2>6. WriterInv(w)'
    BY <1>1, <1>5, <2>2, <2>3, WriterStage
  <2>7. Histories'
    BY <1>1, <2>2, <2>3, StageHistories
  <2> QED BY <2>5, <2>6, <2>7, OthersKept
<1>7. CASE ApplyNothing(w)
  BY <1>4, <1>5, <1>7 DEF ApplyNothing, OwnStep
<1>8. CASE Publish(w)
  <2>1. /\ pc'[w] = "committed" /\ OwnStep(w) /\ UNCHANGED <<warehouse, catalog, plan, loop>>
    BY <1>2, <1>8 DEF Publish, OwnStep
  <2> QED BY <1>4, <2>1
<1>9. CASE Conflict(w)
  <2>1. /\ pc[w] = "apply" /\ pc'[w] = "recover"
        /\ OwnStep(w) /\ UNCHANGED <<warehouse, catalog, plan, loop>>
    BY <1>2, <1>9 DEF Conflict, AllApplied, OwnStep
  <2> QED BY <1>4, <2>1
<1>10. CASE Adopt(w)
  <2>1. OwnStep(w) /\ UNCHANGED warehouse
    BY <1>2, <1>10 DEF Adopt, OwnStep
  <2> QED BY <1>1, <1>3, <1>10, <2>1, WriterAdopt, OthersKept
<1>11. CASE Rebase(w)
  <2>1. /\ pc[w] = "rebase" /\ pc'[w] = "apply" /\ loop'[w].unmanaged = loop[w].unmanaged
        /\ OwnStep(w) /\ UNCHANGED <<warehouse, catalog, plan>>
    BY <1>2, <1>11 DEF Rebase, OwnStep, Loop
  <2> QED BY <1>4, <2>1
<1>12. CASE \/ ApplyMissing(w) \/ RefuseEmpty(w) \/ Exhausted(w)
            \/ RefuseUncovered(w) \/ RefuseRemoval(w) \/ RebaseFails(w)
  BY <1>12, FailInv
  DEF ApplyMissing, RefuseEmpty, Exhausted, RefuseUncovered, RefuseRemoval, RebaseFails
<1> QED BY <1>6, <1>7, <1>8, <1>9, <1>10, <1>11, <1>12 DEF Commit

\* The first state satisfies the invariant.
LEMMA InitInv == Init => IInv
<1> SUFFICES ASSUME Init PROVE IInv
  OBVIOUS
<1>1. Shape
  BY InitShape
<1>2. ASSUME NEW l \in DOMAIN warehouse PROVE History(l)
  <2> DEFINE f == [orig |-> l, rows |-> {[key |-> k, by |-> Seeder] : k \in SeedKeys}]
             e == [id |-> l, added |-> {f}]
  <2>1. warehouse[l] = SeedTable(l.table) /\ SeedLoc(l.table) = l
    BY DEF Init, SeedLoc
  <2>2. CASE SeedKeys = {}
    <3>1. warehouse[l].snaps = << >> /\ warehouse[l].files = {} /\ DOMAIN warehouse[l].snaps = {}
      BY <2>1, <2>2 DEF SeedTable, NewTable
    <3> QED BY <3>1 DEF History
  <2>3. CASE SeedKeys # {}
    <3>1. warehouse[l].snaps = Append(<< >>, e)
      <4>1. warehouse[l] = WithSnapshot(NewTable, l, {}, {f})
        BY <2>1, <2>3 DEF SeedTable, Appended
      <4>2. warehouse[l].snaps = Append(NewTable.snaps, e)
        BY <4>1 DEF WithSnapshot
      <4> QED BY <4>2 DEF NewTable
    <3>2. /\ warehouse[l].snaps # << >> /\ DOMAIN warehouse[l].snaps = {1}
          /\ Len(warehouse[l].snaps) = 1 /\ warehouse[l].snaps[1].id = l
      BY <3>1
    <3> QED BY <3>2 DEF History
  <2> QED BY <2>2, <2>3
<1>3. ASSUME NEW w \in Writers PROVE WriterInv(w)
  <2>1. /\ pc[w] = "idle" /\ catalog[w].staged = NoPointers
        /\ plan[w].intents = << >> /\ plan[w].base = NoPointers
    BY DEF Init
  <2>2. \A t \in Tables : NoPointers[t] = Nil
    BY DEF NoPointers
  <2>3. Anchored(w) /\ StagedSafe(w) /\ Untouched(w)
    BY <2>1, <2>2 DEF Anchored, StagedSafe, Untouched
  <2>4. RemovalsSafe(w)
    BY <2>1 DEF RemovalsSafe
  <2> QED BY <2>3, <2>4 DEF WriterInv
<1> QED BY <1>1, <1>2, <1>3 DEF IInv, Histories

\* Every step keeps it.
LEMMA NextInv == IInv /\ [Next]_vars => IInv'
<1> SUFFICES ASSUME IInv, [Next]_vars PROVE IInv'
  OBVIOUS
<1>1. Shape' /\ Grows
  BY NextShape, StepGrows DEF IInv
<1>2. ASSUME NEW w \in Writers, StorageFault(w)
      PROVE  Histories' /\ \A v \in Writers : WriterInv(v)'
  BY <1>1, <1>2, FailInv DEF StorageFault
<1>5. ASSUME NEW w \in Writers, AnswerLost(w)
      PROVE  Histories' /\ \A v \in Writers : WriterInv(v)'
  <2>1. pc \in [Writers -> Phases] /\ loop \in [Writers -> Loop]
    BY DEF IInv, Shape, TypeOK
  <2>2. /\ pc'[w] = "failed" /\ loop'[w].unmanaged = loop[w].unmanaged
        /\ OwnStep(w) /\ UNCHANGED <<warehouse, catalog, plan>>
    BY <1>5, <2>1 DEF AnswerLost, OwnStep, Loop
  <2>3. Histories'
    BY <1>1, <2>2, HistoryKept DEF IInv, Histories
  <2>4. WriterInv(w)'
    BY <1>1, <2>2, WriterKept DEF IInv
  <2> QED BY <1>1, <2>2, <2>3, <2>4, OthersKept
<1>3. ASSUME UNCHANGED vars PROVE Histories' /\ \A v \in Writers : WriterInv(v)'
  <2>1. UNCHANGED <<warehouse, catalog, plan, loop, pc>>
    BY <1>3 DEF vars
  <2>2. Histories'
    BY <1>1, <2>1, HistoryKept DEF IInv, Histories
  <2>3. \A v \in Writers : WriterInv(v)'
    BY <1>1, <2>1, WriterKept DEF IInv
  <2> QED BY <2>2, <2>3
<1>4. Histories' /\ \A v \in Writers : WriterInv(v)'
  BY <1>1, <1>2, <1>3, <1>5, CallerInv, CommitInv DEF Next, Terminated
<1> QED BY <1>1, <1>4 DEF IInv

\* Snapshot isolation of removals, for any number of writers and retries: a
\* delete or overwrite never removes a row that was not in the table when its
\* transaction started, even when commits land between the two reads of the
\* branch tip in _recover.
THEOREM RemovalsAreIsolated == Spec => []NoBlindRemoval
<1>1. IInv => NoBlindRemoval
  BY DEF IInv, WriterInv, StagedSafe, NoBlindRemoval, Start
<1> QED BY <1>1, InitInv, NextInv, PTL DEF Spec

(***************************************************************************)
(* What a call of commit() leaves behind, proved for every number of       *)
(* writers, tables, branches and retries: all of a transaction or nothing  *)
(* of it, giving up only when overtaken on every attempt, and - as long as *)
(* the branch tip does not move between the two reads of _recover - table  *)
(* versions that descend from the ones they replace.                       *)
(***************************************************************************)

\* The transaction's snapshot is in the repository.
Done(w) == pc[w] = "committed" \/ loop[w].err = "answer lost"
Own(w)  == {i \in DOMAIN snaps : snaps[i].by = w}

Published(a) == \E i \in DOMAIN snaps : snaps[i].by = a

\* Whatever a reader can reach was written by the author of a snapshot.
Authorship ==
    /\ Len(snaps) >= 1 /\ snaps[1].by = Seeder
    /\ \A i \in DOMAIN snaps : i # 1 => snaps[i].by \in Writers
    /\ \A i \in DOMAIN snaps : \A c \in Chunks :
          snaps[i].chunks[c] # Nil => Published(snaps[i].chunks[c])
    /\ \A i \in DOMAIN snaps : \A t \in Tables :
          \A r \in RowsAt(snaps[i].pointers, t) : Published(r.by)

\* What a transaction stages on is published, and what it stages its own.
Provenance(w) ==
    \A t \in Tables :
        /\ \A r \in RowsAt(catalog[w].pointers, t) : Published(r.by)
        /\ \A r \in RowsAt(catalog[w].staged, t) : r.by = w \/ Published(r.by)

\* The chunks of the plan are in the session as long as it may be committed.
Carrying(w) ==
    /\ session[w].branch = plan[w].branch
    /\ pc[w] = "idle" => plan[w].chunks = {} /\ loop[w].err = "none"
    /\ pc[w] # "committed" /\ ~(pc[w] = "failed" /\ w \in Managed)
          => session[w].chunks = plan[w].chunks
    /\ loop[w].err = "answer lost" => pc[w] = "failed"

\* One snapshot, or none.
Outcome(w) ==
    IF Done(w)
    THEN \E i \in Own(w) :
            /\ Own(w) = {i}
            /\ snaps[i].branch = plan[w].branch
            /\ snaps[i].wrote = plan[w].chunks
            /\ \A c \in plan[w].chunks : snaps[i].chunks[c] = w
    ELSE Own(w) = {}

\* A branch points at its first snapshot or at one made on it.
Tips == \A b \in Branches : tip[b] = 1 \/ snaps[tip[b]].branch = b

\* The snapshots of others on the transaction's branch, from its start to n.
Overtaking(w, n) ==
    {i \in plan[w].start + 1 .. n : snaps[i].branch = plan[w].branch /\ snaps[i].by # w}

\* Every attempt so far was overtaken by another snapshot of another writer.
Overtaken(w) ==
    /\ plan[w].start <= session[w].snap
    /\ session[w].snap <= tip[session[w].branch]
    /\ pc[w] \in {"recover", "rebase"} => session[w].snap < tip[session[w].branch]
    /\ pc[w] \in {"apply", "recover", "rebase"} =>
          Cardinality(Overtaking(w, session[w].snap)) >= loop[w].attempt
    /\ loop[w].err = "ConflictError" =>
          Cardinality(Overtaking(w, Len(snaps))) > MaxRetries

Ledger(w) == Provenance(w) /\ Carrying(w) /\ Outcome(w) /\ Overtaken(w)
LInv      == Shape /\ Authorship /\ Tips /\ \A w \in Writers : Ledger(w)

\* One history continues another.
Continues(old, new) ==
    Len(old) <= Len(new) /\ SubSeq(new, 1, Len(old)) = old

\* Every table of one pointer map is in the other, at a version that descends.
Descend(versions, p, q) ==
    \A t \in Tables :
        p[t] # Nil => q[t] # Nil /\ Continues(versions[p[t]].snaps, versions[q[t]].snaps)

\* A transaction whose session is at the tip has the tip's pointers, and so has
\* one about to rebase its session onto the tip.
Current(w) ==
    /\ AtTip(w) /\ \/ pc[w] \in {"open", "apply"}
                   \/ pc[w] = "failed" /\ loop[w].err # "session branch"
          => catalog[w].pointers = snaps[session[w].snap].pointers
    /\ pc[w] = "rebase" => catalog[w].pointers = TipPointers(w)

Descents ==
    \A i \in DOMAIN snaps :
        i # 1 => /\ snaps[i].parent \in DOMAIN snaps
                 /\ Descend(warehouse, snaps[snaps[i].parent].pointers, snaps[i].pointers)

Lineage(w) ==
    Current(w) /\ Descend(warehouse, catalog[w].pointers, CurrentPointers(catalog[w]))
DInv == IInv /\ LInv /\ Descents /\ \A w \in Writers : Lineage(w)

(***************************************************************************)
(* The forms of a step, by what they do to the acting transaction.         *)
(***************************************************************************)

SameRepo        == UNCHANGED <<snaps, tip, warehouse>>
SamePlan(w)     == UNCHANGED <<plan[w].branch, plan[w].start, plan[w].chunks>>
SamePointers(w) == UNCHANGED <<catalog[w].pointers, catalog[w].staged>>
SameBase(w)     == UNCHANGED <<session[w].branch, session[w].snap>>
SameLoop(w)     == UNCHANGED <<loop[w].err, loop[w].attempt>>

Opening(w) ==
    /\ pc[w] = "idle" /\ pc'[w] = "open"
    /\ plan'[w].branch \in Branches /\ session'[w].branch = plan'[w].branch
    /\ plan'[w].start = tip[plan'[w].branch] /\ session'[w].snap = plan'[w].start
    /\ session'[w].chunks = {} /\ plan'[w].chunks = plan[w].chunks
    /\ catalog'[w].pointers = snaps[plan'[w].start].pointers
    /\ catalog'[w].staged = catalog[w].staged
    /\ SameLoop(w) /\ SameRepo

Preparing(w) ==
    /\ pc[w] = "open" /\ pc'[w] = "open"
    /\ UNCHANGED <<plan[w].branch, plan[w].start>>
    /\ session[w].chunks = plan[w].chunks => session'[w].chunks = plan'[w].chunks
    /\ SameBase(w) /\ SamePointers(w) /\ SameLoop(w) /\ SameRepo

Staging(w) ==
    /\ pc[w] \in {"open", "apply"} /\ pc'[w] = pc[w]
    /\ \E op \in Op : /\ ~Missing(catalog[w], op) /\ WritesMetadata(catalog[w], op)
                      /\ Stage(w, op)
    /\ session'[w] = session[w] /\ SamePlan(w) /\ SameLoop(w) /\ UNCHANGED <<snaps, tip>>

Beginning(w) ==
    /\ \/ pc[w] = "open"
       \/ pc[w] = "failed" /\ w \notin Managed /\ loop[w].err \notin {"session branch", "answer lost"}
    /\ pc'[w] = "apply" /\ loop'[w].err = "none" /\ loop'[w].attempt = 0
    /\ session'[w] = session[w] /\ SamePointers(w) /\ SamePlan(w) /\ SameRepo

Going(w) ==
    /\ pc[w] = "apply" /\ pc'[w] \in {"apply", "recover"}
    /\ pc'[w] = "recover" => ~AtTip(w)
    /\ session'[w] = session[w] /\ SamePointers(w) /\ SamePlan(w) /\ SameLoop(w) /\ SameRepo

Adopting(w) ==
    /\ pc[w] = "recover" /\ pc'[w] = "rebase"
    /\ catalog'[w].pointers = TipPointers(w) /\ catalog'[w].staged = NoPointers
    /\ session'[w] = session[w] /\ SamePlan(w) /\ SameLoop(w) /\ SameRepo

Rebasing(w) ==
    /\ pc[w] = "rebase" /\ pc'[w] = "apply"
    /\ session'[w].snap = tip[session[w].branch]
    /\ UNCHANGED <<session[w].branch, session[w].chunks>>
    /\ loop'[w].err = loop[w].err /\ loop'[w].attempt = loop[w].attempt + 1
    /\ SamePointers(w) /\ SamePlan(w) /\ SameRepo

Failing(w) ==
    /\ pc[w] \notin {"committed", "failed"} /\ pc'[w] = "failed"
    /\ loop'[w].err # "answer lost"
    /\ loop'[w].err = "ConflictError" =>
          pc[w] = "apply" /\ ~AtTip(w) /\ loop[w].attempt = MaxRetries
    /\ loop'[w].err # "session branch" => pc[w] # "idle"
    /\ w \notin Managed => session'[w].chunks = session[w].chunks
    /\ SameBase(w) /\ SamePointers(w) /\ SamePlan(w) /\ SameRepo

Landing(w) ==
    /\ pc[w] = "apply" /\ AtTip(w) /\ Landed(w)
    /\ \/ pc'[w] = "committed" /\ SameLoop(w)
       \/ pc'[w] = "failed" /\ loop'[w].err = "answer lost"
    /\ pc'[w] = "failed" /\ w \notin Managed => session'[w].chunks = session[w].chunks
    /\ SameBase(w)

StepOf(w) ==
    /\ OwnStep(w) /\ \A v \in Writers : v # w => session'[v] = session[v]
    /\ \/ Opening(w) \/ Preparing(w) \/ Staging(w) \/ Beginning(w) \/ Going(w)
       \/ Adopting(w) \/ Rebasing(w) \/ Failing(w) \/ Landing(w)

\* A raised error is a failing step.
LEMMA FailForm ==
    ASSUME Shape, NEW w \in Writers, NEW err \in Errors, Fail(w, err),
           pc[w] \notin {"committed", "failed"}, err # "answer lost",
           err = "ConflictError" => pc[w] = "apply" /\ ~AtTip(w) /\ loop[w].attempt = MaxRetries,
           err # "session branch" => pc[w] # "idle"
    PROVE  StepOf(w)
<1>1. /\ pc \in [Writers -> Phases] /\ session \in [Writers -> Session]
      /\ loop \in [Writers -> Loop]
  BY DEF Shape, TypeOK
<1>2. pc'[w] = "failed" /\ loop'[w].err = err
  BY <1>1 DEF Fail, Loop
<1>3. /\ session'[w].branch = session[w].branch /\ session'[w].snap = session[w].snap
      /\ w \notin Managed => session'[w].chunks = session[w].chunks
  BY <1>1 DEF Fail, Session, Discarded
<1>4. OwnStep(w) /\ \A v \in Writers : v # w => session'[v] = session[v]
  BY <1>1 DEF Fail, OwnStep
<1>5. UNCHANGED <<snaps, tip, warehouse, catalog, plan>>
  BY DEF Fail
<1>6. Failing(w)
  BY <1>2, <1>3, <1>5 DEF Failing, SameBase, SamePointers, SamePlan, SameRepo
<1> QED BY <1>4, <1>6 DEF StepOf

\* The caller's steps have these forms.
LEMMA CallerForms ==
    ASSUME Shape, NEW w \in Writers, Caller(w)
    PROVE  StepOf(w)
<1>a. /\ pc \in [Writers -> Phases] /\ session \in [Writers -> Session]
      /\ catalog \in [Writers -> Catalog] /\ plan \in [Writers -> Plan]
      /\ loop \in [Writers -> Loop]
  BY DEF Shape, TypeOK
<1> USE DEF SameRepo, SamePlan, SamePointers, SameBase, SameLoop
<1>1. ASSUME NEW b \in Branches, NEW sb \in Branches, Open(w, b, sb)
      PROVE  StepOf(w)
  <2>1. sb = b
    BY <1>1 DEF Open, SessionAccepted
  <2>2. pc[w] = "idle" /\ pc'[w] = "open" /\ UNCHANGED <<snaps, tip, warehouse, loop>>
    BY <1>1, <1>a DEF Open
  <2>3. session'[w].branch = b /\ session'[w].snap = tip[b] /\ session'[w].chunks = {}
    BY <1>1, <1>a, <2>1 DEF Open
  <2>4. plan'[w].branch = b /\ plan'[w].start = tip[b] /\ plan'[w].chunks = plan[w].chunks
    BY <1>1, <1>a, <2>1 DEF Open, Plan
  <2>5. catalog'[w].pointers = snaps[tip[b]].pointers /\ catalog'[w].staged = catalog[w].staged
    BY <1>1, <1>a, <2>1 DEF Open, Catalog
  <2>6. OwnStep(w) /\ \A v \in Writers : v # w => session'[v] = session[v]
    BY <1>1, <1>a DEF Open, OwnStep
  <2> QED BY <2>2, <2>3, <2>4, <2>5, <2>6 DEF StepOf, Opening
<1>2. ASSUME NEW b \in Branches, NEW sb \in Branches, RefuseSession(w, b, sb)
      PROVE  StepOf(w)
  BY <1>2, FailForm DEF RefuseSession, Errors
<1>3. ASSUME NEW op \in Ops, CreateTable(w, op)
      PROVE  StepOf(w)
  <2>1. pc[w] = "open" /\ UNCHANGED <<snaps, tip, warehouse, pc, catalog, loop>>
    BY <1>3 DEF CreateTable, MayRecord
  <2>2. /\ session'[w].branch = session[w].branch /\ session'[w].snap = session[w].snap
        /\ session'[w].chunks = session[w].chunks
    BY <1>3, <1>a DEF CreateTable, Grouped, Declared, HasRoot, Session
  <2>3. /\ plan'[w].branch = plan[w].branch /\ plan'[w].start = plan[w].start
        /\ plan'[w].chunks = plan[w].chunks
    BY <1>3, <1>a DEF CreateTable, Plan
  <2>4. OwnStep(w) /\ \A v \in Writers : v # w => session'[v] = session[v]
    BY <1>3, <1>a DEF CreateTable, OwnStep
  <2> QED BY <2>1, <2>2, <2>3, <2>4 DEF StepOf, Preparing
<1>4. ASSUME NEW op \in Ops, AppendRows(w, op) \/ RemoveRows(w, op)
      PROVE  StepOf(w)
  <2>1. pc[w] = "open" /\ UNCHANGED <<snaps, tip, warehouse, pc, session, catalog, loop>>
    BY <1>4 DEF AppendRows, RemoveRows, MayRecord
  <2>2. /\ plan'[w].branch = plan[w].branch /\ plan'[w].start = plan[w].start
        /\ plan'[w].chunks = plan[w].chunks
    BY <1>4, <1>a DEF AppendRows, RemoveRows, Plan
  <2>3. OwnStep(w)
    BY <1>4, <1>a DEF AppendRows, RemoveRows, OwnStep
  <2> QED BY <2>1, <2>2, <2>3 DEF StepOf, Preparing
<1>5. ASSUME NEW c \in Chunks, WriteChunk(w, c)
      PROVE  StepOf(w)
  <2>1. pc[w] = "open" /\ UNCHANGED <<snaps, tip, warehouse, pc, catalog, loop>>
    BY <1>5 DEF WriteChunk
  <2>2. /\ session'[w].branch = session[w].branch /\ session'[w].snap = session[w].snap
        /\ session'[w].chunks = session[w].chunks \cup {c}
    BY <1>5, <1>a DEF WriteChunk, Session
  <2>3. /\ plan'[w].branch = plan[w].branch /\ plan'[w].start = plan[w].start
        /\ plan'[w].chunks = plan[w].chunks \cup {c}
    BY <1>5, <1>a DEF WriteChunk, Plan
  <2>4. OwnStep(w) /\ \A v \in Writers : v # w => session'[v] = session[v]
    BY <1>5, <1>a DEF WriteChunk, OwnStep
  <2> QED BY <2>1, <2>2, <2>3, <2>4 DEF StepOf, Preparing
<1>6. ASSUME NEW op \in DirectOps, Direct(w, op)
      PROVE  StepOf(w)
  <2>1. /\ op \in Op /\ pc[w] = "open" /\ Stage(w, op)
        /\ ~Missing(catalog[w], op) /\ WritesMetadata(catalog[w], op)
        /\ UNCHANGED <<snaps, tip, pc, session, loop>>
    BY <1>6, OpAssumption DEF Direct
  <2>2. /\ plan'[w].branch = plan[w].branch /\ plan'[w].start = plan[w].start
        /\ plan'[w].chunks = plan[w].chunks
    BY <1>6, <1>a DEF Direct, Plan
  <2>3. \A v \in Writers : v # w => catalog'[v] = catalog[v]
    BY <2>1, StageWrites
  <2>4. OwnStep(w)
    BY <1>6, <1>a, <2>3 DEF Direct, OwnStep
  <2> QED BY <2>1, <2>2, <2>4 DEF StepOf, Staging
<1>7. CASE BodyRaises(w)
  BY <1>7, FailForm DEF BodyRaises, Errors
<1>8. CASE BeginCommit(w)
  <2>1. /\ \/ pc[w] = "open"
           \/ pc[w] = "failed" /\ w \notin Managed /\ loop[w].err \notin {"session branch", "answer lost"}
        /\ UNCHANGED <<snaps, tip, warehouse, session, catalog, plan>>
    BY <1>8 DEF BeginCommit
  <2>2. pc'[w] = "apply" /\ loop'[w].err = "none" /\ loop'[w].attempt = 0
    BY <1>8, <1>a DEF BeginCommit
  <2>3. OwnStep(w)
    BY <1>8, <1>a DEF BeginCommit, OwnStep
  <2> QED BY <2>1, <2>2, <2>3 DEF StepOf, Beginning
<1> QED BY <1>1, <1>2, <1>3, <1>4, <1>5, <1>6, <1>7, <1>8 DEF Caller

\* So have the steps of a running commit().
LEMMA CommitForms ==
    ASSUME Shape, NEW w \in Writers, Commit(w) \/ StorageFault(w) \/ AnswerLost(w)
    PROVE  StepOf(w)
<1>a. /\ pc \in [Writers -> Phases] /\ session \in [Writers -> Session]
      /\ catalog \in [Writers -> Catalog] /\ plan \in [Writers -> Plan]
      /\ loop \in [Writers -> Loop]
  BY DEF Shape, TypeOK
<1> USE DEF SameRepo, SamePlan, SamePointers, SameBase, SameLoop
<1>b. ASSUME loop' = [loop EXCEPT ![w].next = @ + 1]
      PROVE  /\ loop'[w].err = loop[w].err /\ loop'[w].attempt = loop[w].attempt
             /\ \A v \in Writers : v # w => loop'[v] = loop[v]
  BY <1>a, <1>b DEF Loop
<1>1. CASE ApplyIntent(w)
  <2>1. plan[w].intents \in Seq(Op) /\ loop[w].next \in Nat \ {0}
    BY <1>a DEF Plan, Loop
  <2>2. /\ pc[w] = "apply" /\ loop[w].next <= Len(plan[w].intents) /\ Stage(w, Intent(w))
        /\ ~Missing(catalog[w], Intent(w)) /\ WritesMetadata(catalog[w], Intent(w))
        /\ UNCHANGED <<snaps, tip, pc, session, plan>> /\ loop' = [loop EXCEPT ![w].next = @ + 1]
    BY <1>1 DEF ApplyIntent, Applying
  <2>3. Intent(w) \in Op
    BY <2>1, <2>2 DEF Intent
  <2>4. \A v \in Writers : v # w => catalog'[v] = catalog[v]
    BY <2>2, <2>3, StageWrites
  <2>5. OwnStep(w)
    BY <1>b, <2>2, <2>4 DEF OwnStep
  <2>6. Staging(w)
    BY <1>b, <2>2, <2>3 DEF Staging
  <2> QED BY <2>2, <2>5, <2>6 DEF StepOf
<1>2. CASE ApplyNothing(w)
  <2>1. /\ pc[w] = "apply" /\ loop' = [loop EXCEPT ![w].next = @ + 1]
        /\ UNCHANGED <<snaps, tip, warehouse, pc, session, catalog, plan>>
    BY <1>2 DEF ApplyNothing, Applying
  <2>2. Going(w) /\ OwnStep(w)
    BY <1>b, <2>1 DEF Going, OwnStep
  <2> QED BY <2>1, <2>2 DEF StepOf
<1>3. CASE Publish(w)
  <2>1. /\ pc[w] = "apply" /\ AtTip(w) /\ Landed(w) /\ loop' = loop
    BY <1>3 DEF Publish, AllApplied, Landed
  <2>2. /\ pc'[w] = "committed" /\ session'[w].branch = session[w].branch
        /\ session'[w].snap = session[w].snap
    BY <1>3, <1>a DEF Publish, Session, Discarded
  <2>3. OwnStep(w) /\ \A v \in Writers : v # w => session'[v] = session[v]
    BY <1>3, <1>a DEF Publish, OwnStep
  <2>4. Landing(w)
    BY <2>1, <2>2 DEF Landing
  <2> QED BY <2>3, <2>4 DEF StepOf
<1>4. CASE AnswerLost(w)
  <2>1. /\ pc[w] = "apply" /\ AtTip(w) /\ Landed(w)
    BY <1>4 DEF AnswerLost, AllApplied, Landed
  <2>2. /\ pc' = [pc EXCEPT ![w] = "failed"]
        /\ loop' = [loop EXCEPT ![w].err = "answer lost"]
        /\ session' = [session EXCEPT ![w] = IF w \in Managed THEN Discarded(@) ELSE @]
    BY <1>4 DEF AnswerLost
  <2>3. /\ pc'[w] = "failed" /\ session'[w].branch = session[w].branch
        /\ session'[w].snap = session[w].snap
        /\ w \notin Managed => session'[w].chunks = session[w].chunks
    BY <1>a, <2>2 DEF Session, Discarded
  <2>4. loop'[w].err = "answer lost"
    BY <1>a, <2>2 DEF Loop
  <2>5. OwnStep(w) /\ \A v \in Writers : v # w => session'[v] = session[v]
    BY <1>4, <1>a DEF AnswerLost, OwnStep
  <2>6. Landing(w)
    BY <2>1, <2>3, <2>4 DEF Landing
  <2> QED BY <2>5, <2>6 DEF StepOf
<1>5. CASE Conflict(w)
  <2>1. /\ pc[w] = "apply" /\ pc'[w] = "recover" /\ ~AtTip(w) /\ OwnStep(w)
        /\ UNCHANGED <<snaps, tip, warehouse, session, catalog, plan, loop>>
    BY <1>5, <1>a DEF Conflict, AllApplied, OwnStep
  <2> QED BY <2>1 DEF StepOf, Going
<1>6. CASE Adopt(w)
  <2>1. /\ pc[w] = "recover" /\ pc'[w] = "rebase" /\ OwnStep(w)
        /\ UNCHANGED <<snaps, tip, warehouse, session, plan, loop>>
    BY <1>6, <1>a DEF Adopt, OwnStep
  <2>2. catalog'[w].pointers = TipPointers(w) /\ catalog'[w].staged = NoPointers
    BY <1>6, <1>a DEF Adopt, RebasedOnto, Catalog
  <2> QED BY <2>1, <2>2 DEF StepOf, Adopting
<1>7. CASE Rebase(w)
  <2>1. /\ pc[w] = "rebase" /\ pc'[w] = "apply" /\ OwnStep(w)
        /\ UNCHANGED <<snaps, tip, warehouse, catalog, plan>>
    BY <1>7, <1>a DEF Rebase, OwnStep
  <2>2. /\ session'[w].snap = tip[session[w].branch]
        /\ session'[w].branch = session[w].branch /\ session'[w].chunks = session[w].chunks
        /\ \A v \in Writers : v # w => session'[v] = session[v]
    BY <1>7, <1>a DEF Rebase, Session
  <2>3. loop'[w].err = loop[w].err /\ loop'[w].attempt = loop[w].attempt + 1
    BY <1>7, <1>a DEF Rebase, Loop
  <2> QED BY <2>1, <2>2, <2>3 DEF StepOf, Rebasing
<1>8. CASE Exhausted(w)
  BY <1>8, FailForm DEF Exhausted, AllApplied, Errors
<1>9. CASE \/ ApplyMissing(w) \/ RefuseEmpty(w) \/ RefuseUncovered(w)
           \/ RefuseRemoval(w) \/ RebaseFails(w) \/ StorageFault(w)
  BY <1>9, FailForm
  DEF ApplyMissing, RefuseEmpty, RefuseUncovered, RefuseRemoval, RebaseFails,
      StorageFault, Applying, AllApplied, Errors
<1> QED BY <1>1, <1>2, <1>3, <1>4, <1>5, <1>6, <1>7, <1>8, <1>9 DEF Commit

\* Every step has one of the forms, or changes nothing.
LEMMA StepForms ==
    ASSUME Shape, [Next]_vars
    PROVE  UNCHANGED vars \/ \E w \in Writers : StepOf(w)
BY CallerForms, CommitForms DEF Next, Terminated

(***************************************************************************)
(* All or nothing.                                                         *)
(***************************************************************************)

\* A snapshot stays.
LEMMA SnapshotsRemain ==
    ASSUME Grows, NEW a, Published(a)
    PROVE  Published(a)'
BY DEF Grows, Published

\* The rows of every version that was written stay.
LEMMA RowsStay ==
    ASSUME Shape, Grows
    PROVE  /\ \A i \in DOMAIN snaps : \A t \in Tables : \A r :
                r \in RowsAt(snaps[i].pointers, t)' <=> r \in RowsAt(snaps[i].pointers, t)
           /\ \A v \in Writers :
                /\ catalog'[v].pointers = catalog[v].pointers => \A t \in Tables : \A r :
                     r \in RowsAt(catalog[v].pointers, t)' <=> r \in RowsAt(catalog[v].pointers, t)
                /\ \A t \in Tables : catalog'[v].staged[t] = catalog[v].staged[t] => \A r :
                     r \in RowsAt(catalog[v].staged, t)' <=> r \in RowsAt(catalog[v].staged, t)
<1>1. \A i \in DOMAIN snaps : \A t \in Tables :
         snaps[i].pointers[t] = Nil \/ snaps[i].pointers[t] \in DOMAIN warehouse
  BY DEF Shape, Refs, Written
<1>2. \A v \in Writers : \A t \in Tables :
         /\ catalog[v].pointers[t] = Nil \/ catalog[v].pointers[t] \in DOMAIN warehouse
         /\ catalog[v].staged[t] = Nil \/ catalog[v].staged[t] \in DOMAIN warehouse
  BY DEF Shape, Refs, Written
<1>3. /\ \A l \in DOMAIN warehouse : warehouse'[l] = warehouse[l]
      /\ \A i \in DOMAIN snaps : snaps'[i] = snaps[i]
  BY DEF Grows
<1>4. ASSUME NEW i \in DOMAIN snaps, NEW t \in Tables
      PROVE  RowsAt(snaps[i].pointers, t)' = RowsAt(snaps[i].pointers, t)
  BY <1>1, <1>3 DEF RowsAt
<1>5. ASSUME NEW v \in Writers, catalog'[v].pointers = catalog[v].pointers, NEW t \in Tables
      PROVE  RowsAt(catalog[v].pointers, t)' = RowsAt(catalog[v].pointers, t)
  BY <1>2, <1>3, <1>5 DEF RowsAt
<1>6. ASSUME NEW v \in Writers, NEW t \in Tables, catalog'[v].staged[t] = catalog[v].staged[t]
      PROVE  RowsAt(catalog[v].staged, t)' = RowsAt(catalog[v].staged, t)
  BY <1>2, <1>3, <1>6 DEF RowsAt
<1> QED BY <1>4, <1>5, <1>6

\* An operation adds no row but its author's.
LEMMA ResultAuthors ==
    ASSUME NEW w \in Writers, NEW op \in Op, NEW m \in Metadata, NEW id \in Loc,
           NEW r \in Rows(Result(w, op, m, id))
    PROVE  r \in Rows(m) \/ r.by = w
<1>1. ASSUME NEW f \in Rewrites(m, op.pred), r \in f.rows PROVE r \in Rows(m)
  BY <1>1 DEF Rewrites, Touched, Rows
<1>2. ASSUME r \in DataRows(w, op) PROVE r.by = w
  BY <1>2 DEF DataRows
<1>3. CASE op.kind = "create"
  BY <1>3 DEF Result, NewTable, Rows
<1>4. CASE op.kind = "append"
  BY <1>2, <1>4 DEF Result, Appended, WithSnapshot, Rows
<1>5. CASE op.kind = "delete"
  BY <1>1, <1>5 DEF Result, Deleted, WithSnapshot, Rows
<1>6. CASE op.kind = "overwrite"
  BY <1>1, <1>2, <1>6 DEF Result, Overwritten, WithSnapshot, Rows
<1> QED BY <1>3, <1>4, <1>5, <1>6 DEF Op, Kinds

\* A transaction whose pointers do not change keeps its provenance.
LEMMA ProvenanceKept ==
    ASSUME Shape, Grows, NEW v \in Writers, Provenance(v), SamePointers(v)
    PROVE  Provenance(v)'
BY RowsStay, SnapshotsRemain DEF Provenance, SamePointers

\* What it stages is its own or was published.
LEMMA ProvenanceStaged ==
    ASSUME Shape, Grows, NEW w \in Writers, Provenance(w), NEW op \in Op, Stage(w, op)
    PROVE  Provenance(w)'
<1> DEFINE new  == NextLoc(w, op.table)
           loc  == CurrentPointers(catalog[w])[op.table]
           base == IF loc = Nil THEN NewTable ELSE warehouse[loc]
<1>1. /\ new \in Loc /\ new # Nil /\ op.table \in Tables
      /\ catalog'[w].pointers = catalog[w].pointers
      /\ \A t \in Tables : catalog'[w].staged[t] = IF t = op.table THEN new ELSE catalog[w].staged[t]
  <2>1. /\ new \in Loc /\ catalog'[w].pointers = catalog[w].pointers
        /\ \A t \in Tables : catalog'[w].staged[t] = IF t = op.table THEN new ELSE catalog[w].staged[t]
    BY StageWrites
  <2> HIDE DEF new
  <2> QED BY <2>1, NilAssumption DEF Op
<1>2. warehouse'[new] = Result(w, op, base, new)
  BY DEF Stage
<1>3. base \in Metadata
  BY <1>1, BaseVersion
<1>4. \A r \in Rows(base) : r.by = w \/ Published(r.by)
  <2>1. CASE loc = Nil
    BY <2>1 DEF NewTable, Rows
  <2>2. CASE loc # Nil
    <3>1. \/ catalog[w].staged[op.table] # Nil /\ loc = catalog[w].staged[op.table]
          \/ loc = catalog[w].pointers[op.table]
      BY <1>1 DEF CurrentPointers
    <3> QED BY <1>1, <2>2, <3>1 DEF Provenance, RowsAt
  <2> QED BY <2>1, <2>2
<1> HIDE DEF new, base
<1>5. \A r \in Rows(warehouse'[new]) : r.by = w \/ Published(r.by)
  BY <1>1, <1>2, <1>3, <1>4, ResultAuthors
<1>6. \A r \in RowsAt(catalog[w].staged, op.table)' : r.by = w \/ Published(r.by)
  BY <1>1, <1>5 DEF RowsAt
<1>7. ASSUME NEW t \in Tables PROVE \A r \in RowsAt(catalog[w].staged, t)' : r.by = w \/ Published(r.by)
  <2>1. CASE t = op.table
    BY <1>6, <2>1
  <2>2. CASE t # op.table
    BY <1>1, <2>2, RowsStay DEF Provenance
  <2> QED BY <2>1, <2>2
<1>8. ASSUME NEW t \in Tables PROVE \A r \in RowsAt(catalog[w].pointers, t)' : Published(r.by)
  BY <1>1, RowsStay DEF Provenance
<1> QED BY <1>7, <1>8, SnapshotsRemain DEF Provenance

\* Without a new snapshot, what readers reach stays.
LEMMA AuthorshipKept ==
    ASSUME Shape, Grows, Authorship, UNCHANGED snaps
    PROVE  Authorship'
<1>1. \A a : Published(a) => Published(a)'
  BY SnapshotsRemain
<1>2. \A i \in DOMAIN snaps : \A t \in Tables : \A r :
          r \in RowsAt(snaps[i].pointers, t)' => Published(r.by)
  BY RowsStay DEF Authorship
<1> QED BY <1>1, <1>2 DEF Authorship

\* A new snapshot publishes what its author staged on published state.
LEMMA AuthorshipLanded ==
    ASSUME Shape, Grows, Authorship, NEW w \in Writers, Provenance(w), Landed(w)
    PROVE  Authorship' /\ Published(w)'
<1>0. PICK n : n = Len(snaps) + 1
  OBVIOUS
<1>1. snaps \in Seq(Snapshot) /\ NewSnapshot(w) \in Snapshot /\ snaps' = Append(snaps, NewSnapshot(w))
  BY NewSnapshotType DEF Landed, Shape, TypeOK
<1>2. /\ n \in DOMAIN snaps' /\ snaps'[n] = NewSnapshot(w) /\ DOMAIN snaps' = DOMAIN snaps \cup {n}
      /\ Len(snaps') >= Len(snaps) /\ Len(snaps) \in Nat /\ Len(snaps') \in Nat
      /\ \A i \in DOMAIN snaps : snaps'[i] = snaps[i]
  BY <1>0, <1>1
<1>3. NewSnapshot(w).by = w /\ NewSnapshot(w).pointers = CurrentPointers(catalog[w])
  BY DEF NewSnapshot, CommitMetadata
<1>4. \A c \in Chunks : NewSnapshot(w).chunks[c] =
          IF c \in session[w].chunks THEN w ELSE snaps[session[w].snap].chunks[c]
  BY DEF NewSnapshot
<1>5. Published(w)'
  BY <1>2, <1>3 DEF Published
<1>6. \A a : Published(a) => Published(a)'
  BY SnapshotsRemain
<1>7. ASSUME NEW c \in Chunks, snaps'[n].chunks[c] # Nil PROVE \E i \in DOMAIN snaps' : snaps'[i].by = snaps'[n].chunks[c]
  <2>1. session[w].snap \in DOMAIN snaps
    BY DEF Shape, Refs
  <2> QED BY <1>2, <1>4, <1>5, <1>6, <1>7, <2>1 DEF Authorship, Published
<1>8. ASSUME NEW t \in Tables, NEW r, r \in RowsAt(snaps[n].pointers, t)' PROVE Published(r.by)'
  <2>1. /\ CurrentPointers(catalog[w])[t] = IF catalog[w].staged[t] # Nil
               THEN catalog[w].staged[t] ELSE catalog[w].pointers[t]
        /\ warehouse' = warehouse
    BY DEF CurrentPointers, Landed
  <2>2. r \in RowsAt(CurrentPointers(catalog[w]), t)
    BY <1>2, <1>3, <1>8, <2>1 DEF RowsAt
  <2>3. r.by = w \/ Published(r.by)
    BY <2>1, <2>2 DEF RowsAt, Provenance
  <2> QED BY <1>5, <1>6, <2>3
<1>9. ASSUME NEW i \in DOMAIN snaps, NEW t \in Tables, NEW r, r \in RowsAt(snaps[i].pointers, t)'
      PROVE  Published(r.by)'
  BY <1>6, <1>9, RowsStay DEF Authorship
<1>10. ASSUME NEW i \in DOMAIN snaps, NEW c \in Chunks, snaps'[i].chunks[c] # Nil
       PROVE  \E j \in DOMAIN snaps' : snaps'[j].by = snaps'[i].chunks[c]
  BY <1>2, <1>6, <1>10 DEF Authorship, Published
<1>11. /\ Len(snaps') >= 1 /\ snaps'[1].by = Seeder
       /\ \A i \in DOMAIN snaps' : i # 1 => snaps'[i].by \in Writers
  BY <1>2, <1>3 DEF Authorship
<1>12. \A i \in DOMAIN snaps' : \A c \in Chunks :
          snaps'[i].chunks[c] # Nil => \E j \in DOMAIN snaps' : snaps'[j].by = snaps'[i].chunks[c]
  BY <1>2, <1>7, <1>10
<1>13. \A i \in DOMAIN snaps' : \A t \in Tables : \A r \in RowsAt(snaps[i].pointers, t)' : Published(r.by)'
  BY <1>2, <1>8, <1>9
<1> QED BY <1>5, <1>11, <1>12, <1>13 DEF Authorship, Published

\* The snapshots of a transaction change only when its own commit lands.
LEMMA OwnKept ==
    ASSUME Shape, NEW v \in Writers,
           UNCHANGED snaps \/ \E w \in Writers : w # v /\ Landed(w)
    PROVE  Own(v)' = Own(v)
<1>1. CASE UNCHANGED snaps
  BY <1>1 DEF Own
<1>2. ASSUME NEW w \in Writers, w # v, Landed(w)
      PROVE  Own(v)' = Own(v)
  <2>1. snaps \in Seq(Snapshot) /\ NewSnapshot(w) \in Snapshot /\ snaps' = Append(snaps, NewSnapshot(w))
    BY <1>2, NewSnapshotType DEF Landed, Shape, TypeOK
  <2>2. NewSnapshot(w).by = w
    BY DEF NewSnapshot
  <2>3. /\ DOMAIN snaps' = DOMAIN snaps \cup {Len(snaps) + 1} /\ snaps'[Len(snaps) + 1].by = w
        /\ \A i \in DOMAIN snaps : snaps'[i] = snaps[i]
    BY <2>1, <2>2
  <2> QED BY <1>2, <2>3 DEF Own
<1> QED BY <1>1, <1>2

\* A transaction's outcome stays when its snapshots and its plan do.
LEMMA OutcomeKept ==
    ASSUME Shape, Grows, NEW v \in Writers, Outcome(v), Own(v)' = Own(v),
           Done(v)' = Done(v), Done(v) => SamePlan(v)
    PROVE  Outcome(v)'
<1>1. CASE ~Done(v)
  BY <1>1 DEF Outcome
<1>2. CASE Done(v)
  <2>1. PICK i \in Own(v) : /\ Own(v) = {i}
                            /\ snaps[i].branch = plan[v].branch
                            /\ snaps[i].wrote = plan[v].chunks
                            /\ \A c \in plan[v].chunks : snaps[i].chunks[c] = v
    BY <1>2 DEF Outcome
  <2>2. snaps'[i] = snaps[i]
    BY DEF Own, Grows
  <2>3. plan'[v].branch = plan[v].branch /\ plan'[v].chunks = plan[v].chunks
    BY <1>2 DEF SamePlan
  <2> QED BY <1>2, <2>1, <2>2, <2>3 DEF Outcome
<1> QED BY <1>1, <1>2

\* A commit that lands is the transaction's only snapshot, and holds its chunks.
LEMMA OutcomeLanded ==
    ASSUME Shape, NEW w \in Writers, Own(w) = {}, Landing(w),
           session[w].chunks = plan[w].chunks, session[w].branch = plan[w].branch
    PROVE  Outcome(w)'
<1>1. PICK n : n = Len(snaps) + 1
  OBVIOUS
<1>2. snaps \in Seq(Snapshot) /\ NewSnapshot(w) \in Snapshot /\ snaps' = Append(snaps, NewSnapshot(w))
  BY NewSnapshotType DEF Landing, Landed, Shape, TypeOK
<1>3. /\ DOMAIN snaps' = DOMAIN snaps \cup {n} /\ snaps'[n] = NewSnapshot(w)
      /\ \A i \in DOMAIN snaps : snaps'[i] = snaps[i]
  BY <1>1, <1>2
<1>4. NewSnapshot(w).by = w /\ NewSnapshot(w).branch = plan[w].branch /\ NewSnapshot(w).wrote = plan[w].chunks
  BY DEF NewSnapshot
<1>5. plan[w].chunks \subseteq Chunks
  BY DEF Shape, TypeOK, Plan
<1>6. \A c \in plan[w].chunks : NewSnapshot(w).chunks[c] = w
  BY <1>5 DEF NewSnapshot
<1>7. Own(w)' = {n}
  BY <1>3, <1>4 DEF Own
<1>8. Done(w)' /\ plan' = plan
  BY DEF Done, Landing, Landed
<1> QED BY <1>3, <1>4, <1>6, <1>7, <1>8 DEF Outcome

(***************************************************************************)
(* Giving up is earned.                                                    *)
(***************************************************************************)

\* The tips move forward, to snapshots of their branch.
LEMMA TipsMove ==
    ASSUME Shape, Tips, \/ UNCHANGED <<snaps, tip>>
                        \/ \E w \in Writers : Landed(w)
    PROVE  Tips' /\ (\A b \in Branches : tip[b] <= tip'[b]) /\ Len(snaps) <= Len(snaps')
<1>0. tip \in [Branches -> 1..Len(snaps)] /\ snaps \in Seq(Snapshot)
  BY DEF Shape, TypeOK
<1>1. CASE UNCHANGED <<snaps, tip>>
  BY <1>0, <1>1 DEF Tips
<1>2. ASSUME NEW w \in Writers, Landed(w)
      PROVE  Tips' /\ (\A b \in Branches : tip[b] <= tip'[b]) /\ Len(snaps) <= Len(snaps')
  <2>1. /\ NewSnapshot(w) \in Snapshot /\ snaps' = Append(snaps, NewSnapshot(w))
        /\ tip' = [tip EXCEPT ![session[w].branch] = Len(snaps) + 1]
    BY <1>2, NewSnapshotType DEF Landed
  <2>2. NewSnapshot(w).branch = session[w].branch
    BY DEF NewSnapshot
  <2>3. /\ Len(snaps) \in Nat /\ Len(snaps') = Len(snaps) + 1
        /\ snaps'[Len(snaps) + 1].branch = session[w].branch
        /\ \A i \in 1..Len(snaps) : snaps'[i] = snaps[i]
    BY <1>0, <2>1, <2>2
  <2>4. \A b \in Branches : tip'[b] = IF b = session[w].branch THEN Len(snaps) + 1 ELSE tip[b]
    BY <1>0, <2>1
  <2> QED BY <1>0, <2>3, <2>4 DEF Tips
<1> QED BY <1>1, <1>2

\* Overtaking snapshots are finite in number and stay.
LEMMA OvertakingKept ==
    ASSUME Shape, Grows, NEW v \in Writers, Len(snaps) <= Len(snaps'), Shape',
           plan'[v].branch = plan[v].branch, plan'[v].start = plan[v].start
    PROVE  /\ \A n \in DOMAIN snaps : Overtaking(v, n)' = Overtaking(v, n)
           /\ Overtaking(v, Len(snaps)) \subseteq Overtaking(v, Len(snaps))'
           /\ IsFiniteSet(Overtaking(v, Len(snaps))')
<1>1. /\ plan[v].start \in Nat /\ Len(snaps) \in Nat /\ Len(snaps') \in Nat
      /\ DOMAIN snaps = 1..Len(snaps)
  BY DEF Shape, TypeOK, Plan
<1>2. \A i \in DOMAIN snaps : snaps'[i] = snaps[i]
  BY DEF Grows
<1>3. \A n \in DOMAIN snaps : Overtaking(v, n)' = Overtaking(v, n)
  BY <1>1, <1>2 DEF Overtaking
<1>4. Overtaking(v, Len(snaps)) \subseteq Overtaking(v, Len(snaps))'
  BY <1>1, <1>2 DEF Overtaking
<1>5. IsFiniteSet(plan[v].start + 1 .. Len(snaps'))
  <2>1. plan[v].start + 1 \in Int /\ Len(snaps') \in Int
    BY <1>1
  <2> QED BY <2>1, FS_Interval
<1>6. Overtaking(v, Len(snaps))' \subseteq plan[v].start + 1 .. Len(snaps')
  BY DEF Overtaking
<1>7. IsFiniteSet(Overtaking(v, Len(snaps))')
  BY <1>5, <1>6, FS_Subset
<1> QED BY <1>3, <1>4, <1>7

\* The session stays where it is, no attempt begins, and none is given up.
NoFurther(v) ==
    /\ SameBase(v) /\ UNCHANGED <<plan[v].branch, plan[v].start>>
    /\ pc'[v] \in {"recover", "rebase"} =>
          pc[v] \in {"recover", "rebase"} \/ (pc[v] = "apply" /\ ~AtTip(v))
    /\ pc'[v] \in {"apply", "recover", "rebase"} =>
          pc[v] \in {"apply", "recover", "rebase"} /\ loop'[v].attempt = loop[v].attempt
    /\ loop'[v].err = "ConflictError" => loop[v].err = "ConflictError"

\* A transaction that does not move is overtaken as before.
LEMMA OvertakenKept ==
    ASSUME Shape, Shape', Grows, NEW v \in Writers, Overtaken(v), NoFurther(v),
           Len(snaps) <= Len(snaps'), \A b \in Branches : tip[b] <= tip'[b]
    PROVE  Overtaken(v)'
<1>1. /\ session[v].snap \in DOMAIN snaps /\ session[v].branch \in Branches
      /\ tip[session[v].branch] \in Nat /\ tip'[session[v].branch] \in Nat
      /\ session[v].snap \in Nat /\ plan[v].start \in Nat
      /\ loop[v].attempt \in Nat
  <2>1. session[v] \in Session /\ plan[v] \in Plan /\ loop[v] \in Loop
    BY DEF Shape, TypeOK
  <2>2. /\ session[v].snap \in DOMAIN snaps /\ session[v].branch \in Branches
        /\ session[v].snap \in Nat /\ plan[v].start \in Nat /\ loop[v].attempt \in Nat
    BY <2>1 DEF Shape, Refs, Session, Plan, Loop
  <2>3. tip \in [Branches -> 1..Len(snaps)] /\ tip' \in [Branches -> 1..Len(snaps')]
    BY DEF Shape, TypeOK
  <2> QED BY <2>2, <2>3
<1>2. /\ session'[v].branch = session[v].branch /\ session'[v].snap = session[v].snap
  BY DEF NoFurther, SameBase
<1>3. /\ \A n \in DOMAIN snaps : Overtaking(v, n)' = Overtaking(v, n)
      /\ Overtaking(v, Len(snaps)) \subseteq Overtaking(v, Len(snaps))'
      /\ IsFiniteSet(Overtaking(v, Len(snaps))')
  BY OvertakingKept DEF NoFurther
<1>4. Overtaking(v, session[v].snap)' = Overtaking(v, session[v].snap)
  BY <1>1, <1>2, <1>3 DEF NoFurther, Overtaking
<1>5. /\ Cardinality(Overtaking(v, Len(snaps))) <= Cardinality(Overtaking(v, Len(snaps))')
      /\ Cardinality(Overtaking(v, Len(snaps))) \in Nat
      /\ Cardinality(Overtaking(v, Len(snaps))') \in Nat
  BY <1>3, FS_Subset, FS_CardinalityType
<1>6. plan'[v].start <= session'[v].snap /\ session'[v].snap <= tip'[session'[v].branch]
  BY <1>1, <1>2 DEF NoFurther, Overtaken
<1>7. pc'[v] \in {"recover", "rebase"} => session'[v].snap < tip'[session'[v].branch]
  BY <1>1, <1>2 DEF Overtaken, NoFurther, AtTip
<1>8. pc'[v] \in {"apply", "recover", "rebase"} =>
          Cardinality(Overtaking(v, session[v].snap)') >= loop'[v].attempt
  BY <1>4 DEF NoFurther, Overtaken
<1>9. MaxRetries \in Nat
  BY BoundAssumption
<1>10. loop'[v].err = "ConflictError" => Cardinality(Overtaking(v, Len(snaps))') > MaxRetries
  BY <1>5, <1>9 DEF NoFurther, Overtaken
<1> QED BY <1>6, <1>7, <1>8, <1>10 DEF Overtaken

\* A transaction that finds itself behind was overtaken once more than it tried.
LEMMA BehindTheTip ==
    ASSUME Shape, Tips, NEW w \in Writers, Overtaken(w), Own(w) = {},
           session[w].branch = plan[w].branch,
           pc[w] \in {"apply", "recover", "rebase"}, ~AtTip(w)
    PROVE  /\ Cardinality(Overtaking(w, tip[session[w].branch])) >= loop[w].attempt + 1
           /\ Cardinality(Overtaking(w, Len(snaps))) >= loop[w].attempt + 1
<1> DEFINE n == tip[session[w].branch]
           A == Overtaking(w, session[w].snap)
           B == Overtaking(w, n)
           C == Overtaking(w, Len(snaps))
<1>1. /\ session[w].snap \in DOMAIN snaps /\ plan[w].start \in DOMAIN snaps
      /\ n \in 1..Len(snaps) /\ DOMAIN snaps = 1..Len(snaps) /\ Len(snaps) \in Nat
      /\ loop[w].attempt \in Nat /\ session[w].branch \in Branches
  BY DEF Shape, TypeOK, Refs, Session, Loop
<1>2. plan[w].start <= session[w].snap /\ session[w].snap < n
  BY <1>1 DEF Overtaken, AtTip
<1>3. snaps[n].branch = plan[w].branch /\ snaps[n].by # w
  BY <1>1, <1>2 DEF Tips, Own
<1>4. n \in B /\ n \notin A /\ A \cup {n} \subseteq B /\ B \subseteq C
  BY <1>1, <1>2, <1>3 DEF Overtaking
<1>5. C \subseteq plan[w].start + 1 .. Len(snaps)
  BY DEF Overtaking
<1>6. IsFiniteSet(C)
  <2>1. plan[w].start + 1 \in Int /\ Len(snaps) \in Int
    BY <1>1
  <2>2. IsFiniteSet(plan[w].start + 1 .. Len(snaps))
    BY <2>1, FS_Interval
  <2> QED BY <1>5, <2>2, FS_Subset
<1>7. Cardinality(A) >= loop[w].attempt
  BY DEF Overtaken
<1> HIDE DEF n, A, B, C
<1>8. IsFiniteSet(A) /\ IsFiniteSet(B) /\ IsFiniteSet(A \cup {n})
  BY <1>4, <1>6, FS_Subset
<1>9. Cardinality(A \cup {n}) = Cardinality(A) + 1
  BY <1>4, <1>8, FS_AddElement
<1>10. Cardinality(A \cup {n}) <= Cardinality(B) /\ Cardinality(B) <= Cardinality(C)
  BY <1>4, <1>6, <1>8, FS_Subset
<1>11. Cardinality(A) \in Nat /\ Cardinality(B) \in Nat /\ Cardinality(C) \in Nat
  BY <1>6, <1>8, FS_CardinalityType
<1>12. Cardinality(B) >= loop[w].attempt + 1 /\ Cardinality(C) >= loop[w].attempt + 1
  BY <1>1, <1>7, <1>9, <1>10, <1>11
<1> QED BY <1>12 DEF B, C, n

(***************************************************************************)
(* The ledger is kept.                                                     *)
(***************************************************************************)

\* What a step of w does to the repository.
LEMMA RepoStep ==
    ASSUME LInv, Shape', Grows, NEW w \in Writers, StepOf(w)
    PROVE  /\ Authorship' /\ Tips' /\ Len(snaps) <= Len(snaps')
           /\ \A b \in Branches : tip[b] <= tip'[b]
           /\ Landed(w) \/ UNCHANGED <<snaps, tip>>
<1>1. Shape /\ Authorship /\ Tips /\ Provenance(w)
  BY DEF LInv, Ledger
<1>2. Landed(w) \/ UNCHANGED <<snaps, tip>>
  BY DEF StepOf, Opening, Preparing, Staging, Beginning, Going, Adopting, Rebasing, Failing,
         Landing, SameRepo
<1>3. Authorship'
  BY <1>1, <1>2, AuthorshipKept, AuthorshipLanded
<1>4. Tips' /\ (\A b \in Branches : tip[b] <= tip'[b]) /\ Len(snaps) <= Len(snaps')
  BY <1>1, <1>2, TipsMove
<1> QED BY <1>2, <1>3, <1>4

\* The entry of a transaction that does not act stays.
LEMMA LedgerStays ==
    ASSUME Shape, Shape', Grows, NEW v \in Writers, Ledger(v),
           catalog'[v] = catalog[v], plan'[v] = plan[v], loop'[v] = loop[v],
           pc'[v] = pc[v], session'[v] = session[v],
           Len(snaps) <= Len(snaps'), \A b \in Branches : tip[b] <= tip'[b],
           UNCHANGED snaps \/ \E w \in Writers : w # v /\ Landed(w)
    PROVE  Ledger(v)'
<1>1. SamePointers(v) /\ SamePlan(v)
  BY DEF SamePointers, SamePlan
<1>2. Provenance(v)'
  BY <1>1, ProvenanceKept DEF Ledger
<1>3. Carrying(v)'
  BY DEF Ledger, Carrying
<1>4. Outcome(v)'
  <2>1. Own(v)' = Own(v)
    BY OwnKept
  <2>2. Done(v)' = Done(v)
    BY DEF Done
  <2> QED BY <1>1, <2>1, <2>2, OutcomeKept DEF Ledger
<1>5. Overtaken(v)'
  <2>1. NoFurther(v)
    BY DEF NoFurther, SameBase, AtTip
  <2> QED BY <2>1, OvertakenKept DEF Ledger
<1> QED BY <1>2, <1>3, <1>4, <1>5 DEF Ledger

\* The acting transaction's entry is kept, or made when its commit lands.
LEMMA LedgerOfActing ==
    ASSUME LInv, Shape', Grows, NEW w \in Writers, StepOf(w)
    PROVE  Ledger(w)'
<1>a. Shape /\ Tips /\ Authorship /\ Provenance(w) /\ Carrying(w) /\ Outcome(w) /\ Overtaken(w)
  BY DEF LInv, Ledger
<1>b. Len(snaps) <= Len(snaps') /\ \A b \in Branches : tip[b] <= tip'[b]
  BY RepoStep
<1>c. ASSUME pc[w] # "committed", pc[w] = "failed" => loop[w].err # "answer lost"
      PROVE  ~Done(w) /\ Own(w) = {}
  BY <1>a, <1>c DEF Done, Carrying, Outcome
<1>d. ASSUME ~Done(w), ~Done(w)', UNCHANGED snaps
      PROVE  Outcome(w)'
  <2>1. Own(w)' = Own(w)
    BY <1>a, <1>d, OwnKept
  <2> QED BY <1>a, <1>d, <2>1 DEF Outcome
<1> USE DEF SamePlan, SamePointers, SameBase, SameLoop, SameRepo
<1>1. CASE Opening(w)
  <2>1. Outcome(w)' /\ Carrying(w)'
    BY <1>1, <1>a, <1>c, <1>d DEF Opening, Done, Carrying
  <2>2. tip[plan'[w].branch] \in DOMAIN snaps /\ tip[plan'[w].branch] \in Nat
    BY <1>1, <1>a DEF Opening, Shape, TypeOK
  <2>3. Overtaken(w)'
    <3>1. /\ session'[w].snap = plan'[w].start /\ plan'[w].start \in Nat
          /\ tip'[session'[w].branch] = plan'[w].start /\ pc'[w] = "open"
      BY <1>1, <2>2 DEF Opening
    <3>2. loop'[w].err = "none"
      BY <1>1, <1>a DEF Opening, Carrying
    <3> QED BY <3>1, <3>2 DEF Overtaken
  <2>4. Provenance(w)'
    <3>1. ASSUME NEW t \in Tables, NEW r, r \in RowsAt(catalog[w].pointers, t)'
          PROVE  Published(r.by)
      BY <1>1, <1>a, <2>2, <3>1 DEF Opening, RowsAt, Authorship
    <3>2. ASSUME NEW t \in Tables, NEW r, r \in RowsAt(catalog[w].staged, t)'
          PROVE  r.by = w \/ Published(r.by)
      BY <1>1, <1>a, <3>2 DEF Opening, RowsAt, Provenance
    <3> QED BY <3>1, <3>2, SnapshotsRemain DEF Provenance
  <2> QED BY <2>1, <2>3, <2>4 DEF Ledger
<1>2. CASE Preparing(w)
  <2>1. Outcome(w)' /\ Carrying(w)'
    BY <1>2, <1>a, <1>c, <1>d DEF Preparing, Done, Carrying
  <2>2. Overtaken(w)'
    BY <1>2, <1>a, <1>b, OvertakenKept DEF NoFurther, Preparing
  <2>3. Provenance(w)'
    BY <1>2, <1>a, ProvenanceKept DEF Preparing
  <2> QED BY <2>1, <2>2, <2>3 DEF Ledger
<1>3. CASE Staging(w)
  <2>1. Outcome(w)' /\ Carrying(w)'
    BY <1>3, <1>a, <1>c, <1>d DEF Staging, Done, Carrying
  <2>2. Overtaken(w)'
    BY <1>3, <1>a, <1>b, OvertakenKept DEF NoFurther, Staging
  <2>3. Provenance(w)'
    BY <1>3, <1>a, ProvenanceStaged DEF Staging
  <2> QED BY <2>1, <2>2, <2>3 DEF Ledger
<1>4. CASE Beginning(w)
  <2>1. Outcome(w)' /\ Carrying(w)'
    BY <1>4, <1>a, <1>c, <1>d DEF Beginning, Done, Carrying
  <2>2. Overtaken(w)'
    <3>1. IsFiniteSet(Overtaking(w, session[w].snap)')
      <4>1. plan'[w].start + 1 \in Int /\ session'[w].snap \in Int
        BY DEF Shape, TypeOK, Plan, Session
      <4>2. IsFiniteSet(plan'[w].start + 1 .. session'[w].snap)
        BY <4>1, FS_Interval
      <4>3. Overtaking(w, session[w].snap)' \subseteq plan'[w].start + 1 .. session'[w].snap
        BY DEF Overtaking
      <4> QED BY <4>2, <4>3, FS_Subset
    <3>2. Cardinality(Overtaking(w, session[w].snap)') >= 0
      BY <3>1, FS_CardinalityType
    <3> QED BY <1>4, <1>a, <3>2 DEF Beginning, Overtaken
  <2>3. Provenance(w)'
    BY <1>4, <1>a, ProvenanceKept DEF Beginning
  <2> QED BY <2>1, <2>2, <2>3 DEF Ledger
<1>5. CASE Going(w)
  <2>1. Outcome(w)' /\ Carrying(w)'
    BY <1>5, <1>a, <1>c, <1>d DEF Going, Done, Carrying
  <2>2. Overtaken(w)'
    BY <1>5, <1>a, <1>b, OvertakenKept DEF NoFurther, Going
  <2>3. Provenance(w)'
    BY <1>5, <1>a, ProvenanceKept DEF Going
  <2> QED BY <2>1, <2>2, <2>3 DEF Ledger
<1>6. CASE Adopting(w)
  <2>1. Outcome(w)' /\ Carrying(w)'
    BY <1>6, <1>a, <1>c, <1>d DEF Adopting, Done, Carrying
  <2>2. Overtaken(w)'
    <3>1. NoFurther(w)
      BY <1>6 DEF NoFurther, Adopting, AtTip
    <3> QED BY <1>a, <1>b, <3>1, OvertakenKept
  <2>3. Provenance(w)'
    <3>1. tip[plan[w].branch] \in DOMAIN snaps
      BY <1>a DEF Shape, TypeOK, Plan
    <3>2. ASSUME NEW t \in Tables, NEW r, r \in RowsAt(catalog[w].pointers, t)'
          PROVE  Published(r.by)
      BY <1>6, <1>a, <3>1, <3>2 DEF Adopting, TipPointers, RowsAt, Authorship
    <3>3. ASSUME NEW t \in Tables PROVE RowsAt(catalog[w].staged, t)' = {}
      BY <1>6 DEF Adopting, NoPointers, RowsAt
    <3> QED BY <3>2, <3>3, SnapshotsRemain DEF Provenance
  <2> QED BY <2>1, <2>2, <2>3 DEF Ledger
<1>7. CASE Rebasing(w)
  <2>1. Outcome(w)' /\ Carrying(w)'
    BY <1>7, <1>a, <1>c, <1>d DEF Rebasing, Done, Carrying
  <2>2. Overtaken(w)'
    <3>1. /\ session[w].snap \in Nat /\ session[w].branch \in Branches
          /\ tip[session[w].branch] \in 1..Len(snaps) /\ Len(snaps) \in Nat
          /\ DOMAIN snaps = 1..Len(snaps) /\ plan[w].start \in Nat
      BY <1>a, SMTT(30) DEF Shape, TypeOK, Session, Plan
    <3>2. ~AtTip(w) /\ Own(w) = {} /\ session[w].branch = plan[w].branch
      <4>1. pc[w] = "rebase"
        BY <1>7 DEF Rebasing
      <4>2. session[w].snap < tip[session[w].branch]
        BY <1>a, <4>1 DEF Overtaken
      <4>3. ~AtTip(w)
        BY <3>1, <4>2 DEF AtTip
      <4>4. Own(w) = {}
        BY <1>c, <4>1
      <4> QED BY <1>a, <4>3, <4>4 DEF Carrying
    <3>3. Cardinality(Overtaking(w, tip[session[w].branch])) >= loop[w].attempt + 1
      BY <1>7, <1>a, <3>2, BehindTheTip DEF Rebasing
    <3>4. \A n \in DOMAIN snaps : Overtaking(w, n)' = Overtaking(w, n)
      BY <1>7, <1>a, <1>b, OvertakingKept DEF Rebasing
    <3>5. Overtaking(w, session[w].snap)' = Overtaking(w, tip[session[w].branch])
      BY <1>7, <3>1, <3>4 DEF Rebasing, Overtaking
    <3>6. plan[w].start <= tip[session[w].branch]
      BY <1>a, <3>1 DEF Overtaken
    <3>7. /\ plan'[w].start <= session'[w].snap /\ session'[w].snap <= tip'[session'[w].branch]
          /\ Cardinality(Overtaking(w, session[w].snap)') >= loop'[w].attempt
      BY <1>7, <3>1, <3>3, <3>5, <3>6 DEF Rebasing
    <3>8. loop'[w].err = "ConflictError" => Cardinality(Overtaking(w, Len(snaps))') > MaxRetries
      BY <1>7, <1>a DEF Rebasing, Overtaken, Overtaking
    <3> QED BY <1>7, <3>7, <3>8 DEF Rebasing, Overtaken
  <2>3. Provenance(w)'
    BY <1>7, <1>a, ProvenanceKept DEF Rebasing
  <2> QED BY <2>1, <2>2, <2>3 DEF Ledger
<1>8. CASE Failing(w)
  <2>1. Outcome(w)' /\ Carrying(w)'
    BY <1>8, <1>a, <1>c, <1>d DEF Failing, Done, Carrying
  <2>2. Overtaken(w)'
    <3>1. CASE loop'[w].err # "ConflictError"
      BY <1>8, <1>a, <1>b, <3>1, OvertakenKept DEF NoFurther, Failing
    <3>2. CASE loop'[w].err = "ConflictError"
      <4>1. Cardinality(Overtaking(w, Len(snaps))) >= MaxRetries + 1
        BY <1>8, <1>a, <1>c, <3>2, BehindTheTip DEF Failing, Carrying
      <4>2. Cardinality(Overtaking(w, Len(snaps))) > MaxRetries
        <5>1. IsFiniteSet(Overtaking(w, Len(snaps)))
          <6>1. plan[w].start + 1 \in Int /\ Len(snaps) \in Int
            BY <1>a DEF Shape, TypeOK, Plan
          <6>2. IsFiniteSet(plan[w].start + 1 .. Len(snaps))
            BY <6>1, FS_Interval
          <6>3. Overtaking(w, Len(snaps)) \subseteq plan[w].start + 1 .. Len(snaps)
            BY DEF Overtaking
          <6> QED BY <6>2, <6>3, FS_Subset
        <5>2. Cardinality(Overtaking(w, Len(snaps))) \in Nat /\ MaxRetries \in Nat
          BY <5>1, FS_CardinalityType, BoundAssumption
        <5> QED BY <4>1, <5>2
      <4>3. Overtaking(w, Len(snaps))' = Overtaking(w, Len(snaps))
        BY <1>8 DEF Failing, Overtaking
      <4> QED BY <1>8, <1>a, <4>2, <4>3 DEF Failing, Overtaken
    <3> QED BY <3>1, <3>2
  <2>3. Provenance(w)'
    BY <1>8, <1>a, ProvenanceKept DEF Failing
  <2> QED BY <2>1, <2>2, <2>3 DEF Ledger
<1>9. CASE Landing(w)
  <2>1. Landed(w) /\ pc[w] = "apply" /\ UNCHANGED <<catalog, plan>>
    BY <1>9 DEF Landing, Landed
  <2>2. Own(w) = {} /\ session[w].chunks = plan[w].chunks /\ session[w].branch = plan[w].branch
    BY <1>a, <1>c, <2>1 DEF Carrying
  <2>3. Outcome(w)'
    BY <1>9, <1>a, <2>2, OutcomeLanded
  <2>4. Carrying(w)'
    BY <1>9, <1>a, <2>1, <2>2 DEF Landing, Carrying
  <2>5. Overtaken(w)'
    BY <1>9, <1>a, <1>b, <2>1, OvertakenKept DEF NoFurther, Landing
  <2>6. Provenance(w)'
    BY <1>a, <2>1, ProvenanceKept
  <2> QED BY <2>3, <2>4, <2>5, <2>6 DEF Ledger
<1> QED BY <1>1, <1>2, <1>3, <1>4, <1>5, <1>6, <1>7, <1>8, <1>9 DEF StepOf

\* The first state satisfies the invariant.
LEMMA InitLedger == Init => LInv
<1> SUFFICES ASSUME Init PROVE LInv
  OBVIOUS
<1>1. Shape
  BY InitShape
<1>2. snaps = <<FirstSnapshot(FirstBranch)>> /\ tip = [b \in Branches |-> 1]
  BY DEF Init
<1>0. Len(snaps) = 1 /\ DOMAIN snaps = {1} /\ snaps[1] = FirstSnapshot(FirstBranch)
  BY <1>2
<1>3. /\ Len(snaps) = 1 /\ DOMAIN snaps = {1} /\ snaps[1].by = Seeder
      /\ \A c \in Chunks : snaps[1].chunks[c] = Nil
      /\ \A t \in Tables : snaps[1].pointers[t] = IF t \in SeedTables THEN SeedLoc(t) ELSE Nil
  BY <1>0 DEF FirstSnapshot
<1>4. Published(Seeder)
  BY <1>3 DEF Published
<1>5. ASSUME NEW t \in SeedTables, NEW r \in Rows(warehouse[SeedLoc(t)]) PROVE r.by = Seeder
  <2>1. SeedLoc(t) \in {SeedLoc(u) : u \in SeedTables} /\ SeedLoc(t).table = t
    BY DEF SeedLoc
  <2>2. warehouse[SeedLoc(t)] = SeedTable(t)
    BY <2>1 DEF Init
  <2> QED BY <1>5, <2>2 DEF SeedTable, NewTable, Appended, WithSnapshot, Rows
<1>6. ASSUME NEW t \in Tables, NEW r \in RowsAt(snaps[1].pointers, t) PROVE Published(r.by)
  <2>1. r.by = Seeder
    BY <1>3, <1>5, <1>6 DEF RowsAt
  <2> QED BY <1>4, <2>1
<1>7. Authorship
  BY <1>3, <1>6 DEF Authorship
<1>8. Tips
  BY <1>2 DEF Tips
<1>9. ASSUME NEW w \in Writers PROVE Ledger(w)
  <2>1. /\ pc[w] = "idle" /\ loop[w].err = "none" /\ plan[w].chunks = {} /\ plan[w].start = 1
        /\ plan[w].branch = FirstBranch /\ session[w].branch = FirstBranch
        /\ session[w].snap = 1 /\ session[w].chunks = {}
        /\ catalog[w].pointers = NoPointers /\ catalog[w].staged = NoPointers
    BY DEF Init
  <2>2. FirstBranch \in Branches
    BY BranchAssumption DEF FirstBranch
  <2>3. Provenance(w)
    BY <2>1 DEF Provenance, RowsAt, NoPointers
  <2>4. Carrying(w)
    BY <2>1 DEF Carrying
  <2>5. Own(w) = {}
    BY <1>3, WriterAssumption DEF Own
  <2>6. Outcome(w)
    BY <2>1, <2>5 DEF Outcome, Done
  <2>7. tip[session[w].branch] = 1
    BY <1>2, <2>1, <2>2
  <2>8. Overtaken(w)
    BY <2>1, <2>7 DEF Overtaken
  <2> QED BY <2>3, <2>4, <2>6, <2>8 DEF Ledger
<1> QED BY <1>1, <1>7, <1>8, <1>9 DEF LInv

\* Every step keeps it.
LEMMA NextLedger == LInv /\ [Next]_vars => LInv'
<1> SUFFICES ASSUME LInv, [Next]_vars PROVE LInv'
  OBVIOUS
<1>1. Shape /\ Shape' /\ Grows
  BY NextShape, StepGrows DEF LInv
<1>2. CASE UNCHANGED vars
  <2>1. Authorship' /\ Tips'
    BY <1>1, <1>2, AuthorshipKept, TipsMove DEF LInv, vars
  <2>2. ASSUME NEW v \in Writers PROVE Ledger(v)'
    <3>1. UNCHANGED <<snaps, tip, pc, session, catalog, plan, loop>>
      BY <1>2 DEF vars
    <3>2. Len(snaps) <= Len(snaps') /\ \A b \in Branches : tip[b] <= tip'[b]
      BY <1>1, <3>1, TipsMove DEF LInv
    <3> QED BY <1>1, <3>1, <3>2, LedgerStays DEF LInv
  <2> QED BY <1>1, <2>1, <2>2 DEF LInv
<1>3. ASSUME NEW w \in Writers, StepOf(w) PROVE LInv'
  <2>1. Authorship' /\ Tips'
    BY <1>1, <1>3, RepoStep
  <2>2. ASSUME NEW v \in Writers, v # w PROVE Ledger(v)'
    <3>1. /\ catalog'[v] = catalog[v] /\ plan'[v] = plan[v] /\ loop'[v] = loop[v]
          /\ pc'[v] = pc[v] /\ session'[v] = session[v]
      BY <1>3, <2>2 DEF StepOf, OwnStep
    <3>2. /\ Len(snaps) <= Len(snaps') /\ \A b \in Branches : tip[b] <= tip'[b]
          /\ Landed(w) \/ UNCHANGED <<snaps, tip>>
      BY <1>1, <1>3, RepoStep
    <3> QED BY <1>1, <2>2, <3>1, <3>2, LedgerStays DEF LInv
  <2>3. Ledger(w)'
    BY <1>1, <1>3, LedgerOfActing
  <2> QED BY <1>1, <2>1, <2>2, <2>3 DEF LInv
<1> QED BY <1>1, <1>2, <1>3, StepForms

\* All or nothing, for any number of writers, branches, retries, storage errors
\* and calls of commit(): a transaction that committed, or whose answer was lost,
\* is in the repository as one snapshot with all its chunks, on its branch; of any
\* other, no reader ever meets a row, a chunk or a snapshot.
THEOREM TransactionsAreWhole == Spec => []AllOrNothing
<1>1. LInv => AllOrNothing
  <2> SUFFICES ASSUME LInv, NEW w \in Writers
               PROVE  LET own == {i \in DOMAIN snaps : snaps[i].by = w} IN
                      IF pc[w] = "committed" \/ loop[w].err = "answer lost"
                      THEN \E i \in own :
                              /\ own = {i}
                              /\ snaps[i].branch = plan[w].branch
                              /\ snaps[i].wrote = plan[w].chunks
                              /\ \A c \in plan[w].chunks : snaps[i].chunks[c] = w
                      ELSE /\ own = {}
                           /\ \A i \in DOMAIN snaps :
                                /\ \A c \in Chunks : snaps[i].chunks[c] # w
                                /\ \A t \in Tables : \A r \in RowsAt(snaps[i].pointers, t) : r.by # w
    BY DEF AllOrNothing
  <2>1. Outcome(w) /\ Authorship /\ w # Nil
    BY NilAssumption DEF LInv, Ledger, Authors
  <2>2. CASE Done(w)
    BY <2>1, <2>2 DEF Outcome, Own, Done
  <2>3. CASE ~Done(w)
    <3>1. Own(w) = {} /\ ~Published(w)
      BY <2>1, <2>3 DEF Outcome, Own, Published
    <3>2. ASSUME NEW i \in DOMAIN snaps
          PROVE  /\ \A c \in Chunks : snaps[i].chunks[c] # w
                 /\ \A t \in Tables : \A r \in RowsAt(snaps[i].pointers, t) : r.by # w
      BY <2>1, <3>1 DEF Authorship
    <3> QED BY <2>3, <3>1, <3>2 DEF Own, Done
  <2> QED BY <2>2, <2>3
<1> QED BY <1>1, InitLedger, NextLedger, PTL DEF Spec

\* commit() raises ConflictError only after more than max_retries commits of other
\* writers landed on its branch since the transaction started: each attempt lost to
\* a commit the attempt before had not seen.
THEOREM GivingUpIsEarned == Spec => []ExhaustionIsEarned
<1>1. LInv => ExhaustionIsEarned
  BY DEF LInv, Ledger, Overtaken, Overtaking, ExhaustionIsEarned
<1> QED BY <1>1, InitLedger, NextLedger, PTL DEF Spec

(***************************************************************************)
(* No update is lost, as long as no commit lands between the two reads of  *)
(* the branch tip in _recover.                                             *)
(***************************************************************************)

\* No tip moves under a transaction that has read its pointers and is about to
\* rebase its session onto it.
Still    == \A w \in Writers : pc[w] = "rebase" => tip'[plan[w].branch] = tip[plan[w].branch]
TipStill == [][Still]_vars

\* A history continues itself, and goes on when a snapshot is recorded.
LEMMA ContinuesOn ==
    ASSUME NEW old \in Seq(Recorded), NEW new \in Seq(Recorded), NEW e \in Recorded
    PROVE  /\ Continues(old, old)
           /\ Continues(old, new) => Continues(old, Append(new, e))
<1>1. Continues(old, old)
  BY DEF Continues
<1>2. ASSUME Continues(old, new) PROVE Continues(old, Append(new, e))
  <2>1. /\ Len(old) \in Nat /\ Len(new) \in Nat /\ Len(old) <= Len(new)
        /\ Append(new, e) \in Seq(Recorded) /\ Len(Append(new, e)) = Len(new) + 1
    BY <1>2 DEF Continues
  <2>2. \A i \in 1..Len(old) : Append(new, e)[i] = new[i]
    BY <2>1
  <2>3. SubSeq(Append(new, e), 1, Len(old)) = SubSeq(new, 1, Len(old))
    BY <2>1, <2>2
  <2> QED BY <1>2, <2>1, <2>3 DEF Continues
<1> QED BY <1>1, <1>2

\* Descent stays as files are added.
LEMMA DescendStays ==
    ASSUME NEW old, NEW new, NEW p, NEW q, Descend(old, p, q),
           \A l \in DOMAIN old : new[l] = old[l],
           \A t \in Tables : p[t] \in DOMAIN old \cup {Nil} /\ q[t] \in DOMAIN old \cup {Nil}
    PROVE  Descend(new, p, q)
BY DEF Descend

\* A pointer map with nothing staged descends from itself.
LEMMA DescendSelf ==
    ASSUME Shape, NEW c, NEW p, c.pointers = p, c.staged = NoPointers,
           \A t \in Tables : p[t] \in Written
    PROVE  Descend(warehouse, p, CurrentPointers(c))
<1>1. \A t \in Tables : CurrentPointers(c)[t] = p[t]
  BY DEF CurrentPointers, NoPointers
<1>2. ASSUME NEW t \in Tables, p[t] # Nil PROVE Continues(warehouse[p[t]].snaps, warehouse[p[t]].snaps)
  <2>1. warehouse[p[t]].snaps \in Seq(Recorded)
    BY <1>2 DEF Shape, TypeOK, Written, Metadata
  <2> QED BY <2>1 DEF Continues
<1> QED BY <1>1, <1>2 DEF Descend

\* Staging on the current version keeps descent.
LEMMA StageDescends ==
    ASSUME Shape, NEW w \in Writers, NEW op \in Op, ~Missing(catalog[w], op),
           WritesMetadata(catalog[w], op), Stage(w, op),
           Descend(warehouse, catalog[w].pointers, CurrentPointers(catalog[w]))
    PROVE  Descend(warehouse', catalog'[w].pointers, CurrentPointers(catalog'[w]))
<1>1. PICK new : new = NextLoc(w, op.table)
  OBVIOUS
<1>2. PICK loc : loc = CurrentPointers(catalog[w])[op.table]
  OBVIOUS
<1>3. /\ new \in Loc /\ catalog'[w].pointers = catalog[w].pointers
      /\ \A l \in DOMAIN warehouse : warehouse'[l] = warehouse[l]
      /\ \A t \in Tables : catalog'[w].staged[t] = IF t = op.table THEN new ELSE catalog[w].staged[t]
  BY <1>1, StageWrites
<1>4. new # Nil /\ op.table \in Tables
  BY <1>3, NilAssumption DEF Op
<1>5. \A t \in Tables : CurrentPointers(catalog'[w])[t] =
          IF t = op.table THEN new ELSE CurrentPointers(catalog[w])[t]
  BY <1>3, <1>4 DEF CurrentPointers
<1>6. \A t \in Tables : catalog[w].pointers[t] \in Written /\ CurrentPointers(catalog[w])[t] \in Written
  BY CurrentPointersRefs DEF Shape, Refs
<1>7. ASSUME catalog[w].pointers[op.table] # Nil
      PROVE  Continues(warehouse[catalog[w].pointers[op.table]].snaps, warehouse'[new].snaps)
  <2> DEFINE old == warehouse[catalog[w].pointers[op.table]].snaps
  <2>1. /\ loc # Nil /\ Continues(old, warehouse[loc].snaps)
    BY <1>2, <1>4, <1>7 DEF Descend
  <2>2. loc \in DOMAIN warehouse /\ catalog[w].pointers[op.table] \in DOMAIN warehouse
    BY <1>2, <1>4, <1>6, <1>7, <2>1 DEF Written
  <2>3. warehouse[loc] \in Metadata /\ warehouse[catalog[w].pointers[op.table]] \in Metadata
    BY <2>2 DEF Shape, TypeOK
  <2>4. op.kind # "create"
    BY <1>2, <2>1 DEF WritesMetadata
  <2>5. warehouse'[new] = Result(w, op, warehouse[loc], new)
    BY <1>1, <1>2, <2>1 DEF Stage
  <2>6. PICK dropped, added : /\ added \in SUBSET File
            /\ Result(w, op, warehouse[loc], new) = WithSnapshot(warehouse[loc], new, dropped, added)
    BY <1>3, <2>3, <2>4, ResultForm
  <2>7. warehouse'[new].snaps = Append(warehouse[loc].snaps, [id |-> new, added |-> added])
    BY <2>5, <2>6 DEF WithSnapshot
  <2>8. /\ old \in Seq(Recorded) /\ warehouse[loc].snaps \in Seq(Recorded)
        /\ [id |-> new, added |-> added] \in Recorded
    BY <1>3, <2>3, <2>6 DEF Metadata, Recorded
  <2> HIDE DEF old
  <2>9. Continues(old, warehouse'[new].snaps)
    BY <2>1, <2>7, <2>8, ContinuesOn
  <2> QED BY <2>9 DEF old
<1>8. ASSUME NEW t \in Tables, catalog[w].pointers[t] # Nil
      PROVE  /\ CurrentPointers(catalog'[w])[t] # Nil
             /\ Continues(warehouse'[catalog[w].pointers[t]].snaps,
                          warehouse'[CurrentPointers(catalog'[w])[t]].snaps)
  <2>1. warehouse'[catalog[w].pointers[t]] = warehouse[catalog[w].pointers[t]]
    BY <1>3, <1>6, <1>8 DEF Written
  <2>2. CASE t = op.table
    BY <1>4, <1>5, <1>7, <1>8, <2>1, <2>2
  <2>3. CASE t # op.table
    <3>1. /\ CurrentPointers(catalog[w])[t] # Nil
          /\ Continues(warehouse[catalog[w].pointers[t]].snaps,
                       warehouse[CurrentPointers(catalog[w])[t]].snaps)
      BY <1>8 DEF Descend
    <3>2. warehouse'[CurrentPointers(catalog[w])[t]] = warehouse[CurrentPointers(catalog[w])[t]]
      BY <1>3, <1>6, <3>1 DEF Written
    <3> QED BY <1>5, <2>1, <2>3, <3>1, <3>2
  <2> QED BY <2>2, <2>3
<1> QED BY <1>3, <1>8 DEF Descend

\* The snapshots of the repository descend from their parents: one that lands
\* was staged on the pointers of the snapshot it lands on.
LEMMA DescentsKept ==
    ASSUME DInv, Shape', Grows, NEW w \in Writers, StepOf(w)
    PROVE  Descents'
<1>1. Shape /\ Descents /\ Lineage(w)
  BY DEF DInv, LInv
<1>2. \A i \in DOMAIN snaps : \A t \in Tables : snaps[i].pointers[t] \in DOMAIN warehouse \cup {Nil}
  BY <1>1 DEF Shape, Refs, Written
<1>3. /\ \A l \in DOMAIN warehouse : warehouse'[l] = warehouse[l]
      /\ \A i \in DOMAIN snaps : i \in DOMAIN snaps' /\ snaps'[i] = snaps[i]
  BY DEF Grows
<1>4. ASSUME NEW i \in DOMAIN snaps, i # 1
      PROVE  /\ snaps'[i].parent \in DOMAIN snaps'
             /\ Descend(warehouse', snaps'[snaps'[i].parent].pointers, snaps'[i].pointers)
  <2>1. snaps[i].parent \in DOMAIN snaps
        /\ Descend(warehouse, snaps[snaps[i].parent].pointers, snaps[i].pointers)
    BY <1>1, <1>4 DEF Descents
  <2>2. Descend(warehouse', snaps[snaps[i].parent].pointers, snaps[i].pointers)
    BY <1>2, <1>3, <2>1, DescendStays
  <2>3. snaps'[i] = snaps[i] /\ snaps'[snaps[i].parent] = snaps[snaps[i].parent]
    BY <1>3, <2>1
  <2> QED BY <1>3, <2>1, <2>2, <2>3
<1>5. CASE UNCHANGED snaps
  BY <1>4, <1>5 DEF Descents
<1>6. CASE ~UNCHANGED snaps
  <2>1. Landing(w)
    BY <1>6 DEF StepOf, Opening, Preparing, Staging, Beginning, Going, Adopting, Rebasing, Failing,
                SameRepo
  <2>2. /\ snaps \in Seq(Snapshot) /\ NewSnapshot(w) \in Snapshot
        /\ snaps' = Append(snaps, NewSnapshot(w)) /\ UNCHANGED <<warehouse, catalog>>
    BY <1>1, <2>1, NewSnapshotType DEF Landing, Landed, Shape, TypeOK
  <2>3. PICK n : n = Len(snaps) + 1
    OBVIOUS
  <2>4. DOMAIN snaps' = DOMAIN snaps \cup {n} /\ snaps'[n] = NewSnapshot(w)
    BY <2>2, <2>3
  <2>5. NewSnapshot(w).parent = session[w].snap /\ NewSnapshot(w).pointers = CurrentPointers(catalog[w])
    BY DEF NewSnapshot, CommitMetadata
  <2>6. session[w].snap \in DOMAIN snaps
    BY <1>1 DEF Shape, Refs
  <2>7. catalog[w].pointers = snaps[session[w].snap].pointers
    BY <1>1, <2>1 DEF Lineage, Current, Landing
  <2>8. Descend(warehouse, snaps[session[w].snap].pointers, NewSnapshot(w).pointers)
    BY <1>1, <2>5, <2>7 DEF Lineage
  <2>9. snaps'[session[w].snap] = snaps[session[w].snap]
    BY <1>3, <2>6
  <2>10. /\ snaps'[n].parent \in DOMAIN snaps'
         /\ Descend(warehouse', snaps'[snaps'[n].parent].pointers, snaps'[n].pointers)
    BY <1>3, <2>2, <2>4, <2>5, <2>6, <2>8, <2>9
  <2> QED BY <1>4, <2>4, <2>10 DEF Descents
<1> QED BY <1>5, <1>6

\* A transaction that does not act keeps its lineage: another commit on its branch
\* leaves its session behind the tip.
LEMMA LineageStays ==
    ASSUME DInv, Shape', Grows, Still, NEW v \in Writers,
           catalog'[v] = catalog[v], plan'[v] = plan[v], loop'[v] = loop[v],
           pc'[v] = pc[v], session'[v] = session[v],
           UNCHANGED <<snaps, tip>> \/ \E w \in Writers : Landed(w)
    PROVE  Lineage(v)'
<1>1. Shape /\ Lineage(v)
  BY DEF DInv, LInv
<1>2. /\ session[v].snap \in DOMAIN snaps /\ session[v].branch \in Branches
      /\ plan[v].branch \in Branches
  BY <1>1 DEF Shape, TypeOK, Refs, Session, Plan
<1>3. tip \in [Branches -> 1..Len(snaps)] /\ snaps \in Seq(Snapshot)
  BY <1>1 DEF Shape, TypeOK
<1>4. /\ \A l \in DOMAIN warehouse : warehouse'[l] = warehouse[l]
      /\ \A i \in DOMAIN snaps : snaps'[i] = snaps[i]
  BY DEF Grows
<1>5. AtTip(v)' => AtTip(v)
  <2>1. CASE UNCHANGED <<snaps, tip>>
    BY <2>1 DEF AtTip
  <2>2. ASSUME NEW w \in Writers, Landed(w) PROVE AtTip(v)' => AtTip(v)
    <3>1. tip' = [tip EXCEPT ![session[w].branch] = Len(snaps) + 1]
      BY <2>2 DEF Landed
    <3>2. CASE session[v].branch = session[w].branch
      <4>1. tip'[session[v].branch] = Len(snaps) + 1
        BY <1>2, <1>3, <3>1, <3>2
      <4>2. session[v].snap # Len(snaps) + 1
        BY <1>2, <1>3
      <4> QED BY <4>1, <4>2 DEF AtTip
    <3>3. CASE session[v].branch # session[w].branch
      BY <1>2, <1>3, <3>1, <3>3 DEF AtTip
    <3> QED BY <3>2, <3>3
  <2> QED BY <2>1, <2>2
<1>6. pc[v] = "rebase" => TipPointers(v)' = TipPointers(v)
  BY <1>2, <1>3, <1>4 DEF Still, TipPointers
<1>7. Current(v)'
  BY <1>1, <1>2, <1>4, <1>5, <1>6 DEF Lineage, Current
<1>8. Descend(warehouse', catalog[v].pointers, CurrentPointers(catalog[v]))
  <2>1. \A t \in Tables : /\ catalog[v].pointers[t] \in DOMAIN warehouse \cup {Nil}
                          /\ CurrentPointers(catalog[v])[t] \in DOMAIN warehouse \cup {Nil}
    BY <1>1, CurrentPointersRefs DEF Shape, Refs, Written
  <2> QED BY <1>1, <1>4, <2>1, DescendStays DEF Lineage
<1> QED BY <1>7, <1>8 DEF Lineage

\* The acting transaction keeps it too.
LEMMA LineageOfActing ==
    ASSUME DInv, Shape', Grows, Still, NEW w \in Writers, StepOf(w)
    PROVE  Lineage(w)'
<1>a. Shape /\ Current(w) /\ Overtaken(w) /\ Carrying(w) /\ Untouched(w)
      /\ Descend(warehouse, catalog[w].pointers, CurrentPointers(catalog[w]))
  BY DEF DInv, LInv, Ledger, Lineage, IInv, WriterInv
<1>b. /\ session[w].snap \in DOMAIN snaps /\ session[w].branch \in Branches
      /\ tip[session[w].branch] \in 1..Len(snaps) /\ Len(snaps) \in Nat
      /\ DOMAIN snaps = 1..Len(snaps)
  BY <1>a DEF Shape, TypeOK, Refs, Session
<1>c. ASSUME SamePointers(w), UNCHANGED warehouse
      PROVE  Descend(warehouse', catalog'[w].pointers, CurrentPointers(catalog'[w]))
  <2>1. CurrentPointers(catalog'[w]) = CurrentPointers(catalog[w])
    BY <1>c DEF SamePointers, CurrentPointers
  <2> QED BY <1>a, <1>c, <2>1 DEF SamePointers
<1>d. ASSUME UNCHANGED warehouse, catalog'[w].staged = NoPointers
      PROVE  Descend(warehouse', catalog'[w].pointers, CurrentPointers(catalog'[w]))
  <2>1. \A t \in Tables : catalog'[w].pointers[t] \in Written
    BY <1>d DEF Shape, Refs, Written
  <2> QED BY <1>a, <1>d, <2>1, DescendSelf
<1> USE DEF SamePlan, SamePointers, SameBase, SameLoop, SameRepo
<1>1. CASE Opening(w)
  <2>1. Current(w)'
    BY <1>1 DEF Opening, Current
  <2>2. catalog'[w].staged = NoPointers /\ UNCHANGED warehouse
    BY <1>1, <1>a DEF Opening, Untouched
  <2> QED BY <1>d, <2>1, <2>2 DEF Lineage
<1>2. CASE Preparing(w)
  <2>1. Current(w)'
    BY <1>2, <1>a DEF Preparing, Current, AtTip
  <2> QED BY <1>2, <1>c, <2>1 DEF Preparing, Lineage
<1>3. CASE Staging(w)
  <2>1. PICK op \in Op : /\ ~Missing(catalog[w], op) /\ WritesMetadata(catalog[w], op)
                         /\ Stage(w, op)
    BY <1>3 DEF Staging
  <2>2. catalog'[w].pointers = catalog[w].pointers
    BY <1>a, <2>1, StageWrites
  <2>3. Current(w)'
    BY <1>3, <1>a, <2>2 DEF Staging, Current, AtTip
  <2>4. Descend(warehouse', catalog'[w].pointers, CurrentPointers(catalog'[w]))
    BY <1>a, <2>1, StageDescends
  <2> QED BY <2>3, <2>4 DEF Lineage
<1>4. CASE Beginning(w)
  <2>1. Current(w)'
    BY <1>4, <1>a DEF Beginning, Current, AtTip
  <2> QED BY <1>4, <1>c, <2>1 DEF Beginning, Lineage
<1>5. CASE Going(w)
  <2>1. Current(w)'
    BY <1>5, <1>a DEF Going, Current, AtTip
  <2> QED BY <1>5, <1>c, <2>1 DEF Going, Lineage
<1>6. CASE Adopting(w)
  <2>1. Current(w)'
    BY <1>6 DEF Adopting, Current, TipPointers
  <2> QED BY <1>6, <1>d, <2>1 DEF Adopting, Lineage
<1>7. CASE Rebasing(w)
  <2>1. catalog[w].pointers = TipPointers(w) /\ session[w].branch = plan[w].branch
    BY <1>7, <1>a DEF Rebasing, Current, Carrying
  <2>2. Current(w)'
    BY <1>7, <2>1 DEF Rebasing, Current, TipPointers
  <2> QED BY <1>7, <1>c, <2>2 DEF Rebasing, Lineage
<1>8. CASE Failing(w)
  <2>1. pc[w] \in {"recover", "rebase"} => ~AtTip(w)
    BY <1>a, <1>b DEF Overtaken, AtTip
  <2>2. AtTip(w)' = AtTip(w) /\ pc'[w] = "failed" /\ catalog'[w].pointers = catalog[w].pointers
        /\ snaps' = snaps /\ session'[w].snap = session[w].snap
    BY <1>8 DEF Failing, AtTip
  <2>3. loop'[w].err # "session branch" => pc[w] \in {"open", "apply", "recover", "rebase"}
    BY <1>8, <1>a DEF Failing, Shape, TypeOK, Phases
  <2>4. Current(w)'
    BY <1>a, <2>1, <2>2, <2>3 DEF Current
  <2> QED BY <1>8, <1>c, <2>4 DEF Failing, Lineage
<1>9. CASE Landing(w)
  <2>1. /\ tip' = [tip EXCEPT ![session[w].branch] = Len(snaps) + 1]
        /\ UNCHANGED <<warehouse, catalog>> /\ pc'[w] \in {"committed", "failed"}
        /\ session'[w].branch = session[w].branch /\ session'[w].snap = session[w].snap
    BY <1>9 DEF Landing, Landed
  <2>2. tip'[session[w].branch] = Len(snaps) + 1
    BY <1>a, <1>b, <2>1 DEF Shape, TypeOK
  <2>3. ~AtTip(w)'
    BY <1>b, <2>1, <2>2 DEF AtTip
  <2>4. Current(w)'
    BY <2>1, <2>3 DEF Current
  <2> QED BY <1>c, <2>1, <2>4 DEF Lineage
<1> QED BY <1>1, <1>2, <1>3, <1>4, <1>5, <1>6, <1>7, <1>8, <1>9 DEF StepOf

\* The first state satisfies the invariant.
LEMMA InitLineage == Init => DInv
<1> SUFFICES ASSUME Init PROVE DInv
  OBVIOUS
<1>1. IInv /\ LInv /\ Shape
  BY InitInv, InitLedger DEF LInv
<1>2. DOMAIN snaps = {1}
  BY DEF Init
<1>3. Descents
  BY <1>2 DEF Descents
<1>4. ASSUME NEW w \in Writers PROVE Lineage(w)
  <2>1. /\ pc[w] = "idle" /\ catalog[w].pointers = NoPointers /\ catalog[w].staged = NoPointers
    BY DEF Init
  <2>2. \A t \in Tables : NoPointers[t] \in Written
    BY DEF NoPointers, Written
  <2>3. Descend(warehouse, NoPointers, CurrentPointers(catalog[w]))
    BY <1>1, <2>1, <2>2, DescendSelf
  <2> QED BY <2>1, <2>3 DEF Lineage, Current
<1> QED BY <1>1, <1>3, <1>4 DEF DInv

\* Every step that leaves the tips still keeps it.
LEMMA NextLineage == DInv /\ [Next]_vars /\ [Still]_vars => DInv'
<1> SUFFICES ASSUME DInv, [Next]_vars, [Still]_vars PROVE DInv'
  OBVIOUS
<1>1. IInv' /\ LInv' /\ Shape /\ Shape' /\ Grows
  BY NextInv, NextLedger, NextShape, StepGrows DEF DInv, LInv
<1>2. CASE UNCHANGED vars
  <2>1. UNCHANGED <<snaps, tip, warehouse, pc, session, catalog, plan, loop>>
    BY <1>2 DEF vars
  <2>2. Still
    BY <2>1 DEF Still
  <2>3. Descents'
    BY <2>1 DEF DInv, Descents, Descend
  <2>4. \A v \in Writers : Lineage(v)'
    BY <1>1, <2>1, <2>2, LineageStays
  <2> QED BY <1>1, <2>3, <2>4 DEF DInv
<1>3. ASSUME NEW w \in Writers, StepOf(w), Still PROVE DInv'
  <2>1. Descents' /\ Lineage(w)'
    BY <1>1, <1>3, DescentsKept, LineageOfActing
  <2>2. ASSUME NEW v \in Writers, v # w PROVE Lineage(v)'
    <3>1. /\ catalog'[v] = catalog[v] /\ plan'[v] = plan[v] /\ loop'[v] = loop[v]
          /\ pc'[v] = pc[v] /\ session'[v] = session[v]
      BY <1>3, <2>2 DEF StepOf, OwnStep
    <3>2. Landed(w) \/ UNCHANGED <<snaps, tip>>
      BY <1>1, <1>3, RepoStep DEF DInv
    <3> QED BY <1>1, <1>3, <3>1, <3>2, LineageStays
  <2> QED BY <1>1, <2>1, <2>2 DEF DInv
<1> QED BY <1>1, <1>2, <1>3, StepForms

\* Descent from the parent is PublishedDescends.
LEMMA DescentsArePublished == DInv => PublishedDescends
<1> SUFFICES ASSUME DInv, NEW i \in 2..Len(snaps), NEW t \in Tables,
                    snaps[snaps[i].parent].pointers[t] # Nil
             PROVE  /\ snaps[i].pointers[t] # Nil
                    /\ Continues(warehouse[snaps[snaps[i].parent].pointers[t]].snaps,
                                 warehouse[snaps[i].pointers[t]].snaps)
  BY DEF PublishedDescends, Continues
<1>1. snaps \in Seq(Snapshot)
  BY DEF DInv, LInv, Shape, TypeOK
<1>2. i \in DOMAIN snaps /\ i # 1
  BY <1>1
<1> QED BY <1>2 DEF DInv, Descents, Descend

\* No update is lost unless a commit lands between the two reads of the branch tip
\* in _recover: as long as none does, every commit's table versions descend from
\* those of its parent, whatever conflicts, replays, storage errors, lost answers
\* and repeated calls of commit() went before.
THEOREM NoUpdateIsLost == Spec /\ TipStill => []PublishedDescends
BY InitLineage, NextLineage, DescentsArePublished, PTL DEF Spec, TipStill

\* Two writers at most.
AtMostTwo == \A u, v, w \in Writers : u = v \/ v = w \/ u = w

\* The one commit that can put a transaction behind is the other writer's only one.
LEMMA TwoKeepStill ==
    ASSUME AtMostTwo, LInv, [Next]_vars
    PROVE  [Still]_vars
<1> SUFFICES ASSUME NEW w \in Writers, pc[w] = "rebase",
                    tip'[plan[w].branch] # tip[plan[w].branch]
             PROVE  FALSE
  BY DEF Still
<1>1. Shape /\ Tips /\ Authorship /\ Overtaken(w) /\ Carrying(w)
      /\ (\A v \in Writers : Outcome(v) /\ Carrying(v))
  BY DEF LInv, Ledger
<1>2. tip' # tip
  OBVIOUS
<1>3. PICK v \in Writers : StepOf(v)
  BY <1>1, <1>2, StepForms DEF vars
<1>4. Landing(v)
  BY <1>2, <1>3 DEF StepOf, Opening, Preparing, Staging, Beginning, Going, Adopting, Rebasing,
                    Failing, SameRepo
<1>5. v # w /\ pc[v] = "apply"
  BY <1>4 DEF Landing
<1> DEFINE n == tip[plan[w].branch]
<1>6. /\ session[w].snap \in 1..Len(snaps) /\ n \in 1..Len(snaps) /\ Len(snaps) \in Nat
      /\ DOMAIN snaps = 1..Len(snaps) /\ plan[w].branch \in Branches
  BY <1>1 DEF Shape, TypeOK, Refs, Plan
<1>7. n # 1 /\ snaps[n].by \in Writers
  <2>1. session[w].branch = plan[w].branch
    BY <1>1 DEF Carrying
  <2>2. session[w].snap < n
    BY <1>1, <2>1 DEF Overtaken
  <2>3. n # 1
    BY <1>6, <2>2
  <2> QED BY <1>1, <1>6, <2>3 DEF Authorship
<1>8. ~Done(w) /\ ~Done(v)
  BY <1>1, <1>5 DEF Done, Carrying
<1>9. snaps[n].by # w /\ snaps[n].by # v
  BY <1>1, <1>6, <1>8 DEF Outcome, Own
<1> QED BY <1>5, <1>7, <1>9 DEF AtMostTwo

\* With two writers no such commit can land, since a transaction commits once: no
\* update is ever lost between them.
THEOREM TwoWritersLoseNothing ==
    ASSUME AtMostTwo
    PROVE  Spec => []PublishedDescends
<1>1. LInv /\ [Next]_vars => [Still]_vars
  BY TwoKeepStill
<1> QED BY <1>1, InitLedger, NextLedger, InitLineage, NextLineage, DescentsArePublished, PTL DEF Spec

(***************************************************************************)
(* Both halves or neither: the tables the root group of a snapshot         *)
(* declares are the tables its commit metadata resolves - as long as no    *)
(* commit lands between the two reads of the branch tip in _recover, and   *)
(* no table is created on tx.catalog, past the transaction.                *)
(***************************************************************************)

\* The tables a transaction's intents create.
Created(w) ==
    {plan[w].intents[i].table :
        i \in {i \in DOMAIN plan[w].intents : plan[w].intents[i].kind = "create"}}

\* The transaction may still publish.
Live(w) ==
    \/ pc[w] \in {"open", "apply", "recover", "rebase"}
    \/ pc[w] = "failed" /\ w \notin Managed /\ loop[w].err \notin {"session branch", "answer lost"}

\* A snapshot declares what it resolves.
Resolved(s) == \A t \in Tables : s.pointers[t] # Nil <=> t \in s.attrs

\* Attributes grow along a branch, and only when the root group is written.
Chain(w) ==
    LET base == snaps[session[w].snap].attrs
        now  == snaps[tip[session[w].branch]].attrs
    IN  /\ base \subseteq now
        /\ (\A i \in Intervening(w) : ~snaps[i].wroteRoot) => now = base

\* The session's attributes are those the transaction started from and the tables
\* it creates.  If it wrote the root group nobody else did since; if it did not,
\* whatever it creates was declared.
Names(w) ==
    LET start == snaps[plan[w].start].attrs
        base  == snaps[session[w].snap].attrs
    IN  /\ session[w].attrs = start \cup Created(w)
        /\ start \subseteq base
        /\ session[w].root => base = start
        /\ ~session[w].root => Created(w) \subseteq start
        /\ pc[w] = "open" => session[w].snap = plan[w].start

\* A staged table is one of the base or created here, and the creations applied
\* so far are staged or in the base.
Stagings(w) ==
    /\ \A t \in Tables :
          catalog[w].staged[t] # Nil => catalog[w].pointers[t] # Nil \/ t \in Created(w)
    /\ pc[w] = "apply" =>
          \A i \in DOMAIN plan[w].intents :
              i < loop[w].next /\ plan[w].intents[i].kind = "create" =>
                  CurrentPointers(catalog[w])[plan[w].intents[i].table] # Nil

Naming(w) == Chain(w) /\ (Live(w) => Names(w) /\ Stagings(w))
NInv == DInv /\ (\A i \in DOMAIN snaps : Resolved(snaps[i])) /\ \A w \in Writers : Naming(w)

\* Creating tables on tx.catalog declares nothing; the theorems leave it out.
NoDirectCreate == \A op \in DirectOps : op.kind # "create"

(***************************************************************************)
(* The snapshot a commit makes.                                            *)
(***************************************************************************)

\* What landing means for the attributes of a branch.
Extends(w) ==
    LET p == snaps[session[w].snap] IN
    /\ p.attrs \subseteq NewSnapshot(w).attrs
    /\ ~NewSnapshot(w).wroteRoot => NewSnapshot(w).attrs = p.attrs

\* A snapshot made at the tip, once every intent was applied, declares what it
\* resolves.
LEMMA NewSnapshotResolves ==
    ASSUME NInv, NEW w \in Writers, AllApplied(w), AtTip(w)
    PROVE  Resolved(NewSnapshot(w)) /\ Extends(w)
<1>1. Shape /\ Names(w) /\ Stagings(w) /\ Current(w) /\ pc[w] = "apply"
  BY DEF NInv, DInv, LInv, Lineage, Naming, Live, AllApplied
<1>2. session[w].snap \in DOMAIN snaps /\ Resolved(snaps[session[w].snap])
  BY <1>1 DEF NInv, Shape, Refs
<1>3. catalog[w].pointers = snaps[session[w].snap].pointers
  BY <1>1 DEF Current
<1> DEFINE start == snaps[plan[w].start].attrs
           base  == snaps[session[w].snap].attrs
           made  == NewSnapshot(w)
<1>4. /\ made.attrs = (IF session[w].root THEN session[w].attrs ELSE base)
      /\ made.wroteRoot = session[w].root /\ made.pointers = CurrentPointers(catalog[w])
  BY DEF NewSnapshot, CommitMetadata
<1>5. /\ session[w].attrs = start \cup Created(w) /\ start \subseteq base
      /\ session[w].root => base = start
      /\ ~session[w].root => Created(w) \subseteq start
  BY <1>1 DEF Names
<1>6. session[w].root \in BOOLEAN
  BY <1>1 DEF Shape, TypeOK, Session
<1>7. \A t \in Tables : CurrentPointers(catalog[w])[t] # Nil <=>
          catalog[w].staged[t] # Nil \/ catalog[w].pointers[t] # Nil
  BY DEF CurrentPointers
<1>8. \A t \in Created(w) : CurrentPointers(catalog[w])[t] # Nil
  <2> SUFFICES ASSUME NEW i \in DOMAIN plan[w].intents, plan[w].intents[i].kind = "create"
               PROVE  CurrentPointers(catalog[w])[plan[w].intents[i].table] # Nil
    BY DEF Created
  <2>1. plan[w].intents \in Seq(Op) /\ loop[w].next \in Nat /\ loop[w].next > Len(plan[w].intents)
    BY <1>1 DEF Shape, TypeOK, Plan, Loop, AllApplied
  <2>2. i < loop[w].next
    BY <2>1
  <2> QED BY <1>1, <2>2 DEF Stagings
<1>9. \A t \in Tables : catalog[w].staged[t] # Nil => catalog[w].pointers[t] # Nil \/ t \in Created(w)
  BY <1>1 DEF Stagings
<1>10. \A t \in Tables : catalog[w].pointers[t] # Nil <=> t \in base
  BY <1>2, <1>3 DEF Resolved
<1> HIDE DEF start, base, made
<1>11. ASSUME NEW t \in Tables PROVE made.pointers[t] # Nil <=> t \in made.attrs
  <2>1. CurrentPointers(catalog[w])[t] # Nil <=> t \in base \cup Created(w)
    BY <1>7, <1>8, <1>9, <1>10
  <2>2. t \in made.attrs <=> t \in base \cup Created(w)
    BY <1>4, <1>5, <1>6
  <2> QED BY <1>4, <2>1, <2>2
<1>12. base \subseteq made.attrs /\ (~made.wroteRoot => made.attrs = base)
  BY <1>4, <1>5, <1>6
<1> QED BY <1>11, <1>12 DEF Resolved, Extends, base, made

\* The declarations of the repository stay resolved.
LEMMA ResolvedKept ==
    ASSUME NInv, Grows, \/ UNCHANGED snaps
                        \/ \E w \in Writers : Landed(w) /\ Resolved(NewSnapshot(w))
    PROVE  \A i \in DOMAIN snaps' : Resolved(snaps'[i])
<1>1. CASE UNCHANGED snaps
  BY <1>1 DEF NInv
<1>2. ASSUME NEW w \in Writers, Landed(w), Resolved(NewSnapshot(w))
      PROVE  \A i \in DOMAIN snaps' : Resolved(snaps'[i])
  <2>1. Shape
    BY DEF NInv, DInv, LInv
  <2>2. snaps \in Seq(Snapshot) /\ NewSnapshot(w) \in Snapshot /\ snaps' = Append(snaps, NewSnapshot(w))
    BY <1>2, <2>1, NewSnapshotType DEF Landed, Shape, TypeOK
  <2>3. PICK n : n = Len(snaps) + 1
    OBVIOUS
  <2>4. /\ DOMAIN snaps' = DOMAIN snaps \cup {n} /\ snaps'[n] = NewSnapshot(w)
        /\ \A i \in DOMAIN snaps : snaps'[i] = snaps[i]
    BY <2>2, <2>3
  <2> QED BY <1>2, <2>4 DEF NInv
<1> QED BY <1>1, <1>2

\* The chain from a session's base to its tip stays as the branch grows.
LEMMA ChainStays ==
    ASSUME Shape, Grows, NEW v \in Writers, Chain(v), Overtaken(v), SameBase(v),
           \/ UNCHANGED <<snaps, tip>>
           \/ \E w \in Writers : Landed(w) /\ AtTip(w) /\ Extends(w)
    PROVE  Chain(v)'
<1>1. /\ session[v].snap \in DOMAIN snaps /\ session[v].branch \in Branches
      /\ session'[v].snap = session[v].snap /\ session'[v].branch = session[v].branch
  BY DEF Shape, TypeOK, Refs, Session, SameBase
<1>2. CASE UNCHANGED <<snaps, tip>>
  BY <1>1, <1>2 DEF Chain, Intervening
<1>3. ASSUME NEW w \in Writers, Landed(w), AtTip(w), Extends(w)
      PROVE  Chain(v)'
  <2>1. /\ snaps \in Seq(Snapshot) /\ NewSnapshot(w) \in Snapshot
        /\ snaps' = Append(snaps, NewSnapshot(w))
        /\ tip' = [tip EXCEPT ![session[w].branch] = Len(snaps) + 1]
        /\ tip \in [Branches -> 1..Len(snaps)]
    BY <1>3, NewSnapshotType DEF Landed, Shape, TypeOK
  <2>2. PICK n : n = Len(snaps) + 1
    OBVIOUS
  <2>3. /\ snaps'[n] = NewSnapshot(w) /\ \A i \in 1..Len(snaps) : snaps'[i] = snaps[i]
        /\ DOMAIN snaps = 1..Len(snaps) /\ Len(snaps) \in Nat /\ n \notin DOMAIN snaps
    BY <2>1, <2>2
  <2>4. CASE session[v].branch # session[w].branch
    <3>1. tip'[session[v].branch] = tip[session[v].branch] /\ tip[session[v].branch] \in 1..Len(snaps)
      BY <1>1, <2>1, <2>4
    <3>2. Intervening(v)' = Intervening(v) /\ \A i \in Intervening(v) : snaps'[i] = snaps[i]
      BY <1>1, <2>3, <3>1 DEF Intervening
    <3>3. /\ snaps'[session[v].snap] = snaps[session[v].snap]
          /\ snaps'[tip[session[v].branch]] = snaps[tip[session[v].branch]]
      BY <1>1, <2>3, <3>1
    <3> QED BY <1>1, <3>1, <3>2, <3>3 DEF Chain
  <2>5. CASE session[v].branch = session[w].branch
    <3>1. /\ tip'[session[v].branch] = n /\ tip[session[v].branch] \in 1..Len(snaps)
          /\ tip[session[v].branch] = session[w].snap
      BY <1>1, <1>3, <2>1, <2>2, <2>5 DEF AtTip
    <3>2. NewSnapshot(w).branch = session[v].branch
      BY <2>5 DEF NewSnapshot
    <3>3. /\ \A i \in Intervening(v) : i \in Intervening(v)' /\ snaps'[i] = snaps[i]
          /\ n \in Intervening(v)'
      BY <1>1, <2>2, <2>3, <3>1, <3>2 DEF Intervening
    <3>4. /\ snaps'[session[v].snap] = snaps[session[v].snap]
          /\ snaps'[tip'[session[v].branch]] = NewSnapshot(w)
      BY <1>1, <2>3, <3>1
    <3>5. snaps[session[v].snap].attrs \subseteq NewSnapshot(w).attrs
      BY <1>3, <3>1 DEF Chain, Extends
    <3>6. ASSUME \A i \in Intervening(v)' : ~snaps'[i].wroteRoot
          PROVE  NewSnapshot(w).attrs = snaps[session[v].snap].attrs
      <4>1. ~NewSnapshot(w).wroteRoot /\ \A i \in Intervening(v) : ~snaps[i].wroteRoot
        BY <2>3, <3>3, <3>6
      <4> QED BY <1>3, <3>1, <4>1 DEF Chain, Extends
    <3> QED BY <1>1, <3>4, <3>5, <3>6 DEF Chain
  <2> QED BY <2>4, <2>5
<1> QED BY <1>2, <1>3

\* A session at the tip has no chain to keep.
LEMMA ChainAtTip ==
    ASSUME Shape, NEW w \in Writers, AtTip(w)
    PROVE  Chain(w)
BY DEF AtTip, Chain

(***************************************************************************)
(* What a transaction declares and stages.                                 *)
(***************************************************************************)

\* The tables created by a plan with one more intent.
LEMMA CreatedGrows ==
    ASSUME Shape, NEW w \in Writers, NEW op \in Op,
           plan'[w].intents = Append(plan[w].intents, op)
    PROVE  Created(w)' = IF op.kind = "create" THEN Created(w) \cup {op.table} ELSE Created(w)
<1>1. plan[w].intents \in Seq(Op)
  BY DEF Shape, TypeOK, Plan
<1>2. PICK n : n = Len(plan[w].intents) + 1
  OBVIOUS
<1>3. /\ DOMAIN plan'[w].intents = DOMAIN plan[w].intents \cup {n} /\ plan'[w].intents[n] = op
      /\ \A i \in DOMAIN plan[w].intents : plan'[w].intents[i] = plan[w].intents[i]
  BY <1>1, <1>2
<1> QED BY <1>3 DEF Created

\* What a transaction refers to stays.
LEMMA NamesStay ==
    ASSUME Shape, Grows, NEW v \in Writers, Names(v), SameBase(v),
           UNCHANGED <<session[v].root, session[v].attrs, plan[v].start, plan[v].intents>>,
           pc'[v] = "open" => pc[v] = "open"
    PROVE  Names(v)'
<1>1. session[v].snap \in DOMAIN snaps /\ plan[v].start \in DOMAIN snaps
  BY DEF Shape, Refs
<1>2. /\ snaps'[session[v].snap] = snaps[session[v].snap]
      /\ snaps'[plan[v].start] = snaps[plan[v].start]
  BY <1>1 DEF Grows
<1>3. Created(v)' = Created(v)
  BY DEF Created
<1>4. session'[v].snap = session[v].snap
  BY DEF SameBase
<1> QED BY <1>2, <1>3, <1>4 DEF Names

\* What it staged stays.
LEMMA StagingsStay ==
    ASSUME NEW v \in Writers, Stagings(v), SamePointers(v),
           UNCHANGED <<plan[v].intents>>,
           pc'[v] = "apply" => pc[v] = "apply" /\ loop'[v].next = loop[v].next
    PROVE  Stagings(v)'
<1>1. Created(v)' = Created(v)
  BY DEF Created
<1>2. CurrentPointers(catalog'[v]) = CurrentPointers(catalog[v])
  BY DEF CurrentPointers, SamePointers
<1> QED BY <1>1, <1>2 DEF Stagings, SamePointers

\* Staging an operation names a table of the base or one created here.
LEMMA StagingsGrow ==
    ASSUME Shape, NEW w \in Writers, Stagings(w), NEW op \in Op, ~Missing(catalog[w], op),
           Stage(w, op), UNCHANGED <<pc, plan[w].intents>>,
           op.kind = "create" => op.table \in Created(w),
           pc[w] = "apply" => /\ loop'[w].next = loop[w].next + 1
                              /\ loop[w].next \in DOMAIN plan[w].intents
                              /\ plan[w].intents[loop[w].next] = op
    PROVE  Stagings(w)'
<1>1. PICK new : new = NextLoc(w, op.table)
  OBVIOUS
<1>2. /\ new \in Loc /\ catalog'[w].pointers = catalog[w].pointers
      /\ \A t \in Tables : catalog'[w].staged[t] = IF t = op.table THEN new ELSE catalog[w].staged[t]
  BY <1>1, StageWrites
<1>3. new # Nil /\ op.table \in Tables
  BY <1>2, NilAssumption DEF Op
<1>4. \A t \in Tables : CurrentPointers(catalog'[w])[t] =
          IF t = op.table THEN new ELSE CurrentPointers(catalog[w])[t]
  BY <1>2, <1>3 DEF CurrentPointers
<1>5. Created(w)' = Created(w)
  BY DEF Created
<1>6. ASSUME op.kind # "create"
      PROVE  catalog[w].pointers[op.table] # Nil \/ op.table \in Created(w)
  BY <1>3, <1>6 DEF Missing, CurrentPointers, Stagings
<1>7. \A t \in Tables : catalog'[w].staged[t] # Nil =>
          catalog'[w].pointers[t] # Nil \/ t \in Created(w)
  BY <1>2, <1>3, <1>6 DEF Stagings
<1>8. ASSUME pc[w] = "apply", NEW i \in DOMAIN plan[w].intents,
             i < loop[w].next + 1, plan[w].intents[i].kind = "create"
      PROVE  CurrentPointers(catalog'[w])[plan[w].intents[i].table] # Nil
  <2>1. plan[w].intents[i].table \in Tables
    BY IntentType
  <2>2. i \in Nat /\ loop[w].next \in Nat
    BY DEF Shape, TypeOK, Plan, Loop
  <2>3. CASE i = loop[w].next
    BY <1>3, <1>4, <1>8, <2>3
  <2>4. CASE i < loop[w].next
    BY <1>3, <1>4, <1>8, <2>1, <2>4 DEF Stagings
  <2> QED BY <1>8, <2>2, <2>3, <2>4
<1> QED BY <1>5, <1>7, <1>8 DEF Stagings

\* A raised error declares and stages nothing.
LEMMA FailNames ==
    ASSUME Shape, Grows, NEW w \in Writers, NEW err \in Errors, Fail(w, err),
           Live(w) => Names(w) /\ Stagings(w), pc[w] = "idle" => err = "session branch",
           pc[w] \notin {"committed", "failed"}, err # "answer lost"
    PROVE  SameBase(w) /\ (Live(w)' => Names(w)' /\ Stagings(w)')
<1>1. session \in [Writers -> Session] /\ loop \in [Writers -> Loop] /\ pc \in [Writers -> Phases]
  BY DEF Shape, TypeOK
<1>2. pc'[w] = "failed" /\ loop'[w].err = err /\ UNCHANGED <<catalog, plan>>
  BY <1>1 DEF Fail, Loop
<1>3. SameBase(w)
  BY <1>1 DEF Fail, Session, Discarded, SameBase
<1>4. w \notin Managed => session'[w] = session[w]
  BY <1>1 DEF Fail
<1>5. ASSUME Live(w)' PROVE Names(w)' /\ Stagings(w)'
  <2>1. w \notin Managed /\ err # "session branch"
    BY <1>2, <1>5 DEF Live
  <2>2. Live(w)
    BY <1>1, <2>1 DEF Live, Phases
  <2>3. Names(w)'
    BY <1>2, <1>3, <1>4, <2>1, <2>2, NamesStay
  <2>4. Stagings(w)'
    BY <1>2, <2>2, StagingsStay DEF SamePointers
  <2> QED BY <2>3, <2>4
<1> QED BY <1>3, <1>5

\* The caller's steps keep a transaction's naming.
LEMMA CallerNames ==
    ASSUME NInv, NoDirectCreate, Shape', Grows, NEW w \in Writers, Caller(w)
    PROVE  Naming(w)' /\ UNCHANGED snaps
<1>a. /\ Shape /\ Chain(w) /\ Overtaken(w) /\ Untouched(w)
      /\ Live(w) => Names(w) /\ Stagings(w)
  BY DEF NInv, Naming, DInv, LInv, Ledger, IInv, WriterInv
<1>b. /\ pc \in [Writers -> Phases] /\ session \in [Writers -> Session]
      /\ catalog \in [Writers -> Catalog] /\ plan \in [Writers -> Plan]
      /\ loop \in [Writers -> Loop]
  BY <1>a DEF Shape, TypeOK
<1>c. ASSUME SameBase(w), UNCHANGED <<snaps, tip>> PROVE Chain(w)'
  BY <1>a, <1>c, ChainStays
<1>1. ASSUME NEW b \in Branches, NEW sb \in Branches, Open(w, b, sb)
      PROVE  Naming(w)' /\ UNCHANGED snaps
  <2>1. /\ pc[w] = "idle" /\ pc'[w] = "open" /\ UNCHANGED <<snaps, tip>>
        /\ session'[w].branch = sb /\ session'[w].snap = tip[sb]
        /\ session'[w].root = FALSE /\ session'[w].attrs = snaps[tip[sb]].attrs
    BY <1>1, <1>b DEF Open
  <2>2. plan'[w].start = tip[sb] /\ plan'[w].intents = plan[w].intents
    BY <1>1, <1>b DEF Open, Plan
  <2>3. catalog'[w].staged = NoPointers /\ plan[w].intents = << >>
    BY <1>1, <1>a, <1>b, <2>1 DEF Open, Catalog, Untouched
  <2>4. Created(w)' = {}
    BY <2>2, <2>3 DEF Created
  <2>5. Names(w)'
    BY <2>1, <2>2, <2>4 DEF Names
  <2>6. Stagings(w)'
    BY <2>1, <2>3 DEF Stagings, NoPointers
  <2>7. Chain(w)'
    BY <2>1, ChainAtTip DEF Chain
  <2> QED BY <2>1, <2>5, <2>6, <2>7 DEF Naming
<1>2. ASSUME NEW b \in Branches, NEW sb \in Branches, RefuseSession(w, b, sb)
      PROVE  Naming(w)' /\ UNCHANGED snaps
  <2>1. SameBase(w) /\ (Live(w)' => Names(w)' /\ Stagings(w)') /\ UNCHANGED <<snaps, tip>>
    BY <1>2, <1>a, FailNames DEF RefuseSession, Errors, Fail
  <2> QED BY <1>c, <2>1 DEF Naming
<1>3. ASSUME NEW op \in Ops, CreateTable(w, op)
      PROVE  Naming(w)' /\ UNCHANGED snaps
  <2>1. /\ pc[w] = "open" /\ op.kind = "create" /\ op \in Op
        /\ UNCHANGED <<snaps, tip, pc, catalog, loop>>
    BY <1>3, OpAssumption DEF CreateTable, MayRecord
  <2>2. /\ session'[w].snap = session[w].snap /\ session'[w].branch = session[w].branch
        /\ session'[w].attrs = session[w].attrs \cup {op.table}
        /\ session'[w].root = ((session[w].root \/ ~HasRoot(w)) \/ op.table \notin session[w].attrs)
    BY <1>3, <1>b DEF CreateTable, Grouped, Declared, Session
  <2>3. plan'[w].intents = Append(plan[w].intents, op) /\ plan'[w].start = plan[w].start
    BY <1>3, <1>b DEF CreateTable, Plan
  <2>4. Created(w)' = Created(w) \cup {op.table}
    BY <1>a, <2>1, <2>3, CreatedGrows
  <2>5. Names(w) /\ Stagings(w)
    BY <1>a, <2>1 DEF Live
  <2>6. Names(w)'
    BY <2>1, <2>2, <2>3, <2>4, <2>5 DEF Names
  <2>7. Stagings(w)'
    BY <2>1, <2>4, <2>5 DEF Stagings
  <2>8. Chain(w)'
    BY <1>c, <2>1, <2>2 DEF SameBase
  <2> QED BY <2>1, <2>6, <2>7, <2>8 DEF Naming
<1>4. ASSUME NEW op \in Ops, AppendRows(w, op) \/ RemoveRows(w, op)
      PROVE  Naming(w)' /\ UNCHANGED snaps
  <2>1. /\ pc[w] = "open" /\ op.kind # "create" /\ op \in Op
        /\ UNCHANGED <<snaps, tip, pc, session, catalog, loop>>
    BY <1>4, OpAssumption DEF AppendRows, RemoveRows, MayRecord
  <2>2. plan'[w].intents = Append(plan[w].intents, op) /\ plan'[w].start = plan[w].start
    BY <1>4, <1>b DEF AppendRows, RemoveRows, Plan
  <2>3. Created(w)' = Created(w)
    BY <1>a, <2>1, <2>2, CreatedGrows
  <2>4. Names(w) /\ Stagings(w)
    BY <1>a, <2>1 DEF Live
  <2>5. Names(w)' /\ Stagings(w)'
    BY <2>1, <2>2, <2>3, <2>4 DEF Names, Stagings
  <2>6. Chain(w)'
    BY <1>c, <2>1 DEF SameBase
  <2> QED BY <2>1, <2>5, <2>6 DEF Naming
<1>5. ASSUME NEW c \in Chunks, WriteChunk(w, c)
      PROVE  Naming(w)' /\ UNCHANGED snaps
  <2>1. pc[w] = "open" /\ UNCHANGED <<snaps, tip, pc, catalog, loop>>
    BY <1>5 DEF WriteChunk
  <2>2. /\ session'[w].snap = session[w].snap /\ session'[w].branch = session[w].branch
        /\ session'[w].attrs = session[w].attrs
        /\ session'[w].root = (session[w].root \/ ~HasRoot(w))
    BY <1>5, <1>b DEF WriteChunk, Session
  <2>3. plan'[w].intents = plan[w].intents /\ plan'[w].start = plan[w].start
    BY <1>5, <1>b DEF WriteChunk, Plan
  <2>4. Created(w)' = Created(w)
    BY <2>3 DEF Created
  <2>5. Names(w) /\ Stagings(w)
    BY <1>a, <2>1 DEF Live
  <2>6. Names(w)' /\ Stagings(w)'
    BY <2>1, <2>2, <2>3, <2>4, <2>5 DEF Names, Stagings
  <2>7. Chain(w)'
    BY <1>c, <2>1, <2>2 DEF SameBase
  <2> QED BY <2>1, <2>6, <2>7 DEF Naming
<1>6. ASSUME NEW op \in DirectOps, Direct(w, op)
      PROVE  Naming(w)' /\ UNCHANGED snaps
  <2>1. /\ op \in Op /\ op.kind # "create" /\ pc[w] = "open" /\ Stage(w, op)
        /\ ~Missing(catalog[w], op) /\ UNCHANGED <<snaps, tip, pc, session, loop>>
    BY <1>6, OpAssumption DEF Direct, NoDirectCreate
  <2>2. plan'[w].intents = plan[w].intents /\ plan'[w].start = plan[w].start
    BY <1>6, <1>b DEF Direct, Plan
  <2>3. Names(w) /\ Stagings(w)
    BY <1>a, <2>1 DEF Live
  <2>4. Names(w)'
    BY <1>a, <2>1, <2>2, <2>3, NamesStay DEF SameBase
  <2>5. Stagings(w)'
    BY <1>a, <2>1, <2>2, <2>3, StagingsGrow
  <2>6. Chain(w)'
    BY <1>c, <2>1 DEF SameBase
  <2> QED BY <2>1, <2>4, <2>5, <2>6 DEF Naming
<1>7. CASE BodyRaises(w)
  <2>1. SameBase(w) /\ (Live(w)' => Names(w)' /\ Stagings(w)') /\ UNCHANGED <<snaps, tip>>
    BY <1>7, <1>a, FailNames DEF BodyRaises, Errors, Fail
  <2> QED BY <1>c, <2>1 DEF Naming
<1>8. CASE BeginCommit(w)
  <2>1. /\ Live(w) /\ UNCHANGED <<snaps, tip, session, catalog, plan>>
    BY <1>8 DEF BeginCommit, Live
  <2>2. pc'[w] = "apply" /\ loop'[w].next = 1
    BY <1>8, <1>b DEF BeginCommit
  <2>3. Names(w)'
    BY <1>a, <2>1, <2>2, NamesStay DEF SameBase
  <2>4. Created(w)' = Created(w) /\ \A i \in DOMAIN plan[w].intents : ~(i < 1)
    BY <1>b, <2>1 DEF Created, Plan
  <2>5. Stagings(w)'
    BY <1>a, <2>1, <2>2, <2>4 DEF Stagings
  <2>6. Chain(w)'
    BY <1>c, <2>1 DEF SameBase
  <2> QED BY <2>1, <2>3, <2>5, <2>6 DEF Naming
<1> QED BY <1>1, <1>2, <1>3, <1>4, <1>5, <1>6, <1>7, <1>8 DEF Caller

\* So do the steps of a running commit(), and what it publishes declares what it
\* resolves.
LEMMA CommitNames ==
    ASSUME NInv, Shape', Grows, NEW w \in Writers,
           Commit(w) \/ StorageFault(w) \/ AnswerLost(w)
    PROVE  /\ Naming(w)'
           /\ \/ UNCHANGED <<snaps, tip>>
              \/ Landed(w) /\ AtTip(w) /\ Extends(w) /\ Resolved(NewSnapshot(w))
<1> DEFINE Goal == /\ Naming(w)'
                   /\ \/ UNCHANGED <<snaps, tip>>
                      \/ Landed(w) /\ AtTip(w) /\ Extends(w) /\ Resolved(NewSnapshot(w))
<1>a. /\ Shape /\ Chain(w) /\ Overtaken(w)
      /\ Live(w) => Names(w) /\ Stagings(w)
  BY DEF NInv, Naming, DInv, LInv, Ledger
<1>b. /\ pc \in [Writers -> Phases] /\ session \in [Writers -> Session]
      /\ catalog \in [Writers -> Catalog] /\ plan \in [Writers -> Plan]
      /\ loop \in [Writers -> Loop]
  BY <1>a DEF Shape, TypeOK
<1>c. ASSUME SameBase(w), UNCHANGED <<snaps, tip>> PROVE Chain(w)'
  BY <1>a, <1>c, ChainStays
<1>d. ASSUME NEW err \in Errors, Fail(w, err), pc[w] \in {"apply", "recover", "rebase"},
             err # "answer lost"
      PROVE  Goal
  <2>1. SameBase(w) /\ (Live(w)' => Names(w)' /\ Stagings(w)') /\ UNCHANGED <<snaps, tip>>
    BY <1>a, <1>d, FailNames DEF Fail
  <2> QED BY <1>c, <2>1 DEF Naming
<1>e. Applying(w) => /\ Intent(w) \in Op /\ loop[w].next \in DOMAIN plan[w].intents
                     /\ Intent(w) = plan[w].intents[loop[w].next]
                     /\ pc[w] = "apply" /\ loop[w].next \in Nat
  BY <1>b DEF Applying, Intent, Plan, Loop
<1>1. CASE ApplyIntent(w)
  <2>1. /\ Applying(w) /\ ~Missing(catalog[w], Intent(w)) /\ Stage(w, Intent(w))
        /\ loop' = [loop EXCEPT ![w].next = @ + 1]
        /\ UNCHANGED <<snaps, tip, pc, session, plan>>
    BY <1>1 DEF ApplyIntent
  <2>2. loop'[w].next = loop[w].next + 1
    BY <1>b, <2>1 DEF Loop
  <2>3. PICK op \in Op : op = Intent(w)
    BY <1>e, <2>1
  <2>4. Live(w) /\ (op.kind = "create" => op.table \in Created(w))
    BY <1>e, <2>1, <2>3 DEF Live, Created
  <2>5. Stagings(w)'
    BY <1>a, <1>e, <2>1, <2>2, <2>3, <2>4, StagingsGrow
  <2>6. Names(w)' /\ Chain(w)'
    BY <1>a, <1>c, <2>1, <2>4, NamesStay DEF SameBase
  <2> QED BY <2>1, <2>5, <2>6 DEF Naming
<1>2. CASE ApplyNothing(w)
  <2>1. /\ Applying(w) /\ ~WritesMetadata(catalog[w], Intent(w))
        /\ loop' = [loop EXCEPT ![w].next = @ + 1]
        /\ UNCHANGED <<snaps, tip, pc, session, catalog, plan>>
    BY <1>2 DEF ApplyNothing
  <2>2. loop'[w].next = loop[w].next + 1
    BY <1>b, <2>1 DEF Loop
  <2>3. Live(w)
    BY <1>e, <2>1 DEF Live
  <2>4. Names(w)' /\ Chain(w)'
    BY <1>a, <1>c, <2>1, <2>3, NamesStay DEF SameBase
  <2>5. Intent(w).kind = "create" => CurrentPointers(catalog[w])[Intent(w).table] # Nil
    BY <2>1 DEF WritesMetadata
  <2>6. ASSUME NEW i \in DOMAIN plan[w].intents, i < loop[w].next + 1,
               plan[w].intents[i].kind = "create"
        PROVE  CurrentPointers(catalog[w])[plan[w].intents[i].table] # Nil
    <3>1. i \in Nat
      BY <1>b DEF Plan
    <3>2. CASE i = loop[w].next
      BY <1>e, <2>1, <2>5, <2>6, <3>2
    <3>3. CASE i < loop[w].next
      BY <1>a, <1>e, <2>1, <2>3, <2>6, <3>3 DEF Stagings
    <3> QED BY <1>e, <2>1, <2>6, <3>1, <3>2, <3>3
  <2>7. Created(w)' = Created(w)
    BY <2>1 DEF Created
  <2>8. Stagings(w)'
    BY <1>a, <2>1, <2>2, <2>3, <2>6, <2>7 DEF Stagings
  <2> QED BY <2>1, <2>4, <2>8 DEF Naming
<1>3. CASE ApplyMissing(w) \/ RefuseEmpty(w) \/ Exhausted(w) \/ StorageFault(w)
  BY <1>3, <1>d DEF ApplyMissing, RefuseEmpty, Exhausted, StorageFault, Applying, AllApplied, Errors
<1>4. CASE RefuseUncovered(w) \/ RefuseRemoval(w) \/ RebaseFails(w)
  BY <1>4, <1>d DEF RefuseUncovered, RefuseRemoval, RebaseFails, Errors
<1>5. CASE Conflict(w)
  <2>1. /\ pc[w] = "apply" /\ UNCHANGED <<snaps, tip, session, catalog, plan, loop>>
    BY <1>5 DEF Conflict, AllApplied
  <2>2. pc'[w] = "recover" /\ Live(w)
    BY <1>5, <1>b, <2>1 DEF Conflict, Live
  <2>3. Names(w)' /\ Chain(w)'
    BY <1>a, <1>c, <2>1, <2>2, NamesStay DEF SameBase
  <2>4. Stagings(w)'
    BY <1>a, <2>1, <2>2, StagingsStay DEF SamePointers
  <2> QED BY <2>1, <2>3, <2>4 DEF Naming
<1>6. CASE Adopt(w)
  <2>1. pc[w] = "recover" /\ UNCHANGED <<snaps, tip, session, plan, loop>>
    BY <1>6 DEF Adopt
  <2>2. pc'[w] = "rebase" /\ Live(w) /\ catalog'[w].staged = NoPointers
    BY <1>6, <1>b, <2>1 DEF Adopt, Live, RebasedOnto, Catalog
  <2>3. Names(w)' /\ Chain(w)'
    BY <1>a, <1>c, <2>1, <2>2, NamesStay DEF SameBase
  <2>4. Stagings(w)'
    BY <2>2 DEF Stagings, NoPointers
  <2> QED BY <2>1, <2>3, <2>4 DEF Naming
<1>7. CASE Rebase(w)
  <2>1. pc[w] = "rebase" /\ ~RootClash(w) /\ UNCHANGED <<snaps, tip, catalog, plan>>
    BY <1>7 DEF Rebase
  <2>2. /\ pc'[w] = "apply" /\ loop'[w].next = 1
        /\ session'[w].snap = tip[session[w].branch] /\ session'[w].branch = session[w].branch
        /\ session'[w].root = session[w].root /\ session'[w].attrs = session[w].attrs
    BY <1>7, <1>b DEF Rebase, Session, Loop
  <2>3. Names(w) /\ Stagings(w)
    BY <1>a, <2>1 DEF Live
  <2>4. Created(w)' = Created(w) /\ \A i \in DOMAIN plan[w].intents : ~(i < 1)
    BY <1>b, <2>1 DEF Created, Plan
  <2> DEFINE base == snaps[session[w].snap].attrs
             now  == snaps[tip[session[w].branch]].attrs
  <2>5. base \subseteq now /\ (session[w].root => now = base)
    BY <1>a, <2>1 DEF Chain, RootClash
  <2>6. snaps'[session'[w].snap].attrs = now /\ plan'[w] = plan[w]
    BY <2>1, <2>2
  <2> HIDE DEF base, now
  <2>7. /\ session[w].attrs = snaps[plan[w].start].attrs \cup Created(w)
        /\ snaps[plan[w].start].attrs \subseteq base
        /\ session[w].root => base = snaps[plan[w].start].attrs
        /\ ~session[w].root => Created(w) \subseteq snaps[plan[w].start].attrs
    BY <2>3 DEF Names, base
  <2>8. Names(w)'
    BY <2>1, <2>2, <2>4, <2>5, <2>6, <2>7 DEF Names
  <2>9. Stagings(w)'
    BY <2>1, <2>2, <2>3, <2>4 DEF Stagings
  <2>10. Chain(w)'
    BY <2>1, <2>2 DEF Chain
  <2> QED BY <2>1, <2>8, <2>9, <2>10 DEF Naming
<1>8. CASE Publish(w) \/ AnswerLost(w)
  <2>1. AllApplied(w) /\ AtTip(w) /\ Landed(w)
    BY <1>8 DEF Publish, AnswerLost, Landed
  <2>2. Resolved(NewSnapshot(w)) /\ Extends(w)
    BY <2>1, NewSnapshotResolves
  <2>3. SameBase(w)
    <3>1. session'[w] = session[w] \/ session'[w] = Discarded(session[w])
      BY <1>8, <1>b DEF Publish, AnswerLost
    <3> QED BY <1>b, <3>1 DEF Session, Discarded, SameBase
  <2>4. Chain(w)'
    BY <1>a, <2>1, <2>2, <2>3, ChainStays
  <2>5. ~Live(w)'
    <3>1. CASE Publish(w)
      BY <1>b, <3>1 DEF Publish, Live
    <3>2. CASE AnswerLost(w)
      <4>1. loop' = [loop EXCEPT ![w].err = "answer lost"] /\ pc' = [pc EXCEPT ![w] = "failed"]
        BY <3>2 DEF AnswerLost
      <4>2. pc'[w] = "failed" /\ loop'[w].err = "answer lost"
        BY <1>b, <4>1 DEF Loop
      <4> QED BY <4>2 DEF Live
    <3> QED BY <1>8, <3>1, <3>2
  <2> QED BY <2>1, <2>2, <2>4, <2>5 DEF Naming
<1> QED BY <1>1, <1>2, <1>3, <1>4, <1>5, <1>6, <1>7, <1>8 DEF Commit

\* A transaction that does not act keeps its naming.
LEMMA NamingOfOthers ==
    ASSUME NInv, Grows, NEW v \in Writers,
           catalog'[v] = catalog[v], plan'[v] = plan[v], loop'[v] = loop[v],
           pc'[v] = pc[v], session'[v] = session[v],
           \/ UNCHANGED <<snaps, tip>>
           \/ \E w \in Writers : Landed(w) /\ AtTip(w) /\ Extends(w)
    PROVE  Naming(v)'
<1>1. Shape /\ Naming(v) /\ Overtaken(v)
  BY DEF NInv, DInv, LInv, Ledger
<1>2. Chain(v)'
  BY <1>1, ChainStays DEF Naming, SameBase
<1>3. ASSUME Live(v)' PROVE Names(v)' /\ Stagings(v)'
  <2>1. Names(v) /\ Stagings(v)
    BY <1>1, <1>3 DEF Live, Naming
  <2>2. Names(v)'
    BY <1>1, <2>1, NamesStay DEF SameBase
  <2>3. Stagings(v)'
    BY <2>1, StagingsStay DEF SamePointers
  <2> QED BY <2>2, <2>3
<1> QED BY <1>2, <1>3 DEF Naming

(***************************************************************************)
(* The theorems.                                                           *)
(***************************************************************************)

\* The first snapshot declares the tables it was seeded with.
LEMMA InitNames == Init => NInv
<1> SUFFICES ASSUME Init PROVE NInv
  OBVIOUS
<1>1. DInv /\ Shape
  BY InitLineage DEF DInv, LInv
<1>2. snaps = <<FirstSnapshot(FirstBranch)>> /\ tip = [b \in Branches |-> 1]
  BY DEF Init
<1>3. DOMAIN snaps = {1} /\ snaps[1] = FirstSnapshot(FirstBranch)
  BY <1>2
<1>4. \A t \in SeedTables : SeedLoc(t) # Nil
  BY NilAssumption, SeedAssumption DEF SeedLoc, Loc, Authors
<1>5. Resolved(snaps[1])
  BY <1>3, <1>4 DEF Resolved, FirstSnapshot
<1>6. ASSUME NEW w \in Writers PROVE Naming(w)
  <2>1. pc[w] = "idle" /\ session[w].snap = 1 /\ session[w].branch = FirstBranch
    BY DEF Init
  <2>2. FirstBranch \in Branches
    BY BranchAssumption DEF FirstBranch
  <2>3. Chain(w)
    BY <1>1, <1>2, <2>1, <2>2, ChainAtTip DEF AtTip
  <2> QED BY <2>1, <2>3 DEF Naming, Live
<1> QED BY <1>1, <1>3, <1>5, <1>6 DEF NInv

\* Every step keeps it, as long as the tips are still.
LEMMA NextNames ==
    ASSUME NoDirectCreate
    PROVE  NInv /\ [Next]_vars /\ [Still]_vars => NInv'
<1> SUFFICES ASSUME NInv, [Next]_vars, [Still]_vars PROVE NInv'
  OBVIOUS
<1>1. DInv' /\ Shape /\ Shape' /\ Grows
  BY NextLineage, NextShape, StepGrows DEF NInv, DInv, LInv
<1>2. CASE UNCHANGED vars
  <2>1. UNCHANGED <<snaps, tip, pc, session, catalog, plan, loop>>
    BY <1>2 DEF vars
  <2>2. \A v \in Writers : Naming(v)'
    BY <1>1, <2>1, NamingOfOthers
  <2>3. \A i \in DOMAIN snaps' : Resolved(snaps'[i])
    BY <1>1, <2>1, ResolvedKept
  <2> QED BY <1>1, <2>2, <2>3 DEF NInv
<1>3. ASSUME NEW w \in Writers, Caller(w) \/ Commit(w) \/ StorageFault(w) \/ AnswerLost(w)
      PROVE  NInv'
  <2>1. /\ Naming(w)'
        /\ \/ UNCHANGED <<snaps, tip>>
           \/ Landed(w) /\ AtTip(w) /\ Extends(w) /\ Resolved(NewSnapshot(w))
    <3>1. CASE Caller(w)
      <4>1. Naming(w)' /\ UNCHANGED snaps
        BY <1>1, <3>1, CallerNames
      <4>2. UNCHANGED tip
        BY <3>1 DEF Caller, Open, RefuseSession, CreateTable, AppendRows, RemoveRows, WriteChunk,
                    Direct, BodyRaises, BeginCommit, Fail
      <4> QED BY <4>1, <4>2
    <3> QED BY <1>1, <1>3, <3>1, CommitNames
  <2>2. ASSUME NEW v \in Writers, v # w PROVE Naming(v)'
    <3>1. StepOf(w)
      BY <1>1, <1>3, CallerForms, CommitForms
    <3>2. /\ catalog'[v] = catalog[v] /\ plan'[v] = plan[v] /\ loop'[v] = loop[v]
          /\ pc'[v] = pc[v] /\ session'[v] = session[v]
      BY <2>2, <3>1 DEF StepOf, OwnStep
    <3> QED BY <1>1, <2>1, <3>2, NamingOfOthers
  <2>3. \A i \in DOMAIN snaps' : Resolved(snaps'[i])
    BY <1>1, <2>1, ResolvedKept
  <2> QED BY <1>1, <2>1, <2>2, <2>3 DEF NInv
<1> QED BY <1>2, <1>3 DEF Next, Terminated

\* What a snapshot resolves is what a reader finds.
LEMMA ResolvedReads == NInv => DeclaredResolves
BY DEF NInv, Resolved, DeclaredResolves, ReadTable

\* Both halves or neither: unless a commit lands between the two reads of the branch
\* tip in _recover, or a table is created past the transaction on tx.catalog, no
\* snapshot declares a table its commit metadata does not resolve, or resolves one
\* its root group does not declare - whatever was replayed on the way, and whichever
\* of the writers created the table first.
THEOREM DeclaredTablesResolve ==
    ASSUME NoDirectCreate
    PROVE  Spec /\ TipStill => []DeclaredResolves
<1>1. NInv /\ [Next]_vars /\ [Still]_vars => NInv'
  BY NextNames
<1> QED BY <1>1, InitNames, ResolvedReads, PTL DEF Spec, TipStill

\* Between two writers nothing can land there, and declarations always resolve.
THEOREM TwoWritersDeclareAlike ==
    ASSUME NoDirectCreate, AtMostTwo
    PROVE  Spec => []DeclaredResolves
<1>1. NInv /\ [Next]_vars /\ [Still]_vars => NInv'
  BY NextNames
<1>2. LInv /\ [Next]_vars => [Still]_vars
  BY TwoKeepStill
<1> QED BY <1>1, <1>2, InitLedger, NextLedger, InitNames, ResolvedReads, PTL DEF Spec
=============================================================================
