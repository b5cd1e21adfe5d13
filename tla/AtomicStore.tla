----------------------------- MODULE AtomicStore -----------------------------
(***************************************************************************)
(* What a hybrid store promises its callers, whatever the protocol: a      *)
(* transaction takes effect at one instant, tables and arrays together, on *)
(* the store its branch holds at that instant, or it takes none.  There    *)
(* are no pointers, metadata files, attempts or rebases here.              *)
(*                                                                         *)
(* HybridStoreRefinement shows that HybridStore implements this.           *)
(***************************************************************************)
EXTENDS Integers, SequencesExt

CONSTANTS Nil, Writers, Tables, Chunks, Branches, Ops

VARIABLES
    store,   \* what each branch holds
    work,    \* what each transaction has been asked to do
    status   \* whether it has taken effect

vars == <<store, work, status>>

\* The rows an operation gives, marked with who gave them.
Given(w, op) == {[key |-> k, by |-> w] : k \in op.data}

\* The rows an operation selects.
Selected(op, rows) == {r \in rows : r.key \in op.pred}

\* The store after one operation of w.
After(w, op, s) ==
    CASE op.kind = "create" -> [s EXCEPT !.tables = @ \cup {op.table}]
      [] op.kind = "append" -> [s EXCEPT !.rows[op.table] = @ \cup Given(w, op)]
      [] op.kind = "delete" -> [s EXCEPT !.rows[op.table] = @ \ Selected(op, @)]
      [] op.kind = "overwrite" ->
            [s EXCEPT !.rows[op.table] = (@ \ Selected(op, @)) \cup Given(w, op)]

\* The stores that operations of w, run one after the other, pass through.
Through(w, ops, s) ==
    LET at[i \in 0..Len(ops)] == IF i = 0 THEN s ELSE After(w, ops[i], at[i - 1])
    IN  at

\* Every operation but a creation finds its table.
Applies(w, ops, s) ==
    \A i \in DOMAIN ops :
        ops[i].kind # "create" => ops[i].table \in Through(w, ops, s)[i - 1].tables

\* The store the whole transaction makes of s.
Outcome(w, s) ==
    [Through(w, work[w].ops, s)[Len(work[w].ops)] EXCEPT
        !.chunks = [c \in Chunks |-> IF c \in work[w].chunks THEN w ELSE @[c]]]

Init ==
    /\ status = [w \in Writers |-> "idle"]
    /\ \A b, d \in Branches : store[b] = store[d]
    /\ \A b \in Branches :
          /\ \A t \in Tables : \A r \in store[b].rows[t] : r.by \notin Writers
          /\ \A c \in Chunks : store[b].chunks[c] = Nil
    /\ \A w \in Writers : work[w].ops = << >> /\ work[w].chunks = {}

\* A transaction on branch b starts, and sees what b holds.
Begin(w, b) ==
    /\ status[w] = "idle"
    /\ status' = [status EXCEPT ![w] = "open"]
    /\ work' = [work EXCEPT ![w].branch = b, ![w].seen = store[b]]
    /\ UNCHANGED store

\* It is asked for a table operation, to run before, between or after the others.
Ask(w, op) ==
    /\ status[w] = "open"
    /\ \E i \in 1..Len(work[w].ops) + 1 :
          work' = [work EXCEPT ![w].ops = InsertAt(@, i, op)]
    /\ UNCHANGED <<store, status>>

\* It is asked to write a chunk.
Write(w, c) ==
    /\ status[w] = "open"
    /\ work' = [work EXCEPT ![w].chunks = @ \cup {c}]
    /\ UNCHANGED <<store, status>>

\* It takes effect, all at once, on what the branch holds now.  The rows it
\* removes are rows it saw: it never removes what others added since.
Commit(w) ==
    LET b == work[w].branch
        now == store[b]
    IN  /\ status[w] = "open"
        /\ Applies(w, work[w].ops, now)
        /\ \A t \in Tables :
              now.rows[t] \ Outcome(w, now).rows[t] \subseteq work[w].seen.rows[t]
        /\ store' = [store EXCEPT ![b] = Outcome(w, now)]
        /\ status' = [status EXCEPT ![w] = "committed"]
        /\ UNCHANGED work

\* It fails and leaves nothing behind.
Abort(w) ==
    /\ status[w] \in {"idle", "open"}
    /\ status' = [status EXCEPT ![w] = "failed"]
    /\ UNCHANGED <<store, work>>

\* The caller of a transaction that failed tries it again.
Resume(w) ==
    /\ status[w] = "failed"
    /\ status' = [status EXCEPT ![w] = "open"]
    /\ UNCHANGED <<store, work>>

Next ==
    \E w \in Writers :
        \/ \E b \in Branches : Begin(w, b)
        \/ \E op \in Ops : Ask(w, op)
        \/ \E c \in Chunks : Write(w, c)
        \/ Commit(w)
        \/ Abort(w)
        \/ Resume(w)

Spec == Init /\ [][Next]_vars
=============================================================================
