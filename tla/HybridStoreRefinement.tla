------------------------ MODULE HybridStoreRefinement ------------------------
(***************************************************************************)
(* The commit protocol of HybridStore implements the atomic store: what a  *)
(* reader of a branch sees changes only as if whole transactions ran one   *)
(* after the other, each in a single step.                                 *)
(***************************************************************************)
EXTENDS HybridStore

\* What a reader of an Icechunk snapshot sees: the tables its pointer map
\* resolves, their rows, and the arrays.
View(i) ==
    [tables |-> {t \in Tables : snaps[i].pointers[t] # Nil},
     rows   |-> [t \in Tables |-> RowsAt(snaps[i].pointers, t)],
     chunks |-> snaps[i].chunks]

\* The store of a branch is what its tip shows.
StoreOf == [b \in Branches |-> View(tip[b])]

\* The work of a transaction, whatever part of it is staged, abandoned or
\* replayed at the moment.  What is done on tx.catalog comes before the
\* intents, which wait for commit().
WorkOf ==
    [w \in Writers |->
        [branch |-> plan[w].branch,
         seen   |-> View(plan[w].start),
         ops    |-> plan[w].direct \o plan[w].intents,
         chunks |-> plan[w].chunks]]

\* A transaction takes effect when Icechunk moves the branch, also when the
\* caller is told of an error because the answer was lost.
StatusOf ==
    [w \in Writers |->
        CASE loop[w].err = "answer lost" -> "committed"
          [] loop[w].err # "answer lost" /\ pc[w] \in {"apply", "recover", "rebase"} -> "open"
          [] OTHER -> pc[w]]

Atomic == INSTANCE AtomicStore WITH
    Ops <- Ops \cup DirectOps, store <- StoreOf, work <- WorkOf, status <- StatusOf

\* commit() implements the atomic store: every step of every writer - a staged
\* file, a lost compare-and-swap, the adoption of the winner's pointers, a
\* rebase, a storage error - either changes nothing a reader sees or is one
\* whole transaction taking effect at the tip (transaction.py, commit).
Implements == Atomic!Spec
=============================================================================
