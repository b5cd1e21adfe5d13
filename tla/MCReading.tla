------------------------------ MODULE MCReading ------------------------------
(* Symmetries and property values for TLC's runs of Reading. *)
EXTENDS Reading, TLC

\* Both left out, or both overridden.
CallersProperties == {[gc |-> Nil, purge |-> Nil], [gc |-> TRUE, purge |-> TRUE]}

Symmetry == Permutations(Readers) \cup Permutations(Tables)
=============================================================================
