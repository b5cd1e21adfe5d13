------------------------------- MODULE MCIngest -------------------------------
(* The rows given to TLC for the batches of Ingest. *)
EXTENDS Ingest, TLC

CONSTANTS granule1, granule2, granule3, malformed

\* Batches that overlap in another order, one with an id that comes twice, one apart, and one
\* with a malformed row.
ThreeInputs == {<<granule1, granule2, granule1>>, <<granule2, granule1>>, <<granule3>>,
                <<granule2, malformed>>}

TwoGranules == {<<granule1, granule2>>}

BatchSymmetry == Permutations(Batches)
=============================================================================
