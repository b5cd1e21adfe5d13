------------------------------ MODULE DemoTable ------------------------------
(***************************************************************************)
(* The demo from the archive to the granules table, in the order of the    *)
(* notebook: records are selected, the table is created from the archive's *)
(* schema, and what was selected is ingested as a batch - again, if the    *)
(* cells are run again.                                                    *)
(***************************************************************************)
EXTENDS Selection, Clustering

vars == <<selectVars, layoutVars>>

\* The selection becomes a batch.
IngestSelection == IngestBatch(rows) /\ TakeResult

\* The selection is only looked at, or its batch fails and changes nothing.
DropSelection == TakeResult /\ UNCHANGED layoutVars

Init == SelectInit /\ LayoutInit

Next ==
    \/ SelectGranules /\ UNCHANGED layoutVars
    \/ \E source \in Sources : CreateTable(source) /\ UNCHANGED selectVars
    \/ IngestSelection
    \/ DropSelection

Spec == Init /\ [][Next]_vars
=============================================================================
