----------------------------- MODULE DemoGranule -----------------------------
(***************************************************************************)
(* The demo on one granule, in the order of the notebook: the header of    *)
(* one of its COGs is fetched and walked, then the granule is written.     *)
(* The cell that walks the header shows the sizes and keeps nothing.       *)
(***************************************************************************)
EXTENDS GranuleWriter, TiffHeader

vars == <<writeVars, walkVars>>

\* The next cell, once the walk has returned.
WriteNext ==
    /\ walk = "returned"
    /\ file' = Nil /\ length' = 0 /\ offset' = 0 /\ sizes' = << >> /\ reach' = 0
    /\ walk' = "over"
    /\ CallWriteGranule

\* A cell that raises stops the notebook, and the last one ends it.
Done ==
    /\ walk = "raised" \/ phase \in {"returned", "raised"}
    /\ UNCHANGED vars

Init == WalkInit /\ WriteInit

Next ==
    \/ ParseIfds /\ UNCHANGED writeVars
    \/ WriteNext
    \/ WriteGranule /\ UNCHANGED walkVars
    \/ Done

\* parse_ifds is one call that keeps running.
Spec == Init /\ [][Next]_vars /\ WF_vars(ParseIfds /\ UNCHANGED writeVars)
=============================================================================
