------------------------- MODULE MCLibraryExtraction -------------------------
(***************************************************************************)
(* Instances of LibraryExtraction for TLC: version v2 is one chunk longer  *)
(* than v1; process r has a jar without the library.                       *)
(***************************************************************************)
EXTENDS LibraryExtraction, TLC

CONSTANTS p1, p2, p3, r, v1, v2

MCLength  == [v \in Versions |-> IF v = v1 THEN 2 ELSE 3]

Mixed == [p \in Processes |-> IF p = r THEN NoResource
                              ELSE IF p = p1 THEN v1 ELSE v2]
Same  == [p \in Processes |-> v1]

==============================================================================
