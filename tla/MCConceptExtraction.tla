------------------------ MODULE MCConceptExtraction -------------------------
(* Instances of ConceptExtraction for TLC.                                 *)
EXTENDS ConceptExtraction, TLC

CONSTANTS p1, p2

(* Four facts: the model has nothing to say of 2, and chokes on 3.         *)
Silent == {2}
Choking == {3}
=============================================================================
