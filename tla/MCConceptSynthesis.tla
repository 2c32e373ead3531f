------------------------- MODULE MCConceptSynthesis -------------------------
(* Instances of ConceptSynthesis for TLC.                                  *)
EXTENDS ConceptSynthesis, TLC

CONSTANTS p1, p2, w1, w2, r1, n1, n2, n3, k1, k2

(* The first process has a pool of two connections, and a refinement.      *)
MCHome == (w1 :> p1) @@ (w2 :> p2) @@ (r1 :> p1)
              @@ (n1 :> p1) @@ (n2 :> p1) @@ (n3 :> p2)
=============================================================================
