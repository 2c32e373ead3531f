------------------------- MODULE MCConceptSummaries -------------------------
(* Instances of ConceptSummaries for TLC.                                  *)
EXTENDS ConceptSummaries, TLC

CONSTANTS w1, w2

TwoWorkers == {w1, w2}
WorkerSymmetry == Permutations(TwoWorkers)

(* The tiers fall and rise, which TierFor does not rule out: batches of    *)
(* four facts, of two at four facts, of three above.  An open slice of     *)
(* three facts is completed with a fact less when a pass finds the fourth, *)
(* as it is with the fifth, and a pass writes two slices.                  *)
FallingTiers == [n \in 0..MaxFacts |-> IF n < 4 THEN 4
                                       ELSE IF n = 4 THEN 2 ELSE 3]
=============================================================================
