------------------------ MODULE MCConceptRefinement -------------------------
(* Instances of ConceptRefinement for TLC.                                 *)
EXTENDS ConceptRefinement, TLC

CONSTANTS f1, f2, r1, r2

(* Candidates "a" and "b" share the fact f2; "a" is a seed alias of "b".   *)
(* "b" may be named "x" or "y", of which "y" brings "a" as an alias.       *)
MCFound == (f1 :> {"a"}) @@ (f2 :> {"a", "b"})
MCSeeds == [t \in Texts |-> IF t = "b" THEN <<"a">> ELSE <<>>]
MCAnswers == [t \in Texts |-> IF t = "b" THEN {"x", "y"} ELSE {"x"}]
MCExtra == [t \in Texts |-> IF t = "y" THEN <<"a">> ELSE <<>>]
RefinerSymmetry == Permutations({r1, r2})
=============================================================================
