-------------------------- MODULE MCConceptGroups ---------------------------
(* Instances of ConceptGroups for TLC.                                     *)
EXTENDS ConceptGroups, TLC

CONSTANTS A, B, name, i1, i2, e1, m1, m2

(* Two migrations that cross: A into B and B into A.                       *)
MCNameOf == [i \in Ids |-> name]
MCFrom == (m1 :> A) @@ (m2 :> B)
MCTo == (m1 :> B) @@ (m2 :> A)

(* The later fact may be found in two concepts.                            *)
MCMaxConcepts == [f \in Facts |-> f]

(* The contexts may be exchanged along with the migrations.                *)
Exchange == (A :> B) @@ (B :> A) @@ (m1 :> m2) @@ (m2 :> m1)
GroupSymmetry == Permutations({i1, i2}) \cup {Exchange}
=============================================================================
