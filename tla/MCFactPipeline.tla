--------------------------- MODULE MCFactPipeline ---------------------------
(* Instances of FactPipeline for TLC.                                      *)
EXTENDS FactPipeline, TLC

CONSTANTS s1, s2

(* Two sources whose extractions overlap: "a" and "b" are near duplicates, *)
(* "c" is nearer to "b" than to "a".                                       *)
MCTexts == {"a", "b", "c"}
Symmetric(t, u, n) == (<<t, u>> :> n) @@ (<<u, t>> :> n)
MCScore == Symmetric("a", "b", 2) @@ Symmetric("b", "c", 2)
               @@ Symmetric("a", "c", 1) @@ [p \in MCTexts \X MCTexts |-> 3]

OneSource == {s1}
TwoSources == {s1, s2}

OverlapIds == 1..5
OverlapTextOf == <<"a", "b", "c", "a", "b">>
OverlapYields == (s1 :> {"a", "b"}) @@ (s2 :> {"a", "b", "c"})

(* Room for the rows a repeated attempt creates.                           *)
RetryIds == 1..3
RetryTextOf == <<"a", "a", "a">>
RetryYields == (s1 :> {"a"}) @@ (s2 :> {"a"})
RetrySymmetry == Permutations(TwoSources)   \* the two sources yield the same

(* One source with a near-duplicate pair, while weeks pass.                *)
WeekIds == 1..3
WeekTextOf == <<"a", "b", "a">>
WeekYields == (s1 :> {"a", "b"})

BatchIds == 1..3
BatchTextOf == <<"a", "b", "c">>
BatchYields == (s1 :> {"a", "b", "c"})
=============================================================================
