-------------------------- MODULE MCSourceLifecycle -------------------------
(* Instances of SourceLifecycle for TLC.                                   *)
EXTENDS SourceLifecycle, TLC

CONSTANTS a1, a2

(* The second edition of the page is shorter, and no sentence is found in  *)
(* it; the third is Markdown only.                                         *)
MCChunks == <<{1, 2}, {1}, {}>>
ActorSymmetry == Permutations({a1, a2})
=============================================================================
