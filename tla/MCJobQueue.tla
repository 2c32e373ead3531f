----------------------------- MODULE MCJobQueue -----------------------------
(* Instances of JobQueue for TLC.                                          *)
EXTENDS JobQueue, TLC

CONSTANTS w1, w2, j1, u1

TwoWorkers == {w1, w2}
TwoJobs == {j1, u1}         \* u1 has a unique key
OneUnique == {u1}
WorkerSymmetry == Permutations(TwoWorkers)
SameThreshold == {Timeout}
=============================================================================
