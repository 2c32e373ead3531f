---------------------------- MODULE FactLifecycle ----------------------------
(***************************************************************************)
(* What the fact pipeline promises of each fact and its provenance, with   *)
(* no job, queue, transaction or vector in sight.  A fact is created new   *)
(* with at most one source; decisions on new facts are atomic and final;   *)
(* duplicates go only when a keeper has all their sources; keepers get no  *)
(* source but those of duplicates.                                         *)
(***************************************************************************)
CONSTANTS FactIds, Sources

VARIABLES
    status,      \* "none", "new", "stable", "to_delete", "cleaned", "reaped"
    sources      \* the sources of each fact, also when it is gone

lifecycle == <<status, sources>>

Those(st) == {f \in FactIds : status[f] = st}
Become(F, st) == [f \in FactIds |-> IF f \in F THEN st ELSE status[f]]

Create(f) ==
    /\ status[f] = "none"
    /\ status' = Become({f}, "new")
    /\ \/ sources' = sources
       \/ \E s \in Sources : sources' = [sources EXCEPT ![f] = {s}]

(* The duplicates D are given up and the facts P promoted, in one step.    *)
Decide ==
    \E D, P \in SUBSET Those("new") :
        /\ D \cap P = {}
        /\ status' = [f \in FactIds |-> IF f \in D THEN "to_delete"
                                        ELSE IF f \in P THEN "stable"
                                        ELSE status[f]]
        /\ \A f \in FactIds :
              /\ sources[f] \subseteq sources'[f]
              /\ sources'[f] # sources[f] =>
                    /\ status[f] \in {"new", "stable"}
                    /\ sources'[f] \subseteq
                          sources[f] \cup UNION {sources[d] : d \in D}
        /\ \A d \in D : \E w \in FactIds :
              /\ status'[w] \in {"stable", "reaped"}
              /\ sources'[d] \subseteq sources'[w]

(* Only duplicates are cleaned.                                            *)
Clean ==
    /\ \E D \in SUBSET Those("to_delete") : status' = Become(D, "cleaned")
    /\ sources' = sources

(* The safety net may take any fact: it removes old undecided facts, and a *)
(* fact promoted while its statement runs.                                 *)
Reap ==
    /\ \E D \in SUBSET UNION {Those(st) : st \in {"new", "stable", "to_delete"}} :
          status' = Become(D, "reaped")
    /\ sources' = sources

Init == /\ status = [f \in FactIds |-> "none"]
        /\ sources = [f \in FactIds |-> {}]

Next == (\E f \in FactIds : Create(f)) \/ Decide \/ Clean \/ Reap

Spec == Init /\ [][Next]_lifecycle
=============================================================================
