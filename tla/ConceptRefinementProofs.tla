----------------------- MODULE ConceptRefinementProofs -----------------------
(* Theorems about ConceptRefinement, for any facts, names, answers of the  *)
(* LLM and refiners, and any number of faults; and, at the end, about      *)
(* ConceptExtraction, for any number of facts and of jobs.                 *)
EXTENDS ConceptRefinement, ConceptExtraction, FiniteSetTheorems,
        WellFoundedInduction, TLAPS

(* What the steps of a task and of a transaction refer to.                 *)
Sound(k) ==
  /\ k.pc = "idle" => k = NoTask
  /\ k.pc # "idle" => k.cand \in Texts
  /\ k.pc \in {"locked", "create"} => k.name \in Texts
  /\ k.pc \in {"merge", "resolve", "chain"} => k.target \in concepts
  /\ k.among \subseteq concepts /\ k.won \subseteq concepts

Steady ==
  /\ \A f \in Facts : writing[f].cached \subseteq Texts \X concepts
  /\ \A r \in Refiners : Sound(task[r])

(* A candidate that a transaction has inserted is there for no other until *)
(* it commits; one that it has found stays.                                *)
Transactions ==
  /\ \A f, g \in Facts : writing[f].made \cap writing[g].made # {} => f = g
  /\ \A f \in Facts, t \in Texts :
       /\ t \in writing[f].made => t \in writing[f].rows
       /\ t \in writing[f].rows =>
            (t \in writing[f].made <=> state[t] = "none")

(* The tasks that wait or run have a candidate, unless they are told.      *)
HasCandidate(k) == k.pc # "idle" /\ ~k.gone => state[k.cand] # "none"

Existing ==
  /\ \A t \in Texts : asks[t] > 0 => state[t] # "none"
  /\ \A r \in Refiners : HasCandidate(task[r])

(* What a task is about to take from a candidate has arrived.              *)
Carries(k) ==
  \A f \in Facts :
    /\ ~k.gone /\ <<f, k.cand>> \in pending
    /\ \/ k.pc = "resolve"
       \/ k.pc = "fork" /\ f \notin k.rest /\ ~k.kept
    => k.cand \in met \/ Arrived(f, k.cand)

Carried == \A r \in Refiners : Carries(task[r])

(* Unless something has failed, a candidate with facts is left to nobody   *)
(* only by a task that has given it up.                                    *)
Handled(t) ==
  \/ t \in left
  \/ asks[t] > 0
  \/ \E r \in Refiners : /\ task[r].cand = t /\ ~task[r].gone
                         /\ task[r].pc \notin {"idle", "chain"}
  \/ \E f \in Facts : writing[f].pc = "chain"

Through(k) == k.pc = "chain" /\ ~k.gone => state[k.cand] = "resolved"

Attended ==
  /\ \A r \in Refiners : Through(task[r])
  /\ faults = 0 => \A t \in Texts :
       state[t] = "open" /\ LinkedFacts(t) # {} => Handled(t)

RefineInv ==
  /\ TypeOK /\ Steady
  /\ Transactions /\ Existing /\ Carried /\ Attended
  /\ NothingStranded

-----------------------------------------------------------------------------
(* Steps of a task that leave the candidates alone                         *)

LEMMA ArrivedStays ==
  ASSUME concepts \subseteq concepts', links \subseteq links',
         routes \subseteq routes', NEW f, NEW t, Arrived(f, t)
  PROVE  Arrived(f, t)'
BY DEF Arrived

LEMMA RefinerMoves ==
  ASSUME RefineInv, NEW r \in Refiners,
         task' \in [Refiners -> Task],
         \A q \in Refiners \ {r} : task'[q] = task[q],
         UNCHANGED <<state, resolved, writing, extracted, met>>,
         pending' \subseteq pending,
         \A f \in Facts, t \in Texts :
           <<f, t>> \in pending \ pending' => Arrived(f, t)',
         concepts \subseteq concepts', concepts' \subseteq Texts,
         aliases' \subseteq concepts' \X Texts,
         links \subseteq links', links' \subseteq Facts \X concepts',
         routes \subseteq routes', routes' \subseteq Texts \X concepts',
         left \subseteq left', left' \subseteq Texts,
         owed' \subseteq concepts',
         faults' \in 0..MaxFaults, faults' = 0 => faults = 0,
         asks' \in [Texts -> Nat],
         \A t \in Texts : asks'[t] > 0 => state[t] # "none",
         Sound(task[r])', HasCandidate(task[r])',
         Carries(task[r])', Through(task[r])',
         faults' = 0 => \A t \in Texts :
           state[t] = "open" /\ LinkedFacts(t) # {} /\ Handled(t)
             => Handled(t)'
  PROVE  RefineInv'
<1> USE DEF RefineInv
<1>1. UNCHANGED <<state, resolved, writing, extracted, met>>
  OBVIOUS
<1>2. TypeOK'
  <2>1. resolved' \in [Texts -> concepts' \cup {NoConcept}]
    BY <1>1 DEF TypeOK
  <2> QED
    BY <1>1, <2>1 DEF TypeOK
<1>3. Steady'
  <2>1. \A q \in Refiners \ {r} : Sound(task[q])'
    BY DEF Steady, Sound
  <2>2. \A f \in Facts : writing'[f].cached \subseteq Texts \X concepts'
    BY <1>1 DEF Steady
  <2> QED
    BY <2>1, <2>2 DEF Steady
<1>4. Transactions'
  BY <1>1 DEF Transactions
<1>5. Existing'
  <2>1. \A q \in Refiners \ {r} : HasCandidate(task[q])'
    BY <1>1 DEF Existing, HasCandidate
  <2> QED
    BY <1>1, <2>1 DEF Existing
<1>6. Carried'
  <2>1. ASSUME NEW q \in Refiners \ {r}
        PROVE  Carries(task[q])'
    BY <1>1, ArrivedStays DEF Carried, Carries
  <2> QED
    BY <2>1 DEF Carried
<1>7. Attended'
  <2>1. \A q \in Refiners \ {r} : Through(task[q])'
    BY <1>1 DEF Attended, Through
  <2>2. \A t : LinkedFacts(t)' \subseteq LinkedFacts(t)
    BY DEF LinkedFacts
  <2> QED
    BY <1>1, <2>1, <2>2 DEF Attended
<1>8. NothingStranded'
  BY <1>1, ArrivedStays DEF NothingStranded, OnItsWay
<1> QED
  BY <1>2, <1>3, <1>4, <1>5, <1>6, <1>7, <1>8

LEMMA NoTaskType ==
  /\ NoTask \in Task /\ NoTask.pc = "idle" /\ ~NoTask.gone
  /\ NoTask.cand = NoConcept
  /\ Sound(NoTask) /\ HasCandidate(NoTask) /\ Carries(NoTask) /\ Through(NoTask)
BY DEF NoTask, Task, Sound, HasCandidate, Carries, Through

LEMMA SameCandidate ==
  ASSUME RefineInv, NEW r \in Refiners,
         task' \in [Refiners -> Task],
         \A q \in Refiners \ {r} : task'[q] = task[q],
         task[r].pc \notin {"idle", "chain"},
         task'[r].pc \notin {"idle", "chain"},
         task'[r].cand = task[r].cand, task'[r].gone = task[r].gone,
         UNCHANGED <<candidates, writing, asks, extracted, met, left, faults>>,
         concepts \subseteq concepts', concepts' \subseteq Texts,
         aliases' \subseteq concepts' \X Texts,
         links \subseteq links', links' \subseteq Facts \X concepts',
         routes \subseteq routes', routes' \subseteq Texts \X concepts',
         owed' \subseteq concepts',
         Sound(task[r])', Carries(task[r])'
  PROVE  RefineInv'
<1>1. HasCandidate(task[r])'
  BY DEF RefineInv, Existing, HasCandidate, candidates
<1>2. Through(task[r])'
  BY DEF Through
<1>3. \A t \in Texts : Handled(t) => Handled(t)'
  BY DEF Handled
<1>4. /\ left' = left /\ left' \subseteq Texts
      /\ faults' = faults /\ faults' \in 0..MaxFaults
      /\ asks' \in [Texts -> Nat]
      /\ \A t \in Texts : asks'[t] > 0 => state[t] # "none"
  BY DEF RefineInv, TypeOK, Existing
<1>5. UNCHANGED <<state, resolved, pending>>
  BY DEF candidates
<1> QED
  BY <1>1, <1>2, <1>3, <1>4, <1>5, RefinerMoves

LEMMA MatchesAreConcepts ==
  ASSUME NEW t PROVE ByAlias(t) \subseteq concepts /\ Matches(t) \subseteq concepts
BY DEF Matches, ByAlias, ByCanonical

LEMMA FirstMatchesAreConcepts ==
  ASSUME NEW ts PROVE FirstMatches(ts) \subseteq concepts
BY MatchesAreConcepts DEF FirstMatches

LEMMA OneIsIn ==
  ASSUME NEW S, Cardinality(S) = 1
  PROVE  (CHOOSE k \in S : TRUE) \in S
<1>1. S # {}
  BY FS_EmptySet
<1> QED
  BY <1>1

LEMMA RouteMoves ==
  ASSUME RefineInv, NEW r \in Refiners, NEW found \in SUBSET concepts,
         NEW otherwise \in {"ask", "create"}, task[r].pc \in {"match", "locked"},
         otherwise = "create" => task[r].name \in Texts,
         Route(r, found, otherwise),
         UNCHANGED <<catalog, candidates, writing, asks, ghosts, owed, faults>>
  PROVE  RefineInv'
<1> DEFINE k == task[r]
<1> USE DEF RefineInv
<1>1. k \in Task /\ k.cand \in Texts /\ k.among \subseteq concepts
      /\ k.won \subseteq concepts /\ concepts \subseteq Texts
  BY DEF TypeOK, Steady, Sound
<1>2. /\ task' \in [Refiners -> Task]
      /\ \A q \in Refiners \ {r} : task'[q] = task[q]
      /\ task'[r].cand = k.cand /\ task'[r].gone = k.gone
      /\ task'[r].won = k.won
      /\ \/ /\ task'[r].pc = "merge" /\ task'[r].target \in concepts
            /\ task'[r].among = k.among
         \/ /\ task'[r].pc = "fork" /\ task'[r].among = found
            /\ task'[r].rest = TaskFacts(r)
         \/ /\ task'[r].pc = otherwise /\ task'[r].name = k.name
            /\ task'[r].among = k.among
  <2>1. CASE Cardinality(found) = 1
    <3> DEFINE c == CHOOSE x \in found : TRUE
               m == [k EXCEPT !.pc = "merge"]
               n == [m EXCEPT !.target = c]
    <3>1. c \in concepts /\ c \in Texts
      BY <1>1, <2>1, OneIsIn
    <3>2. m \in Task /\ m.pc = "merge" /\ m.cand = k.cand /\ m.gone = k.gone
          /\ m.won = k.won /\ m.among = k.among
      BY <1>1 DEF Task
    <3>3. n \in Task /\ n.pc = "merge" /\ n.cand = k.cand /\ n.gone = k.gone
          /\ n.won = k.won /\ n.among = k.among /\ n.target = c
      BY <3>1, <3>2 DEF Task
    <3>4. task' = [task EXCEPT ![r] = n]
      BY <2>1 DEF Route, TypeOK
    <3> HIDE DEF n, c
    <3> QED
      BY <3>1, <3>3, <3>4 DEF TypeOK
  <2>2. CASE Cardinality(found) # 1 /\ found # {}
    <3> DEFINE m == [k EXCEPT !.pc = "fork"]
               n == [m EXCEPT !.among = found]
               o == [n EXCEPT !.rest = TaskFacts(r)]
    <3>1. found \in SUBSET Texts /\ TaskFacts(r) \in SUBSET Facts
      BY <1>1 DEF TaskFacts, LinkedFacts
    <3>2. m \in Task /\ m.pc = "fork" /\ m.cand = k.cand /\ m.gone = k.gone
          /\ m.won = k.won
      BY <1>1 DEF Task
    <3>3. n \in Task /\ n.pc = "fork" /\ n.cand = k.cand /\ n.gone = k.gone
          /\ n.won = k.won /\ n.among = found
      BY <3>1, <3>2 DEF Task
    <3>4. o \in Task /\ o.pc = "fork" /\ o.cand = k.cand /\ o.gone = k.gone
          /\ o.won = k.won /\ o.among = found /\ o.rest = TaskFacts(r)
      BY <3>1, <3>3 DEF Task
    <3>5. task' = [task EXCEPT ![r] = o]
      BY <2>2 DEF Route, TypeOK
    <3> HIDE DEF o
    <3> QED
      BY <3>4, <3>5 DEF TypeOK
  <2>3. CASE found = {}
    <3> DEFINE m == [k EXCEPT !.pc = otherwise]
    <3>1. m \in Task /\ m.pc = otherwise /\ m.cand = k.cand /\ m.gone = k.gone
          /\ m.won = k.won /\ m.among = k.among /\ m.name = k.name
      BY <1>1 DEF Task
    <3>2. task' = [task EXCEPT ![r] = m]
      <4>1. Cardinality(found) = 0
        BY <2>3, FS_EmptySet
      <4>2. Cardinality(found) # 1
        BY <4>1
      <4> QED
        BY <2>3, <4>2 DEF Route, TypeOK
    <3> HIDE DEF m
    <3> QED
      BY <3>1, <3>2 DEF TypeOK
  <2> QED
    BY <2>1, <2>2, <2>3
<1>3. task'[r].pc \notin {"idle", "chain", "resolve"}
  BY <1>2
<1>4. Sound(task[r])'
  BY <1>1, <1>2 DEF Sound, catalog
<1>5. Carries(task[r])'
  BY <1>2, <1>3 DEF Carries, TaskFacts, LinkedFacts, candidates
<1> QED
  BY <1>2, <1>3, <1>4, <1>5, SameCandidate DEF catalog, ghosts, TypeOK

LEMMA MatchInv ==
  ASSUME RefineInv, NEW r \in Refiners, MatchBefore(r) \/ MatchAfter(r)
  PROVE  RefineInv'
<1>1. CASE MatchBefore(r)
  <2>1. FirstMatches(<<task[r].cand>> \o Seeds[task[r].cand]) \in SUBSET concepts
    BY FirstMatchesAreConcepts
  <2> QED
    BY <1>1, <2>1, RouteMoves DEF MatchBefore
<1>2. CASE MatchAfter(r)
  <2> DEFINE found == IF task[r].name \in concepts THEN {task[r].name}
                      ELSE FirstMatches(Extra[task[r].name])
  <2>1. found \in SUBSET concepts
    BY FirstMatchesAreConcepts
  <2>2. task[r].pc = "locked" /\ task[r].name \in Texts
    BY <1>2 DEF MatchAfter, RefineInv, Steady, Sound
  <2>3. Route(r, found, "create")
    BY <1>2 DEF MatchAfter
  <2> HIDE DEF found
  <2> QED
    BY <1>2, <2>1, <2>2, <2>3, RouteMoves DEF MatchAfter
<1> QED
  BY <1>1, <1>2

LEMMA AskInv ==
  ASSUME RefineInv, NEW r \in Refiners, Ask(r)
  PROVE  RefineInv'
<1> USE DEF RefineInv
<1>1. /\ task[r] \in Task /\ task[r].pc = "ask" /\ Sound(task[r])
  BY DEF Ask, TypeOK, Steady
<1>2. PICK name \in Answers[task[r].cand] :
        task' = [task EXCEPT ![r].pc = "locked", ![r].name = name]
  BY DEF Ask
<1>3. name \in Texts
  BY <1>1, <1>2, NamesAssumption DEF Sound
<1> DEFINE m == [task[r] EXCEPT !.pc = "locked"]
           n == [m EXCEPT !.name = name]
<1>4. m \in Task /\ m.pc = "locked" /\ m.cand = task[r].cand
      /\ m.gone = task[r].gone /\ m.won = task[r].won /\ m.among = task[r].among
  BY <1>1 DEF Task
<1>5. n \in Task /\ n.pc = "locked" /\ n.cand = task[r].cand
      /\ n.gone = task[r].gone /\ n.won = task[r].won /\ n.among = task[r].among
      /\ n.name = name
  BY <1>3, <1>4 DEF Task
<1>6. task' = [task EXCEPT ![r] = n]
  BY <1>2 DEF TypeOK
<1> HIDE DEF n
<1>7. /\ task' \in [Refiners -> Task] /\ task'[r] = n
      /\ \A q \in Refiners \ {r} : task'[q] = task[q]
  BY <1>5, <1>6 DEF TypeOK
<1>8. UNCHANGED <<catalog, candidates, writing, asks, ghosts, owed, faults>>
  BY DEF Ask
<1>9. Sound(task[r])' /\ Carries(task[r])'
  BY <1>1, <1>3, <1>5, <1>7, <1>8 DEF Sound, Carries, catalog
<1> QED
  BY <1>1, <1>5, <1>7, <1>8, <1>9, SameCandidate DEF catalog, ghosts, TypeOK

LEMMA AliasTypes ==
  ASSUME RefineInv, NEW r \in Refiners, task[r].pc \in {"create", "merge"}
  PROVE  /\ NewAliases(r) \subseteq Texts
         /\ task[r].pc = "create" =>
              {task[r].name, task[r].cand} \cup Range(Seeds[task[r].cand])
                \cup Range(Extra[task[r].name]) \subseteq Texts
<1>1. /\ task[r].cand \in Texts /\ task[r].name \in Texts \cup {NoConcept}
      /\ task[r].pc = "create" => task[r].name \in Texts
  BY DEF RefineInv, Steady, Sound, TypeOK, Task
<1>2. \A t \in Texts : Range(Seeds[t]) \subseteq Texts
                       /\ Range(Extra[t]) \subseteq Texts
  <2>1. ASSUME NEW q \in Seq(Texts)
        PROVE  Range(q) \subseteq Texts
    BY DEF Range
  <2> QED
    BY <2>1, NamesAssumption
<1> QED
  BY <1>1, <1>2 DEF NewAliases

LEMMA CreateInv ==
  ASSUME RefineInv, NEW r \in Refiners, Create(r)
  PROVE  RefineInv'
<1> USE DEF RefineInv
<1>1. /\ task[r] \in Task /\ task[r].pc = "create" /\ Sound(task[r])
      /\ task[r].name \in Texts
  BY DEF Create, TypeOK, Steady, Sound
<1> DEFINE m == [task[r] EXCEPT !.pc = "merge"]
           n == [m EXCEPT !.target = task[r].name]
<1>2. m \in Task /\ m.pc = "merge" /\ m.cand = task[r].cand
      /\ m.gone = task[r].gone /\ m.won = task[r].won /\ m.among = task[r].among
  BY <1>1 DEF Task
<1>3. n \in Task /\ n.pc = "merge" /\ n.cand = task[r].cand
      /\ n.gone = task[r].gone /\ n.won = task[r].won /\ n.among = task[r].among
      /\ n.target = task[r].name
  BY <1>1, <1>2 DEF Task
<1>4. task' = [task EXCEPT ![r] = n]
  BY DEF Create, TypeOK
<1> HIDE DEF n
<1>5. /\ task' \in [Refiners -> Task] /\ task'[r] = n
      /\ \A q \in Refiners \ {r} : task'[q] = task[q]
  BY <1>3, <1>4 DEF TypeOK
<1>6. /\ UNCHANGED <<links, candidates, writing, asks, ghosts, owed, faults>>
      /\ concepts' = concepts \cup {task[r].name}
  BY DEF Create
<1>7. /\ concepts \subseteq concepts' /\ concepts' \subseteq Texts
      /\ links' \subseteq Facts \X concepts' /\ routes' \subseteq Texts \X concepts'
      /\ owed' \subseteq concepts'
  BY <1>1, <1>6 DEF TypeOK, ghosts
<1>8. aliases' \subseteq concepts' \X Texts
  <2> DEFINE N == {task[r].name, task[r].cand} \cup Range(Seeds[task[r].cand])
                    \cup Range(Extra[task[r].name])
  <2>1. N \subseteq Texts
    BY <1>1, AliasTypes
  <2>2. aliases' = aliases \/ aliases' = aliases \cup ({task[r].name} \X N)
    BY DEF Create
  <2> HIDE DEF N
  <2> QED
    BY <1>6, <2>1, <2>2 DEF TypeOK
<1>9. Sound(task[r])' /\ Carries(task[r])'
  BY <1>1, <1>3, <1>5, <1>6 DEF Sound, Carries
<1> QED
  BY <1>1, <1>3, <1>5, <1>6, <1>7, <1>8, <1>9, SameCandidate DEF ghosts

LEMMA MergeInv ==
  ASSUME RefineInv, NEW r \in Refiners, Merge(r)
  PROVE  RefineInv'
<1> USE DEF RefineInv
<1> DEFINE t == task[r].cand
           c == task[r].target
<1>1. /\ task[r] \in Task /\ task[r].pc = "merge" /\ Sound(task[r])
      /\ t \in Texts /\ c \in concepts
  BY DEF Merge, TypeOK, Steady, Sound
<1> DEFINE m == [task[r] EXCEPT !.pc = "resolve"]
<1>2. m \in Task /\ m.pc = "resolve" /\ m.cand = t /\ m.target = c
      /\ m.gone = task[r].gone /\ m.won = task[r].won /\ m.among = task[r].among
  BY <1>1 DEF Task
<1>3. task' = [task EXCEPT ![r] = m]
  BY DEF Merge, Steps, TypeOK
<1> HIDE DEF m
<1>4. /\ task' \in [Refiners -> Task] /\ task'[r] = m
      /\ \A q \in Refiners \ {r} : task'[q] = task[q]
  BY <1>2, <1>3 DEF TypeOK
<1>5. /\ UNCHANGED <<concepts, candidates, writing, asks, extracted, met, left,
                     faults>>
      /\ links' = links \cup (TaskFacts(r) \X {c})
      /\ routes' = routes \cup {<<t, c>>}
  BY DEF Merge, Copied
<1>6. /\ links' \subseteq Facts \X concepts' /\ routes' \subseteq Texts \X concepts'
      /\ owed' \subseteq concepts'
  <2>1. owed' \subseteq owed \cup {c}
    BY DEF Merge
  <2>2. TaskFacts(r) \subseteq Facts
    BY DEF TaskFacts, LinkedFacts
  <2> QED
    BY <1>1, <1>5, <2>1, <2>2 DEF TypeOK
<1>7. aliases' \subseteq concepts' \X Texts
  <2>1. NewAliases(r) \subseteq Texts
    BY <1>1, AliasTypes
  <2> QED
    BY <1>1, <1>5, <2>1 DEF Merge, TypeOK
<1>8. Sound(task[r])'
  BY <1>1, <1>2, <1>4, <1>5 DEF Sound
<1>9. Carries(task[r])'
  <2>1. ASSUME NEW f \in Facts, NEW u, u = t, ~task[r].gone,
               <<f, u>> \in pending
        PROVE  Arrived(f, u)'
    <3>1. f \in TaskFacts(r)
      BY <2>1 DEF TaskFacts, LinkedFacts
    <3>2. c \in concepts' /\ <<u, c>> \in routes' /\ <<f, c>> \in links'
      BY <1>1, <1>5, <2>1, <3>1
    <3> QED
      BY <3>2 DEF Arrived
  <2>2. pending' = pending
    BY <1>5 DEF candidates
  <2> QED
    BY <1>2, <1>4, <2>1, <2>2 DEF Carries
<1> QED
  BY <1>1, <1>2, <1>4, <1>5, <1>6, <1>7, <1>8, <1>9, SameCandidate DEF TypeOK

(* A task comes to its end, having asked again or not.                     *)
LEMMA DoneMoves ==
  ASSUME RefineInv, NEW r \in Refiners, Done(r), task[r].pc # "idle",
         UNCHANGED <<catalog, candidates, writing, extracted, routes, met>>,
         left \subseteq left', left' \subseteq Texts, owed' \subseteq concepts,
         asks' = asks \/ Again(r),
         \/ Fault
         \/ faults' = faults /\ task[r].cand \in left'
         \/ faults' = faults /\ task[r].pc = "chain"
  PROVE  RefineInv'
<1> USE DEF RefineInv
<1>1. /\ task' \in [Refiners -> Task] /\ task'[r] = NoTask
      /\ \A q \in Refiners \ {r} : task'[q] = task[q]
  BY NoTaskType DEF Done, TypeOK
<1>2. task[r].cand \in Texts /\ HasCandidate(task[r]) /\ Through(task[r])
  BY DEF Steady, Sound, Existing, Attended
<1>3. /\ asks' \in [Texts -> Nat]
      /\ \A t \in Texts : asks'[t] > 0 => state[t] # "none"
      /\ \A t \in Texts : asks[t] > 0 => asks'[t] > 0
  BY <1>2 DEF Again, TypeOK, Existing, HasCandidate
<1>4. faults' \in 0..MaxFaults /\ (faults' = 0 => faults = 0)
  BY BoundsAssumption DEF Fault, TypeOK
<1>5. /\ Sound(task[r])' /\ HasCandidate(task[r])'
      /\ Carries(task[r])' /\ Through(task[r])'
  <2>1. NoTask.pc = "idle" /\ NoTask.among = {} /\ NoTask.won = {}
    BY DEF NoTask
  <2> QED
    BY <1>1, <2>1 DEF Sound, HasCandidate, Carries, Through
<1>6. ASSUME faults' = 0, NEW t \in Texts, state[t] = "open", Handled(t)
      PROVE  Handled(t)'
  <2>1. faults' # 0 \/ task[r].cand \in left' \/ task[r].pc = "chain"
    BY BoundsAssumption DEF Fault, TypeOK
  <2>2. CASE /\ task[r].cand = t /\ ~task[r].gone
             /\ task[r].pc \notin {"idle", "chain"}
    BY <1>6, <2>1, <2>2 DEF Handled
  <2>3. CASE ~(/\ task[r].cand = t /\ ~task[r].gone
               /\ task[r].pc \notin {"idle", "chain"})
    BY <1>1, <1>3, <1>6, <2>3 DEF Handled
  <2> QED
    BY <2>2, <2>3
<1>7. /\ concepts' = concepts /\ aliases' = aliases /\ links' = links
      /\ routes' = routes
      /\ UNCHANGED <<state, resolved, pending>>
  BY DEF catalog, candidates
<1> QED
  BY <1>1, <1>3, <1>4, <1>5, <1>6, <1>7, RefinerMoves DEF TypeOK

LEMMA EndsInv ==
  ASSUME RefineInv, NEW r \in Refiners, Leave(r) \/ Chain(r) \/ Crash(r)
  PROVE  RefineInv'
<1> USE DEF RefineInv
<1>1. CASE Leave(r)
  <2>1. task[r].pc # "idle" /\ task[r].cand \in Texts
    BY <1>1 DEF Leave, Steady, Sound
  <2>2. /\ left \subseteq left' /\ left' \subseteq Texts /\ task[r].cand \in left'
        /\ owed' \subseteq concepts
    BY <1>1, <2>1 DEF Leave, TypeOK
  <2> QED
    BY <1>1, <2>1, <2>2, DoneMoves DEF Leave, NoFault
<1>2. CASE Chain(r)
  <2>1. task[r].pc = "chain" /\ owed' \subseteq concepts
    BY <1>2 DEF Chain, TypeOK
  <2> QED
    BY <1>2, <2>1, DoneMoves DEF Chain, NoFault, ghosts, TypeOK
<1>3. CASE Crash(r)
  BY <1>3, DoneMoves DEF Crash, ghosts, TypeOK
<1> QED
  BY <1>1, <1>2, <1>3

LEMMA LoadInv ==
  ASSUME RefineInv, NEW r \in Refiners, NEW t \in Texts, Load(r, t)
  PROVE  RefineInv'
<1> USE DEF RefineInv
<1>1. task[r] = NoTask /\ asks[t] > 0 /\ state[t] # "none"
  BY DEF Load, Steady, Sound, Existing
<1>2. PICK k \in Task :
         /\ task' = [task EXCEPT ![r] = k]
         /\ k.cand = t /\ ~k.gone /\ k.among = {} /\ k.won = {}
         /\ IF state[t] = "resolved" THEN k.pc = "chain" /\ k.target = resolved[t]
                                     ELSE k.pc = "match"
  <2>1. CASE state[t] = "resolved"
    <3> DEFINE m == [NoTask EXCEPT !.pc = "chain"]
               n == [m EXCEPT !.cand = t]
               o == [n EXCEPT !.target = resolved[t]]
    <3>1. m \in Task /\ m.pc = "chain" /\ ~m.gone /\ m.among = {} /\ m.won = {}
      BY DEF NoTask, Task
    <3>2. n \in Task /\ n.pc = "chain" /\ ~n.gone /\ n.among = {} /\ n.won = {}
          /\ n.cand = t
      BY <3>1 DEF Task
    <3>3. resolved[t] \in Texts \cup {NoConcept}
      BY DEF TypeOK
    <3>4. o \in Task /\ o.pc = "chain" /\ ~o.gone /\ o.among = {} /\ o.won = {}
          /\ o.cand = t /\ o.target = resolved[t]
      BY <3>2, <3>3 DEF Task
    <3>5. task' = [task EXCEPT ![r] = o]
      BY <1>1, <2>1 DEF Load, TypeOK
    <3> HIDE DEF o
    <3> QED
      BY <2>1, <3>4, <3>5
  <2>2. CASE state[t] # "resolved"
    <3> DEFINE m == [NoTask EXCEPT !.pc = "match"]
               n == [m EXCEPT !.cand = t]
    <3>1. m \in Task /\ m.pc = "match" /\ ~m.gone /\ m.among = {} /\ m.won = {}
      BY DEF NoTask, Task
    <3>2. n \in Task /\ n.pc = "match" /\ ~n.gone /\ n.among = {} /\ n.won = {}
          /\ n.cand = t
      BY <3>1 DEF Task
    <3>3. task' = [task EXCEPT ![r] = n]
      BY <1>1, <2>2 DEF Load, TypeOK
    <3> HIDE DEF n
    <3> QED
      BY <2>2, <3>2, <3>3
  <2> QED
    BY <2>1, <2>2
<1>3. /\ task' \in [Refiners -> Task] /\ task'[r] = k
      /\ \A q \in Refiners \ {r} : task'[q] = task[q]
  BY <1>2 DEF TypeOK
<1>4. /\ UNCHANGED <<catalog, candidates, writing, ghosts, owed, faults>>
      /\ asks' = [asks EXCEPT ![t] = asks[t] - 1]
  BY DEF Load
<1>5. /\ UNCHANGED <<concepts, aliases, links, state, resolved, pending>>
      /\ UNCHANGED <<extracted, routes, met, left>>
  BY <1>4 DEF catalog, candidates, ghosts
<1>6. /\ asks' \in [Texts -> Nat]
      /\ \A u \in Texts : asks'[u] > 0 => state[u] # "none"
      /\ \A u \in Texts \ {t} : asks'[u] = asks[u]
  BY <1>1, <1>4 DEF TypeOK, Existing
<1>7. Sound(task[r])'
  <2>1. state[t] = "resolved" => resolved[t] \in concepts
    BY DEF TypeOK
  <2> QED
    BY <1>2, <1>3, <1>5, <2>1 DEF Sound
<1>8. HasCandidate(task[r])' /\ Carries(task[r])' /\ Through(task[r])'
  BY <1>1, <1>2, <1>3, <1>5 DEF HasCandidate, Carries, Through
<1>9. ASSUME NEW u \in Texts, state[u] = "open", Handled(u)
      PROVE  Handled(u)'
  <2>1. CASE u = t
    BY <1>2, <1>3, <1>9, <2>1 DEF Handled
  <2>2. CASE u # t
    BY <1>1, <1>3, <1>4, <1>5, <1>6, <1>9, <2>2, NoTaskType DEF Handled
  <2> QED
    BY <2>1, <2>2
<1> QED
  BY <1>3, <1>4, <1>5, <1>6, <1>7, <1>8, <1>9, RefinerMoves DEF TypeOK

-----------------------------------------------------------------------------
(* Steps that take facts from a candidate                                  *)

LEMMA RouteFactInv ==
  ASSUME RefineInv, NEW r \in Refiners, NEW f \in Facts, RouteFact(r, f)
  PROVE  RefineInv'
<1> USE DEF RefineInv
<1>1. /\ task[r] \in Task /\ task[r].pc = "fork" /\ Sound(task[r])
      /\ task[r].cand \in Texts /\ f \in task[r].rest
      /\ Carries(task[r]) /\ HasCandidate(task[r])
  BY DEF RouteFact, TypeOK, Steady, Sound, Carried, Existing
<1>2. /\ UNCHANGED <<concepts, aliases, state, resolved, writing, asks>>
      /\ UNCHANGED <<extracted, met, left, faults>>
  BY DEF RouteFact
<1> DEFINE Grown ==
      /\ links \subseteq links' /\ routes \subseteq routes'
      /\ links' \subseteq Facts \X concepts' /\ routes' \subseteq Texts \X concepts'
      /\ owed' \subseteq concepts'
<1>3. Grown
  <2>1. ASSUME NEW k \in ByAlias(task[r].cand),
               links' = links \cup {<<f, k>>},
               owed' = IF <<f, k>> \in links THEN owed ELSE owed \cup {k},
               routes' = routes \cup {<<task[r].cand, k>>}
        PROVE  Grown
    <3>1. k \in concepts
      BY MatchesAreConcepts
    <3> QED
      BY <1>1, <1>2, <2>1, <3>1 DEF TypeOK
  <2>2. CASE UNCHANGED <<links, owed, pending, routes>>
    BY <1>2, <2>2 DEF TypeOK
  <2> QED
    BY <2>1, <2>2 DEF RouteFact
<1> DEFINE Suits(k) ==
         /\ task' = [task EXCEPT ![r] = k] /\ k.pc = "fork"
         /\ k.cand = task[r].cand /\ k.gone = task[r].gone
         /\ k.among = task[r].among /\ k.won \subseteq concepts
         /\ k.rest = task[r].rest \ {f} /\ k.kept \in {TRUE, task[r].kept}
         /\ k.kept \/ (<<f, k.cand>> \in pending' => k.gone)
<1>4. PICK k \in Task : Suits(k)
  <2> DEFINE m == [task[r] EXCEPT !.rest = task[r].rest \ {f}]
  <2>1. /\ m \in Task /\ m.pc = "fork" /\ m.cand = task[r].cand
        /\ m.gone = task[r].gone /\ m.among = task[r].among
        /\ m.won = task[r].won /\ m.kept = task[r].kept
        /\ m.rest = task[r].rest \ {f}
    BY <1>1 DEF Task
  <2>2. ASSUME NEW c \in ByAlias(task[r].cand),
               task' = [task EXCEPT ![r].rest = @ \ {f},
                                    ![r].won = @ \cup {c}],
               pending' = IF task[r].gone THEN pending
                          ELSE pending \ {<<f, task[r].cand>>}
        PROVE  \E k \in Task : Suits(k)
    <3> DEFINE n == [m EXCEPT !.won = task[r].won \cup {c}]
    <3>1. c \in concepts /\ c \in Texts
      BY MatchesAreConcepts DEF TypeOK
    <3>2. task[r].won \subseteq concepts /\ task[r].won \cup {c} \in SUBSET Texts
      BY <1>1, <3>1 DEF Sound, TypeOK
    <3>3. /\ n \in Task /\ n.pc = "fork" /\ n.cand = task[r].cand
          /\ n.gone = task[r].gone /\ n.among = task[r].among
          /\ n.won = task[r].won \cup {c} /\ n.kept = task[r].kept
          /\ n.rest = task[r].rest \ {f}
      <4> HIDE DEF m
      <4> QED
        BY <2>1, <3>2 DEF Task
    <3>4. task' = [task EXCEPT ![r] = n]
      BY <2>2 DEF TypeOK, Task
    <3> HIDE DEF n
    <3> QED
      BY <2>2, <3>1, <3>2, <3>3, <3>4
  <2>3. ASSUME task' = [task EXCEPT ![r].rest = @ \ {f}, ![r].kept = TRUE]
        PROVE  \E k \in Task : Suits(k)
    <3> DEFINE n == [m EXCEPT !.kept = TRUE]
    <3>1. /\ n \in Task /\ n.pc = "fork" /\ n.cand = task[r].cand
          /\ n.gone = task[r].gone /\ n.among = task[r].among
          /\ n.won = task[r].won /\ n.kept = TRUE
          /\ n.rest = task[r].rest \ {f}
      <4> HIDE DEF m
      <4> QED
        BY <2>1 DEF Task
    <3>2. task' = [task EXCEPT ![r] = n]
      BY <2>3 DEF TypeOK, Task
    <3> HIDE DEF n
    <3> QED
      BY <1>1, <3>1, <3>2 DEF Sound
  <2> QED
    BY <2>2, <2>3 DEF RouteFact
<1>5. /\ task' \in [Refiners -> Task] /\ task'[r] = k
      /\ \A q \in Refiners \ {r} : task'[q] = task[q]
  BY <1>4 DEF TypeOK
<1>6. /\ pending' \subseteq pending
      /\ \A g \in Facts, u \in Texts :
           <<g, u>> \in pending \ pending' => Arrived(g, u)'
  <2>1. ASSUME NEW c \in ByAlias(task[r].cand), links' = links \cup {<<f, c>>},
               pending' = IF task[r].gone THEN pending
                          ELSE pending \ {<<f, task[r].cand>>},
               routes' = routes \cup {<<task[r].cand, c>>},
               NEW g \in Facts, NEW u \in Texts, <<g, u>> \in pending \ pending'
        PROVE  Arrived(g, u)'
    <3>1. g = f /\ u = task[r].cand
      BY <2>1
    <3>2. c \in concepts' /\ <<u, c>> \in routes' /\ <<g, c>> \in links'
      BY <1>2, <2>1, <3>1, MatchesAreConcepts
    <3> QED
      BY <3>2 DEF Arrived
  <2> QED
    BY <2>1 DEF RouteFact
<1>7. Sound(task[r])' /\ HasCandidate(task[r])' /\ Through(task[r])'
  BY <1>1, <1>2, <1>4, <1>5 DEF Sound, HasCandidate, Through
<1>8. Carries(task[r])'
  <2>1. ASSUME NEW g \in Facts, ~k.gone, <<g, k.cand>> \in pending',
               g \notin k.rest, ~k.kept
        PROVE  k.cand \in met' \/ Arrived(g, k.cand)'
    <3>1. g # f /\ g \notin task[r].rest /\ ~task[r].kept
      BY <1>4, <2>1
    <3>2. k.cand \in met \/ Arrived(g, k.cand)
      BY <1>1, <1>4, <1>6, <2>1, <3>1 DEF Carries
    <3> QED
      BY <1>2, <1>3, <3>2, ArrivedStays
  <2> QED
    BY <1>4, <1>5, <2>1 DEF Carries
<1>9. ASSUME NEW u \in Texts, Handled(u)
      PROVE  Handled(u)'
  BY <1>1, <1>2, <1>4, <1>5, <1>9 DEF Handled
<1>10. /\ left' = left /\ faults' = faults /\ asks' = asks
       /\ concepts' = concepts /\ aliases' = aliases
  BY <1>2
<1> QED
  BY <1>2, <1>3, <1>5, <1>6, <1>7, <1>8, <1>9, <1>10, RefinerMoves
     DEF TypeOK, Existing

(* A task settles candidate t, which is resolved or deleted and loses all  *)
(* its facts: they have arrived.                                           *)
Settling(t, end, c) ==
  /\ (c = NoConcept) <=> (end = "none")
  /\ state[t] # "none"
  /\ state' = [state EXCEPT ![t] = end]
  /\ resolved' = [resolved EXCEPT ![t] = c]
  /\ pending' = {p \in pending : p[2] # t}
  /\ \A f \in Facts : <<f, t>> \in pending => t \in met \/ Arrived(f, t)
  /\ end = "none" => asks'[t] = 0
                      /\ \A f \in Facts : t \notin writing[f].rows
  /\ UNCHANGED <<concepts, links, writing, extracted, routes, met, owed, faults>>
  /\ aliases' \subseteq concepts \X Texts
  /\ left \subseteq left' /\ left' \subseteq Texts
  /\ asks' \in [Texts -> Nat] /\ \A u \in Texts \ {t} : asks'[u] = asks[u]
  /\ task' \in [Refiners -> Task]
  /\ \A q \in Refiners :
       \/ Sound(task[q])' /\ HasCandidate(task[q])'
            /\ Carries(task[q])' /\ Through(task[q])'
            /\ task[q].cand = t
       \/ task'[q] = task[q] /\ (end = "none" => task[q].cand # t)

LEMMA Settles ==
  ASSUME RefineInv, NEW t \in Texts, NEW end \in {"none", "resolved"},
         NEW c \in concepts \cup {NoConcept}, Settling(t, end, c)
  PROVE  RefineInv'
<1> USE DEF Settling
<1> USE DEF RefineInv
<1>1. /\ \A u \in Texts \ {t} : state'[u] = state[u] /\ resolved'[u] = resolved[u]
      /\ state'[t] = end /\ resolved'[t] = c
      /\ pending' \subseteq pending
      /\ \A f \in Facts, u \in Texts \ {t} :
           <<f, u>> \in pending' <=> <<f, u>> \in pending
      /\ \A f \in Facts : <<f, t>> \notin pending'
  BY DEF TypeOK
<1>2. TypeOK'
  <2>1. /\ state' \in [Texts -> {"none", "open", "resolved"}]
        /\ resolved' \in [Texts -> concepts' \cup {NoConcept}]
    BY DEF TypeOK
  <2>2. \A u \in Texts : (state'[u] = "resolved") = (resolved'[u] # NoConcept)
    BY <1>1 DEF TypeOK
  <2> QED
    BY <1>1, <2>1, <2>2 DEF TypeOK
<1>3. \A q \in Refiners : /\ Sound(task[q])' /\ HasCandidate(task[q])'
                          /\ Carries(task[q])' /\ Through(task[q])'
  <2>1. ASSUME NEW q \in Refiners, task'[q] = task[q],
               end = "none" => task[q].cand # t
        PROVE  /\ Sound(task[q])' /\ HasCandidate(task[q])'
               /\ Carries(task[q])' /\ Through(task[q])'
    <3>1. /\ Sound(task[q]) /\ HasCandidate(task[q])
          /\ Carries(task[q]) /\ Through(task[q])
      BY DEF Steady, Existing, Carried, Attended
    <3>2. Sound(task[q])'
      BY <2>1, <3>1 DEF Sound
    <3>3. HasCandidate(task[q])' /\ Through(task[q])'
      BY <1>1, <2>1, <3>1 DEF Sound, HasCandidate, Through
    <3>4. Carries(task[q])'
      BY <1>1, <2>1, <3>1, ArrivedStays DEF Carries
    <3> QED
      BY <3>2, <3>3, <3>4
  <2> QED
    BY <2>1
<1>4. Steady'
  BY <1>3 DEF Steady
<1>5. Transactions'
  BY <1>1 DEF Transactions
<1>6. Existing'
  <2>1. \A u \in Texts : asks'[u] > 0 => state'[u] # "none"
    BY <1>1 DEF Existing
  <2> QED
    BY <1>3, <2>1 DEF Existing
<1>7. Carried'
  BY <1>3 DEF Carried
<1>8. Attended'
  <2>1. ASSUME faults' = 0, NEW u \in Texts, state'[u] = "open",
               LinkedFacts(u)' # {}
        PROVE  Handled(u)'
    <3>1. u # t /\ state[u] = "open" /\ LinkedFacts(u) # {}
      BY <1>1, <2>1 DEF LinkedFacts
    <3>2. Handled(u)
      BY <2>1, <3>1 DEF Attended
    <3>3. \A q \in Refiners : task[q].cand = u => task'[q] = task[q]
      BY <3>1
    <3> QED
      BY <3>1, <3>2, <3>3 DEF Handled
  <2> QED
    BY <1>3, <2>1 DEF Attended
<1>9. NothingStranded'
  <2>1. ASSUME NEW f \in Facts, NEW u \in Texts \ met, <<f, u>> \in extracted
        PROVE  OnItsWay(f, u)' \/ Arrived(f, u)'
    <3>1. OnItsWay(f, u) \/ Arrived(f, u)
      BY <2>1 DEF NothingStranded
    <3>2. CASE u = t
      BY <2>1, <3>1, <3>2, ArrivedStays DEF OnItsWay
    <3>3. CASE u # t
      BY <1>1, <2>1, <3>1, <3>3, ArrivedStays DEF OnItsWay
    <3> QED
      BY <3>2, <3>3
  <2> QED
    BY <2>1 DEF NothingStranded
<1> QED
  BY <1>2, <1>4, <1>5, <1>6, <1>7, <1>8, <1>9

LEMMA ResolveInv ==
  ASSUME RefineInv, NEW r \in Refiners, Resolve(r)
  PROVE  RefineInv'
<1> USE DEF RefineInv
<1>1. /\ task[r] \in Task /\ task[r].pc = "resolve" /\ task[r].cand \in Texts
      /\ Sound(task[r]) /\ HasCandidate(task[r]) /\ Carries(task[r])
      /\ task[r].target \in concepts
  BY DEF Resolve, TypeOK, Steady, Sound, Existing, Carried
<1> DEFINE m == [task[r] EXCEPT !.pc = "chain"]
<1>2. m \in Task /\ m.pc = "chain" /\ m.cand = task[r].cand
      /\ m.target = task[r].target /\ m.gone = task[r].gone
      /\ m.won = task[r].won /\ m.among = task[r].among
  BY <1>1 DEF Task
<1>3. task' = [task EXCEPT ![r] = m]
  BY DEF Resolve, Steps, TypeOK
<1> HIDE DEF m
<1>4. /\ task' \in [Refiners -> Task] /\ task'[r] = m
      /\ \A q \in Refiners \ {r} : task'[q] = task[q]
  BY <1>2, <1>3 DEF TypeOK
<1>5. /\ UNCHANGED <<concepts, aliases, links, writing, asks, extracted>>
      /\ UNCHANGED <<routes, met, left, owed, faults>>
  BY DEF Resolve, catalog, ghosts
<1>6. Sound(task[r])' /\ Carries(task[r])'
  BY <1>1, <1>2, <1>4, <1>5 DEF Sound, Carries
<1>7. /\ left' \subseteq Texts /\ asks' \in [Texts -> Nat]
      /\ aliases' \subseteq concepts \X Texts
  BY <1>5 DEF TypeOK
<1>8. CASE task[r].gone
  <2>1. UNCHANGED <<state, resolved, pending>>
    BY <1>8 DEF Resolve, candidates
  <2>2. HasCandidate(task[r])' /\ Through(task[r])'
    BY <1>2, <1>4, <1>8 DEF HasCandidate, Through
  <2>3. ASSUME NEW u \in Texts, Handled(u)
        PROVE  Handled(u)'
    BY <1>1, <1>4, <1>5, <1>8, <2>3 DEF Handled
  <2> QED
    BY <1>4, <1>5, <1>6, <1>7, <2>1, <2>2, <2>3, RefinerMoves
       DEF TypeOK, Existing
<1>9. CASE ~task[r].gone
  <2>1. /\ state' = [state EXCEPT ![task[r].cand] = "resolved"]
        /\ resolved' = [resolved EXCEPT ![task[r].cand] = task[r].target]
        /\ pending' = {p \in pending : p[2] # task[r].cand}
    BY <1>9 DEF Resolve
  <2>2. HasCandidate(task[r])' /\ Through(task[r])'
    BY <1>1, <1>2, <1>4, <2>1 DEF HasCandidate, Through, TypeOK
  <2>3. task[r].target # NoConcept
    BY <1>1, NamesAssumption DEF TypeOK
  <2>4. \A f \in Facts : <<f, task[r].cand>> \in pending =>
                           task[r].cand \in met \/ Arrived(f, task[r].cand)
    BY <1>1, <1>9 DEF Carries
  <2>5. state[task[r].cand] # "none"
    BY <1>1, <1>9 DEF HasCandidate
  <2>6. Settling(task[r].cand, "resolved", task[r].target)
    BY <1>4, <1>5, <1>6, <1>7, <2>1, <2>2, <2>3, <2>4, <2>5 DEF Settling
  <2> QED
    BY <1>1, <2>6, Settles
<1> QED
  BY <1>8, <1>9

LEMMA EndForkInv ==
  ASSUME RefineInv, NEW r \in Refiners, EndFork(r)
  PROVE  RefineInv'
<1> USE DEF RefineInv
<1> DEFINE won == task[r].won
           one == ~task[r].kept /\ Cardinality(won) = 1
           m == [task[r] EXCEPT !.pc = "chain"]
           n == [m EXCEPT !.gone = TRUE]
           c == CHOOSE k \in won : TRUE
           o == [n EXCEPT !.target = c]
           after == IF one THEN o ELSE NoTask
           deletes == ~task[r].kept /\ ~task[r].gone
           Onward(q) == IF q = r THEN after
                        ELSE IF deletes /\ task[q].cand = task[r].cand
                          THEN [task[q] EXCEPT !.gone = TRUE]
                        ELSE task[q]
<1>1. /\ task[r] \in Task /\ task[r].pc = "fork" /\ Sound(task[r])
      /\ task[r].cand \in Texts /\ won \subseteq concepts
      /\ task[r].rest = {} /\ Carries(task[r]) /\ HasCandidate(task[r])
  BY DEF EndFork, TypeOK, Steady, Sound, Carried, Existing
<1>2. /\ after \in Task /\ Sound(after)
      /\ after = NoTask \/ (after.pc = "chain" /\ after.gone)
  <2>1. CASE one
    <3>1. c \in concepts /\ c \in Texts
      BY <1>1, <2>1, OneIsIn DEF TypeOK
    <3>2. m \in Task /\ m.pc = "chain" /\ m.cand = task[r].cand
          /\ m.won = won /\ m.among = task[r].among
      BY <1>1 DEF Task
    <3>3. n \in Task /\ n.pc = "chain" /\ n.cand = task[r].cand /\ n.gone
          /\ n.won = won /\ n.among = task[r].among
      <4> HIDE DEF m
      <4> QED
        BY <3>2 DEF Task
    <3>4. o \in Task /\ o.pc = "chain" /\ o.cand = task[r].cand /\ o.gone
          /\ o.won = won /\ o.among = task[r].among /\ o.target = c
      <4> HIDE DEF n, c
      <4> QED
        BY <3>1, <3>3 DEF Task
    <3> HIDE DEF o, c
    <3> QED
      BY <1>1, <2>1, <3>1, <3>4 DEF Sound
  <2>2. CASE ~one
    BY <2>2, NoTaskType
  <2> QED
    BY <2>1, <2>2
<1>3. /\ task' = [q \in Refiners |-> Onward(q)]
      /\ left' = IF task[r].kept THEN left \cup {task[r].cand} ELSE left
      /\ IF deletes THEN DeleteCandidate(task[r].cand)
                    ELSE UNCHANGED <<candidates, asks>>
      /\ UNCHANGED <<concepts, links, writing, extracted, routes, met, owed,
                     faults>>
  BY DEF EndFork
<1> HIDE DEF after
<1>4. /\ task'[r] = after /\ task' \in [Refiners -> Task]
      /\ \A q \in Refiners \ {r} :
           task'[q] = IF deletes /\ task[q].cand = task[r].cand
                        THEN [task[q] EXCEPT !.gone = TRUE] ELSE task[q]
  <2>1. \A q \in Refiners : [task[q] EXCEPT !.gone = TRUE] \in Task
    <3>1. ASSUME NEW k \in Task
          PROVE  [k EXCEPT !.gone = TRUE] \in Task
      BY DEF Task
    <3> QED
      BY <3>1 DEF TypeOK
  <2> QED
    BY <1>2, <1>3, <2>1 DEF TypeOK
<1>5. /\ Sound(task[r])' /\ HasCandidate(task[r])'
      /\ Carries(task[r])' /\ Through(task[r])'
  BY <1>2, <1>3, <1>4, NoTaskType DEF Sound, HasCandidate, Carries, Through
<1>6. /\ left \subseteq left' /\ left' \subseteq Texts
      /\ aliases' \subseteq concepts \X Texts
  <2>1. NewAliases(r) \subseteq Texts
    <3>1. /\ task[r].name \in Texts \cup {NoConcept}
          /\ \A q \in Seq(Texts) : Range(q) \subseteq Texts
      BY <1>1 DEF Task, Range
    <3> QED
      BY <1>1, <3>1, NamesAssumption DEF NewAliases
  <2> QED
    BY <1>1, <1>3, <2>1 DEF EndFork, TypeOK
<1>7. CASE ~deletes
  <2>1. /\ UNCHANGED <<state, resolved, pending, asks>>
        /\ \A q \in Refiners \ {r} : task'[q] = task[q]
    BY <1>3, <1>4, <1>7 DEF candidates
  <2>2. ASSUME NEW u \in Texts, Handled(u)
        PROVE  Handled(u)'
    BY <1>3, <1>4, <1>7, <2>1, <2>2 DEF Handled
  <2> QED
    BY <1>3, <1>4, <1>5, <1>6, <2>1, <2>2, RefinerMoves DEF TypeOK, Existing
<1>8. CASE deletes
  <2>1. /\ \A f \in Facts : task[r].cand \notin writing[f].rows
        /\ pending' = {p \in pending : p[2] # task[r].cand}
        /\ state' = [state EXCEPT ![task[r].cand] = "none"]
        /\ resolved' = [resolved EXCEPT ![task[r].cand] = NoConcept]
        /\ asks' = [asks EXCEPT ![task[r].cand] = 0]
    BY <1>3, <1>8 DEF DeleteCandidate
  <2>2. \A f \in Facts : <<f, task[r].cand>> \in pending =>
                           task[r].cand \in met \/ Arrived(f, task[r].cand)
    BY <1>1, <1>8 DEF Carries
  <2>3. state[task[r].cand] # "none"
    BY <1>1, <1>8 DEF HasCandidate
  <2>4. ASSUME NEW q \in Refiners \ {r}
        PROVE  \/ Sound(task[q])' /\ HasCandidate(task[q])'
                    /\ Carries(task[q])' /\ Through(task[q])'
                    /\ task[q].cand = task[r].cand
               \/ task'[q] = task[q] /\ task[q].cand # task[r].cand
    <3>1. CASE task[q].cand = task[r].cand
      <4> DEFINE k == [task[q] EXCEPT !.gone = TRUE]
      <4>1. task[q] \in Task /\ Sound(task[q]) /\ task[q].pc # "idle"
        BY <1>1, <3>1, NoTaskType, NamesAssumption DEF TypeOK, Steady, Sound
      <4>2. /\ k.gone /\ k.pc = task[q].pc /\ k.cand = task[q].cand
            /\ k.name = task[q].name /\ k.target = task[q].target
            /\ k.among = task[q].among /\ k.won = task[q].won
        BY <4>1 DEF Task
      <4>3. task'[q] = k
        BY <1>4, <1>8, <3>1
      <4> HIDE DEF k
      <4>4. Sound(task[q])'
        BY <1>3, <4>1, <4>2, <4>3 DEF Sound
      <4>5. HasCandidate(task[q])' /\ Carries(task[q])' /\ Through(task[q])'
        BY <4>2, <4>3 DEF HasCandidate, Carries, Through
      <4> QED
        BY <3>1, <4>4, <4>5
    <3>2. CASE task[q].cand # task[r].cand
      BY <1>4, <3>2
    <3> QED
      BY <3>1, <3>2
  <2>5. /\ asks' \in [Texts -> Nat] /\ asks'[task[r].cand] = 0
        /\ \A u \in Texts \ {task[r].cand} : asks'[u] = asks[u]
    BY <1>1, <2>1 DEF TypeOK
  <2>6. \A q \in Refiners :
           \/ Sound(task[q])' /\ HasCandidate(task[q])'
                /\ Carries(task[q])' /\ Through(task[q])'
                /\ task[q].cand = task[r].cand
           \/ task'[q] = task[q] /\ task[q].cand # task[r].cand
    BY <1>5, <2>4
  <2>7. Settling(task[r].cand, "none", NoConcept)
    BY <1>3, <1>4, <1>6, <2>1, <2>2, <2>3, <2>5, <2>6 DEF Settling
  <2> QED
    BY <1>1, <2>7, Settles
<1> QED
  BY <1>7, <1>8

-----------------------------------------------------------------------------
(* Steps of an extraction                                                  *)

LEMMA WriterMoves ==
  ASSUME RefineInv,
         UNCHANGED <<catalog, candidates, task, ghosts, owed>>,
         writing' \in [Facts -> Write],
         \A f \in Facts : writing'[f].cached \subseteq Texts \X concepts,
         Transactions',
         faults' \in 0..MaxFaults, faults' = 0 => faults = 0,
         asks' \in [Texts -> Nat],
         \A t \in Texts : asks'[t] > 0 => state[t] # "none",
         faults' = 0 => \A t \in Texts :
           state[t] = "open" /\ LinkedFacts(t) # {} /\ Handled(t)
             => Handled(t)'
  PROVE  RefineInv'
<1> USE DEF RefineInv
<1>1. UNCHANGED <<concepts, aliases, links, state, resolved, pending, task,
                  extracted, routes, met, left, owed>>
  BY DEF catalog, candidates, ghosts
<1>2. TypeOK'
  BY <1>1 DEF TypeOK
<1>3. Steady'
  BY <1>1 DEF Steady, Sound
<1>4. Existing' /\ Carried'
  BY <1>1 DEF Existing, HasCandidate, Carried, Carries, Arrived
<1>5. Attended'
  BY <1>1 DEF Attended, Through, LinkedFacts
<1>6. NothingStranded'
  BY <1>1 DEF NothingStranded, OnItsWay, Arrived
<1> QED
  BY <1>2, <1>3, <1>4, <1>5, <1>6

LEMMA BeginInv ==
  ASSUME RefineInv, NEW f \in Facts, Begin(f)
  PROVE  RefineInv'
<1> USE DEF RefineInv
<1>1. writing[f] \in Write /\ Found[f] \subseteq Texts
  BY NamesAssumption DEF TypeOK
<1> DEFINE m == [writing[f] EXCEPT !.pc = "write"]
           n == [m EXCEPT !.todo = Found[f]]
<1>2. m \in Write /\ m.pc = "write" /\ m.made = writing[f].made
      /\ m.rows = writing[f].rows /\ m.cached = writing[f].cached
  BY <1>1 DEF Write
<1>3. n \in Write /\ n.pc = "write" /\ n.made = writing[f].made
      /\ n.rows = writing[f].rows /\ n.cached = writing[f].cached
  <2> HIDE DEF m
  <2> QED
    BY <1>1, <1>2 DEF Write
<1>4. writing' = [writing EXCEPT ![f] = n]
  BY DEF Begin, TypeOK
<1> HIDE DEF n
<1>5. /\ writing' \in [Facts -> Write] /\ writing'[f] = n
      /\ \A g \in Facts \ {f} : writing'[g] = writing[g]
  BY <1>3, <1>4 DEF TypeOK
<1>6. /\ UNCHANGED <<catalog, candidates, asks, task, ghosts, owed, faults>>
      /\ writing[f].pc = "idle"
  BY DEF Begin
<1>7. /\ \A g \in Facts : writing'[g].cached = writing[g].cached
      /\ \A g \in Facts : writing'[g].made = writing[g].made
      /\ \A g \in Facts : writing'[g].rows = writing[g].rows
      /\ \A g \in Facts : writing[g].pc = "chain" => writing'[g].pc = "chain"
  BY <1>3, <1>5, <1>6
<1>8. Transactions'
  BY <1>6, <1>7 DEF Transactions, candidates
<1>9. \A t \in Texts : Handled(t) => Handled(t)'
  BY <1>6, <1>7 DEF Handled, ghosts
<1>10. /\ \A g \in Facts : writing'[g].cached \subseteq Texts \X concepts
       /\ faults' \in 0..MaxFaults /\ asks' \in [Texts -> Nat]
       /\ \A t \in Texts : asks'[t] > 0 => state[t] # "none"
  BY <1>6, <1>7 DEF Steady, TypeOK, Existing
<1> QED
  BY <1>5, <1>6, <1>8, <1>9, <1>10, WriterMoves

LEMMA LinkNameInv ==
  ASSUME RefineInv, NEW f \in Facts, NEW t \in Texts, LinkName(f, t)
  PROVE  RefineInv'
<1> USE DEF RefineInv
<1>1. writing[f] \in Write /\ writing[f].pc = "write" /\ t \in writing[f].todo
  BY DEF TypeOK, LinkName
<1> DEFINE w == writing[f]
           C == IF state[t] = "resolved" THEN w.cached \cup {<<t, resolved[t]>>}
                                         ELSE w.cached
           R == IF state[t] # "resolved" THEN w.rows \cup {t} ELSE w.rows
           M == IF state[t] = "none" THEN w.made \cup {t} ELSE w.made
           k == [w EXCEPT !.todo = w.todo \ {t}]
           m == [k EXCEPT !.cached = C]
           n == [m EXCEPT !.rows = R]
           o == [n EXCEPT !.made = M]
<1>2. C \subseteq Texts \X concepts /\ C \subseteq Texts \X Texts
  <2>1. w.cached \subseteq Texts \X concepts /\ concepts \subseteq Texts
    BY DEF Steady, TypeOK
  <2>2. state[t] = "resolved" => resolved[t] \in concepts
    BY DEF TypeOK
  <2> QED
    BY <2>1, <2>2
<1>3. R \subseteq Texts /\ M \subseteq Texts
  BY <1>1 DEF Write
<1> HIDE DEF C, R, M
<1>4. k \in Write /\ k.pc = "write" /\ k.made = w.made /\ k.rows = w.rows
  BY <1>1 DEF Write
<1>5. m \in Write /\ m.pc = "write" /\ m.made = w.made /\ m.rows = w.rows
      /\ m.cached = C
  <2> HIDE DEF k
  <2> QED
    BY <1>2, <1>4 DEF Write
<1>6. n \in Write /\ n.pc = "write" /\ n.made = w.made /\ n.rows = R
      /\ n.cached = C
  <2> HIDE DEF m
  <2> QED
    BY <1>3, <1>5 DEF Write
<1>7. o \in Write /\ o.pc = "write" /\ o.made = M /\ o.rows = R
      /\ o.cached = C
  <2> HIDE DEF n
  <2> QED
    BY <1>3, <1>6 DEF Write
<1>8. writing' = [writing EXCEPT ![f] = o]
  <2> DEFINE e == [w EXCEPT !.todo = w.todo \ {t}, !.cached = C, !.rows = R,
                            !.made = M]
  <2>1. writing' = [writing EXCEPT ![f] = e]
    <3>1. writing' = [writing EXCEPT ![f] =
            [w EXCEPT !.todo = w.todo \ {t},
                      !.cached = IF state[t] = "resolved"
                                   THEN w.cached \cup {<<t, resolved[t]>>}
                                   ELSE w.cached,
                      !.rows = IF state[t] # "resolved" THEN w.rows \cup {t}
                                                        ELSE w.rows,
                      !.made = IF state[t] = "none" THEN w.made \cup {t}
                                                    ELSE w.made]]
      BY <1>1 DEF LinkName, Write
    <3> QED
      BY <3>1 DEF C, R, M
  <2>2. e = o
    BY <1>1 DEF Write
  <2> HIDE DEF e
  <2> QED
    BY <2>1, <2>2
<1> HIDE DEF o
<1>9. /\ writing' \in [Facts -> Write] /\ writing'[f] = o
      /\ \A g \in Facts \ {f} : writing'[g] = writing[g]
  BY <1>7, <1>8 DEF TypeOK
<1>10. /\ UNCHANGED <<catalog, candidates, asks, task, ghosts, owed, faults>>
       /\ \A g \in Facts \ {f} : t \notin writing[g].made
  BY DEF LinkName
<1>11. Transactions'
  <2>1. \A g, h \in Facts : writing'[g].made \cap writing'[h].made # {} => g = h
    BY <1>7, <1>9, <1>10 DEF Transactions, M
  <2>2. \A u \in Texts : /\ u \in M => u \in R
                         /\ u \in R => (u \in M <=> state[u] = "none")
    BY DEF Transactions, M, R
  <2> QED
    BY <1>7, <1>9, <1>10, <2>1, <2>2 DEF Transactions, candidates
<1>12. \A u \in Texts : Handled(u) => Handled(u)'
  <2>1. \A g \in Facts : writing[g].pc = "chain" => writing'[g].pc = "chain"
    BY <1>1, <1>9
  <2> QED
    BY <1>10, <2>1 DEF Handled, ghosts
<1>13. /\ \A g \in Facts : writing'[g].cached \subseteq Texts \X concepts
       /\ faults' \in 0..MaxFaults /\ asks' \in [Texts -> Nat]
       /\ \A u \in Texts : asks'[u] > 0 => state[u] # "none"
  BY <1>2, <1>7, <1>9, <1>10 DEF Steady, TypeOK, Existing
<1> QED
  BY <1>9, <1>10, <1>11, <1>12, <1>13, WriterMoves

LEMMA NoWriteType ==
  LET chain == [NoWrite EXCEPT !.pc = "chain"]
  IN  /\ NoWrite \in Write /\ NoWrite.made = {} /\ NoWrite.rows = {}
      /\ NoWrite.cached = {}
      /\ chain \in Write /\ chain.made = {} /\ chain.rows = {}
      /\ chain.cached = {} /\ chain.pc = "chain"
BY DEF NoWrite, Write

(* An extraction that has nothing in hand any more.                        *)
LEMMA Rests ==
  ASSUME RefineInv, NEW f \in Facts, NEW w \in Write,
         w.made = {}, w.rows = {}, w.cached = {},
         writing' = [writing EXCEPT ![f] = w], UNCHANGED state
  PROVE  /\ writing' \in [Facts -> Write] /\ Transactions'
         /\ \A g \in Facts : writing'[g].cached \subseteq Texts \X concepts
<1> USE DEF RefineInv
<1>1. /\ writing' \in [Facts -> Write] /\ writing'[f] = w
      /\ \A g \in Facts \ {f} : writing'[g] = writing[g]
  BY DEF TypeOK
<1>2. Transactions'
  BY <1>1 DEF Transactions
<1> QED
  BY <1>1, <1>2 DEF Steady

LEMMA AbortInv ==
  ASSUME RefineInv, NEW f \in Facts, Abort(f)
  PROVE  RefineInv'
<1> USE DEF RefineInv
<1> DEFINE w == [NoWrite EXCEPT !.pc = "chain"]
<1>1. /\ w \in Write /\ w.made = {} /\ w.rows = {} /\ w.cached = {}
  BY NoWriteType
<1>2. /\ writing' = [writing EXCEPT ![f] = w]
      /\ UNCHANGED <<catalog, candidates, asks, task, ghosts, owed>>
      /\ faults < MaxFaults /\ faults' = faults + 1
  BY DEF Abort, Fault
<1> HIDE DEF w
<1>3. /\ writing' \in [Facts -> Write] /\ Transactions'
      /\ \A g \in Facts : writing'[g].cached \subseteq Texts \X concepts
  BY <1>1, <1>2, Rests DEF candidates
<1>4. faults' \in 0..MaxFaults /\ faults' # 0
  BY <1>2, BoundsAssumption DEF TypeOK
<1>5. /\ asks' \in [Texts -> Nat]
      /\ \A t \in Texts : asks'[t] > 0 => state[t] # "none"
  BY <1>2 DEF TypeOK, Existing
<1> QED
  BY <1>2, <1>3, <1>4, <1>5, WriterMoves

LEMMA EnqueueRefineInv ==
  ASSUME RefineInv, NEW f \in Facts, EnqueueRefine(f)
  PROVE  RefineInv'
<1> USE DEF RefineInv
<1>1. /\ writing' = [writing EXCEPT ![f] = NoWrite]
      /\ UNCHANGED <<catalog, candidates, task, ghosts, owed>>
  BY DEF EnqueueRefine
<1>2. /\ writing' \in [Facts -> Write] /\ Transactions'
      /\ \A g \in Facts : writing'[g].cached \subseteq Texts \X concepts
  BY <1>1, NoWriteType, Rests DEF candidates
<1>3. CASE NoFault /\ asks' = [t \in Texts |-> IF t \in ToRefine(f) THEN asks[t] + 1
                                                               ELSE asks[t]]
  <2>1. /\ asks' \in [Texts -> Nat]
        /\ \A t \in Texts : asks'[t] > 0 => state[t] # "none"
        /\ \A t \in Texts : state[t] = "open" /\ LinkedFacts(t) # {}
                             => asks'[t] > 0
    BY <1>3 DEF TypeOK, Existing, ToRefine
  <2>2. /\ faults' \in 0..MaxFaults /\ faults' = faults
    BY <1>3 DEF NoFault, TypeOK
  <2>3. faults' = 0 => \A t \in Texts :
           state[t] = "open" /\ LinkedFacts(t) # {} /\ Handled(t) => Handled(t)'
    BY <2>1 DEF Handled
  <2> QED
    BY <1>1, <1>2, <2>1, <2>2, <2>3, WriterMoves
<1>4. CASE Fault /\ asks' = asks
  <2>1. faults' \in 0..MaxFaults /\ faults' # 0
    BY <1>4, BoundsAssumption DEF TypeOK, Fault
  <2>2. /\ asks' \in [Texts -> Nat]
        /\ \A t \in Texts : asks'[t] > 0 => state[t] # "none"
    BY <1>4 DEF TypeOK, Existing
  <2> QED
    BY <1>1, <1>2, <2>1, <2>2, WriterMoves
<1> QED
  BY <1>3, <1>4 DEF EnqueueRefine

LEMMA CommitInv ==
  ASSUME RefineInv, NEW f \in Facts, Commit(f)
  PROVE  RefineInv'
<1> USE DEF RefineInv
<1> DEFINE w == writing[f]
           gained == {c[2] : c \in w.cached}
           rest == [NoWrite EXCEPT !.pc = "chain"]
<1>1. /\ w \in Write /\ w.cached \subseteq Texts \X concepts
      /\ gained \subseteq concepts /\ concepts \subseteq Texts
      /\ w.made \subseteq Texts /\ w.rows \subseteq Texts
  BY DEF TypeOK, Steady, Write
<1>2. /\ w.pc = "write"
      /\ links' = links \cup ({f} \X gained)
      /\ owed' = owed \cup {k \in gained : <<f, k>> \notin links}
      /\ pending' = pending \cup ({f} \X w.rows)
      /\ state' = [t \in Texts |-> IF t \in w.made THEN "open" ELSE state[t]]
      /\ extracted' = extracted \cup ({f} \X w.rows)
                          \cup {<<f, c[1]>> : c \in w.cached}
      /\ routes' = routes \cup w.cached
      /\ met' = met \cup {t \in w.rows : BeingResolved(t)}
      /\ writing' = [writing EXCEPT ![f] = rest]
      /\ UNCHANGED <<concepts, aliases, resolved, asks, task, left, faults>>
  BY DEF Commit
<1>3. /\ rest \in Write /\ rest.made = {} /\ rest.rows = {}
      /\ rest.cached = {} /\ rest.pc = "chain"
  BY NoWriteType
<1> HIDE DEF rest
<1>4. /\ writing' \in [Facts -> Write] /\ writing'[f] = rest
      /\ \A g \in Facts \ {f} : writing'[g] = writing[g]
  BY <1>2, <1>3 DEF TypeOK
(* What it has inserted was not there, and what it has linked is there.    *)
<1>5. /\ \A t \in w.made : t \in w.rows /\ state[t] = "none"
      /\ \A t \in w.rows \ w.made : state[t] # "none"
      /\ \A t \in Texts : state'[t] = IF t \in w.made THEN "open" ELSE state[t]
  BY <1>1, <1>2 DEF Transactions
<1>6. \A g \in Facts, t \in Texts : Arrived(g, t) => Arrived(g, t)'
  BY <1>2, ArrivedStays
<1>7. TypeOK'
  <2>1. state' \in [Texts -> {"none", "open", "resolved"}]
    BY <1>2 DEF TypeOK
  <2>2. \A t \in Texts : (state'[t] = "resolved") = (resolved'[t] # NoConcept)
    BY <1>2, <1>5 DEF TypeOK
  <2>3. links' \subseteq Facts \X concepts' /\ owed' \subseteq concepts'
        /\ routes' \subseteq Texts \X concepts'
    BY <1>1, <1>2 DEF TypeOK
  <2>4. pending' \subseteq Facts \X Texts /\ extracted' \subseteq Facts \X Texts
        /\ met' \subseteq Texts
    BY <1>1, <1>2 DEF TypeOK
  <2> QED
    BY <1>2, <1>4, <2>1, <2>2, <2>3, <2>4 DEF TypeOK
<1>8. Steady'
  BY <1>2, <1>3, <1>4 DEF Steady, Sound
<1>9. Transactions'
  <2>1. \A g \in Facts \ {f}, t \in w.made : t \notin writing[g].rows
    <3>1. ASSUME NEW g \in Facts \ {f}, NEW t \in w.made,
                 t \in writing[g].rows
          PROVE  FALSE
      <4>1. t \in writing[g].made
        BY <1>1, <1>5, <3>1 DEF Transactions
      <4> QED
        BY <3>1, <4>1 DEF Transactions
    <3> QED
      BY <3>1
  <2> QED
    BY <1>3, <1>4, <1>5, <2>1 DEF Transactions
<1>10. Existing'
  BY <1>2, <1>5 DEF Existing, HasCandidate, Steady, Sound
(* A fact that joins a candidate in the middle of its resolution is known. *)
<1>11. Carried'
  <2>1. ASSUME NEW r \in Refiners, NEW g \in Facts, ~task[r].gone,
               <<g, task[r].cand>> \in pending',
               \/ task[r].pc = "resolve"
               \/ task[r].pc = "fork" /\ g \notin task[r].rest /\ ~task[r].kept
        PROVE  task[r].cand \in met' \/ Arrived(g, task[r].cand)'
    <3> DEFINE t == task[r].cand
    <3>1. t \in Texts
      BY <2>1 DEF Steady, Sound
    <3>2. CASE <<g, t>> \in pending
      <4>1. t \in met \/ Arrived(g, t)
        BY <2>1, <3>2 DEF Carried, Carries
      <4> QED
        BY <1>2, <1>6, <3>1, <4>1
    <3>3. CASE t \in w.rows
      <4>1. BeingResolved(t)
        BY <2>1 DEF BeingResolved
      <4> QED
        BY <1>2, <3>3, <4>1
    <3> QED
      BY <1>2, <2>1, <3>2, <3>3
  <2> QED
    BY <1>2, <2>1 DEF Carried, Carries
<1>12. Attended'
  <2>1. \A r \in Refiners : Through(task[r])'
    BY <1>2, <1>5 DEF Attended, Through, Steady, Sound
  <2>2. \A t : Handled(t)'
    BY <1>3, <1>4 DEF Handled
  <2> QED
    BY <2>1, <2>2 DEF Attended
<1>13. NothingStranded'
  <2>1. ASSUME NEW g \in Facts, NEW t \in Texts \ met',
               <<g, t>> \in extracted'
        PROVE  OnItsWay(g, t)' \/ Arrived(g, t)'
    <3>1. CASE <<g, t>> \in extracted
      <4>1. OnItsWay(g, t) \/ Arrived(g, t)
        BY <1>2, <2>1, <3>1 DEF NothingStranded
      <4> QED
        BY <1>2, <1>5, <1>6, <4>1 DEF OnItsWay
    <3>2. CASE g = f /\ t \in w.rows
      <4>1. state[t] # "resolved"
        BY <1>2, <2>1, <3>2 DEF BeingResolved
      <4>2. state'[t] = "open"
        BY <1>5, <3>2, <4>1 DEF TypeOK
      <4> QED
        BY <1>2, <3>2, <4>2 DEF OnItsWay
    <3>3. CASE \E c \in w.cached : g = f /\ t = c[1]
      <4>1. PICK c \in w.cached : g = f /\ t = c[1]
        BY <3>3
      <4>2. c \in routes' /\ c = <<t, c[2]>> /\ c[2] \in concepts'
            /\ <<g, c[2]>> \in links'
        BY <1>1, <1>2, <4>1
      <4> QED
        BY <4>2 DEF Arrived
    <3> QED
      BY <1>2, <2>1, <3>1, <3>2, <3>3
  <2> QED
    BY <2>1 DEF NothingStranded
<1> QED
  BY <1>7, <1>8, <1>9, <1>10, <1>11, <1>12, <1>13

-----------------------------------------------------------------------------
(* The invariant and the theorems                                          *)

LEMMA InitInv ==
  ASSUME Init
  PROVE  RefineInv
<1> USE DEF Init
<1>1. TypeOK
  BY NoWriteType, NoTaskType, NamesAssumption, BoundsAssumption DEF TypeOK
<1>2. Steady /\ Transactions /\ Existing /\ Carried
  BY NoWriteType, NoTaskType
     DEF Steady, Transactions, Existing, Carried
<1>3. Attended /\ NothingStranded
  BY NoTaskType DEF Attended, NothingStranded
<1> QED
  BY <1>1, <1>2, <1>3 DEF RefineInv

LEMMA NextInv ==
  ASSUME RefineInv, [Next]_vars
  PROVE  RefineInv'
<1>1. ASSUME NEW f \in Facts, Extract(f)
      PROVE  RefineInv'
  BY <1>1, BeginInv, CommitInv, AbortInv, EnqueueRefineInv, LinkNameInv
     DEF Extract
<1>2. ASSUME NEW r \in Refiners, Refine(r)
      PROVE  RefineInv'
  BY <1>2, MatchInv, AskInv, CreateInv, MergeInv, ResolveInv, EndForkInv,
     EndsInv, LoadInv, RouteFactInv DEF Refine
<1>3. CASE UNCHANGED vars
  <2>1. UNCHANGED <<concepts, aliases, links, state, resolved, pending,
                    writing, asks, task, extracted, routes, met, left, owed,
                    faults>>
    BY <1>3 DEF vars, catalog, candidates, ghosts
  <2>2. TypeOK' /\ Steady' /\ Transactions' /\ Existing'
    BY <2>1 DEF RefineInv, TypeOK, Steady, Sound, Transactions, Existing,
                HasCandidate
  <2>3. Carried' /\ NothingStranded'
    BY <2>1 DEF RefineInv, Carried, Carries, Arrived, NothingStranded, OnItsWay
  <2>4. Attended'
    BY <2>1 DEF RefineInv, Attended, Through, Handled, LinkedFacts
  <2> QED
    BY <2>2, <2>3, <2>4 DEF RefineInv
<1> QED
  BY <1>1, <1>2, <1>3 DEF Next

LEMMA RefineInvariant == Spec => []RefineInv
<1>1. Init => RefineInv
  BY InitInv
<1>2. RefineInv /\ [Next]_vars => RefineInv'
  BY NextInv
<1> QED
  BY <1>1, <1>2, PTL DEF Spec

(* Extractions and refinements keep the catalog, the candidates and the    *)
(* tasks within their types: a link, a route, or what a candidate is       *)
(* resolved to is always a concept that exists.                            *)
THEOREM RefinementTypes == Spec => []TypeOK
<1>1. RefineInv => TypeOK
  BY DEF RefineInv
<1> QED
  BY <1>1, RefineInvariant, PTL

(* No fact loses a name: it is linked to a concept the name was routed to, *)
(* or waits at a candidate that is to be refined, unless it came in the    *)
(* middle of the candidate's resolution; with any number of tasks on one   *)
(* candidate and of crashes between the statements.                        *)
THEOREM NoNameIsLost == Spec => []NothingStranded
<1>1. RefineInv => NothingStranded
  BY DEF RefineInv
<1> QED
  BY <1>1, RefineInvariant, PTL

(* When nothing has failed and all work is done, each candidate that still *)
(* has facts is one that a task has given up: none is overlooked.          *)
THEOREM NoneOverlooked == Spec => []OnlyLeftOpen
<1>1. RefineInv => OnlyLeftOpen
  BY DEF RefineInv, Attended, Handled, OnlyLeftOpen, Quiescent
<1> QED
  BY <1>1, RefineInvariant, PTL

-----------------------------------------------------------------------------
(* The loop of an extraction                                               *)

(* A set of numbers has a least.                                           *)
LEMMA LeastIsIn ==
  ASSUME NEW S \in SUBSET Nat, S # {}
  PROVE  Min(S) \in S /\ \A n \in S : Min(S) <= n
<1>1. IsWellFoundedOn(OpToRel(<, Nat), Nat)
  BY NatLessThanWellFounded, Zenon
<1>2. PICK m \in S : \A n \in S : <<n, m>> \notin OpToRel(<, Nat)
  BY <1>1, WFMin, Zenon
<1>3. \A n \in S : ~(n < m)
  BY <1>2, Zenon DEF OpToRel
<1>4. \A n \in S : m <= n
  BY <1>3
<1> QED
  BY <1>4 DEF Min
LEMMA FirstIsIn ==
  ASSUME NEW S \in SUBSET Nat, S # {}, NEW n \in Nat \ {0}
  PROVE  FirstOf(S, n) # {}
<1> DEFINE m == Min(S)
<1>1. m \in S /\ \A g \in S : m <= g
  BY LeastIsIn
<1> HIDE DEF m
<1>2. {g \in S : g <= m} = {m}
  <2>1. \A g \in S : g \in Nat /\ m <= g
    BY <1>1
  <2>2. ASSUME NEW g \in S
        PROVE  g <= m <=> g = m
    BY <1>1, <2>1
  <2> QED
    BY <1>1, <2>2
<1>3. Cardinality({m}) = 1
  BY FS_Singleton
<1>4. m \in FirstOf(S, n)
  BY <1>1, <1>2, <1>3 DEF FirstOf
<1> QED
  BY <1>4

(* The jobs that have f listed and are still to count an answer to it.     *)
Awaits(f) == {j \in Passes : \/ run[j].pc = "ask" /\ f \in run[j].wave
                             \/ run[j].pc = "write" /\ f \in run[j].todo}

(* A fact is not listed once it has had its attempts: from then on each    *)
(* answer more is one of a job that had listed it before, and never all    *)
(* jobs are such.                                                          *)
Bounded == \A f \in Backlog : attempts[f] >= MaxAttempts =>
              attempts[f] + Cardinality(Awaits(f))
                < MaxAttempts + Cardinality(Passes)

LoopTypes ==
    /\ named \subseteq Backlog /\ attempts \in [Backlog -> Nat]
    /\ run \in [Passes -> Run] /\ setbacks \in 0..MaxSetbacks
    /\ \A j \in Passes : /\ run[j].todo \subseteq run[j].wave
                         /\ run[j].transient \cap run[j].permanent = {}

(* What the LLM still has to answer at the most, as pairs of a fact and    *)
(* the number of its answers before.                                       *)
Owed == {p \in Backlog \X (0..(MaxAttempts - 1)) :
           p[1] \notin named /\ p[2] >= attempts[p[1]]}

(* Each clean wave is paid for by what is no longer owed.  A fact of the   *)
(* wave is still to be named, and its answer will be the payment, or it is *)
(* not, which is a payment that another job has made since the wave was    *)
(* listed.                                                                 *)
Spent(k) == k.waves + Cardinality(Owed)
Paid(k) ==
    /\ Spent(k) <= WaveBound
    /\ k.pc \in {"ask", "write"} => k.wave # {}
    /\ k.pc = "ask" => k.wave \subseteq ToName \/ Spent(k) < WaveBound
    /\ k.pc = "write" /\ k.clean =>
         /\ k.transient = {}
         /\ k.wave \subseteq ToName \/ Spent(k) < WaveBound
         /\ k.todo # k.wave => Spent(k) < WaveBound
Paying == \A j \in Passes : Paid(run[j])

LoopInv == LoopTypes /\ Bounded /\ NoneLeftToName /\ Paying

LEMMA AwaitsIsFinite ==
  \A f : /\ IsFiniteSet(Awaits(f)) /\ Cardinality(Awaits(f)) \in Nat
         /\ Cardinality(Awaits(f)) <= Cardinality(Passes)
         /\ Cardinality(Passes) \in Nat
<1>1. \A f : Awaits(f) \subseteq Passes
  BY DEF Awaits
<1> QED
  BY <1>1, PassesAssumption, FS_Subset, FS_CardinalityType

LEMMA OwedIsFinite ==
  /\ IsFiniteSet(Owed) /\ Cardinality(Owed) \in Nat
  /\ Cardinality(Owed) <= WaveBound /\ WaveBound \in Nat
<1>1. Last \in Nat /\ MaxAttempts \in Nat \ {0}
  BY LoopBoundsAssumption, SizesAssumption
<1>2. /\ IsFiniteSet(Backlog) /\ Cardinality(Backlog) = Last
      /\ IsFiniteSet(0..(MaxAttempts - 1))
      /\ Cardinality(0..(MaxAttempts - 1)) = MaxAttempts
  BY <1>1, FS_Interval DEF Backlog
<1> DEFINE all == Backlog \X (0..(MaxAttempts - 1))
<1>3. IsFiniteSet(all) /\ Cardinality(all) = WaveBound
  BY <1>2, FS_Product DEF WaveBound
<1>4. Owed \in SUBSET all
  BY DEF Owed
<1> HIDE DEF all
<1> QED
  BY <1>3, <1>4, FS_Subset, FS_CardinalityType

(* Names and answers are only added, and every fact that is thereby no     *)
(* longer to be named pays, as does every answer.                          *)
LEMMA OwedShrinks ==
  ASSUME attempts \in [Backlog -> Nat], attempts' \in [Backlog -> Nat],
         named \subseteq named',
         \A f \in Backlog : attempts'[f] >= attempts[f]
  PROVE  /\ Cardinality(Owed') \in Nat /\ Cardinality(Owed') <= Cardinality(Owed)
         /\ \A f \in ToName : (f \in named' \/ attempts'[f] > attempts[f])
                              => Cardinality(Owed') < Cardinality(Owed)
         /\ ~(ToName \subseteq ToName') => Cardinality(Owed') < Cardinality(Owed)
<1>1. Owed' \subseteq Owed
  <2> SUFFICES ASSUME NEW p \in Owed'
               PROVE  p \in Owed
    OBVIOUS
  <2>1. p \in Backlog \X (0..(MaxAttempts - 1)) /\ p[1] \notin named'
        /\ p[2] >= attempts'[p[1]]
    BY DEF Owed
  <2>2. p[1] \in Backlog /\ p[2] \in Nat
    BY <2>1, SizesAssumption
  <2> QED
    BY <2>1, <2>2 DEF Owed
<1>2. Cardinality(Owed') \in Nat /\ Cardinality(Owed') <= Cardinality(Owed)
  BY <1>1, OwedIsFinite, FS_Subset, FS_CardinalityType
<1>3. ASSUME NEW f \in ToName, f \in named' \/ attempts'[f] > attempts[f]
      PROVE  Cardinality(Owed') < Cardinality(Owed)
  <2>1. f \in Backlog /\ attempts[f] \in 0..(MaxAttempts - 1) /\ f \notin named
    BY SizesAssumption DEF ToName
  <2>2. <<f, attempts[f]>> \in Owed
    BY <2>1 DEF Owed
  <2>3. <<f, attempts[f]>> \notin Owed'
    BY <1>3, <2>1 DEF Owed
  <2>4. Owed' \in SUBSET Owed /\ Owed' # Owed
    BY <1>1, <2>2, <2>3
  <2>5. /\ Cardinality(Owed') # Cardinality(Owed)
        /\ Cardinality(Owed) \in Nat
    BY <2>4, OwedIsFinite, FS_Subset
  <2> QED
    BY <1>2, <2>5
<1>4. ASSUME ~(ToName \subseteq ToName')
      PROVE  Cardinality(Owed') < Cardinality(Owed)
  <2>1. PICK f \in ToName : f \notin ToName'
    BY <1>4
  <2>2. f \in Backlog /\ attempts[f] < MaxAttempts
        /\ (f \in named' \/ ~(attempts'[f] < MaxAttempts))
    BY <2>1 DEF ToName
  <2>3. f \in named' \/ attempts'[f] > attempts[f]
    BY <2>2, SizesAssumption
  <2> QED
    BY <1>3, <2>3
<1> QED
  BY <1>2, <1>3, <1>4

(* So a job that has paid, and does nothing, stays so.                     *)
LEMMA PaidKept ==
  ASSUME attempts \in [Backlog -> Nat], attempts' \in [Backlog -> Nat],
         named \subseteq named',
         \A f \in Backlog : attempts'[f] >= attempts[f],
         NEW j, run[j] \in Run, run'[j] = run[j], Paid(run[j])
  PROVE  Paid(run[j])'
<1> DEFINE k == run[j]
<1>1. /\ Cardinality(Owed') \in Nat /\ Cardinality(Owed') <= Cardinality(Owed)
      /\ ToName \subseteq ToName' \/ Cardinality(Owed') < Cardinality(Owed)
  BY OwedShrinks
<1>2. k.waves \in Nat /\ Cardinality(Owed) \in Nat /\ WaveBound \in Nat
  BY OwedIsFinite DEF Run
<1>3. /\ Spent(k)' <= Spent(k) /\ (Spent(k) < WaveBound => Spent(k)' < WaveBound)
      /\ (Spent(k) <= WaveBound => Spent(k)' <= WaveBound)
  BY <1>1, <1>2 DEF Spent
<1>4. k.wave \subseteq ToName \/ Spent(k) < WaveBound
        => k.wave \subseteq ToName' \/ Spent(k)' < WaveBound
  <2>1. CASE ToName \subseteq ToName'
    BY <1>3, <2>1
  <2>2. CASE Cardinality(Owed') < Cardinality(Owed) /\ Spent(k) <= WaveBound
    BY <1>1, <1>2, <2>2 DEF Spent
  <2> QED
    BY <1>1, <2>1, <2>2 DEF Paid
<1> QED
  BY <1>3, <1>4 DEF Paid

(* Without a further answer, and with no further job for a fact that has   *)
(* had its attempts.                                                       *)
LEMMA BoundKept ==
  ASSUME LoopInv, attempts' = attempts,
         \A f \in Backlog : attempts[f] >= MaxAttempts =>
            Awaits(f)' \subseteq Awaits(f)
  PROVE  Bounded'
<1> SUFFICES ASSUME NEW f \in Backlog, attempts[f] >= MaxAttempts
             PROVE  attempts[f] + Cardinality(Awaits(f)')
                      < MaxAttempts + Cardinality(Passes)
  BY DEF Bounded
<1>1. Cardinality(Awaits(f)') \in Nat /\ Cardinality(Awaits(f)') <= Cardinality(Awaits(f))
  BY AwaitsIsFinite, FS_Subset, FS_CardinalityType
<1>2. attempts[f] + Cardinality(Awaits(f)) < MaxAttempts + Cardinality(Passes)
  BY DEF LoopInv, Bounded
<1>3. MaxAttempts \in Nat /\ attempts[f] \in Nat
  BY SizesAssumption DEF LoopInv, LoopTypes
<1> QED
  BY <1>1, <1>2, <1>3, AwaitsIsFinite

(* What a job does to itself only, when it has not come to its end by it.  *)
LEMMA JobKeeps ==
  ASSUME LoopInv, NEW j \in Passes, NEW k \in Run, UNCHANGED <<named, attempts>>,
         run' = [run EXCEPT ![j] = k], setbacks' \in 0..MaxSetbacks,
         k.todo \subseteq k.wave, k.transient \cap k.permanent = {},
         k.pc = "done" => \A f \in Backlog : f \in named \/ attempts[f] >= MaxAttempts,
         Paid(k),
         \A f \in Backlog : attempts[f] >= MaxAttempts
            /\ ((k.pc = "ask" /\ f \in k.wave) \/ (k.pc = "write" /\ f \in k.todo))
            => j \in Awaits(f)
  PROVE  LoopInv'
<1>1. run' \in [Passes -> Run] /\ run'[j] = k
      /\ \A i \in Passes : i # j => run'[i] = run[i]
  BY DEF LoopInv, LoopTypes
<1>2. LoopTypes'
  BY <1>1 DEF LoopInv, LoopTypes
<1>3. ASSUME NEW f \in Backlog, attempts[f] >= MaxAttempts
      PROVE  Awaits(f)' \subseteq Awaits(f)
  <2>1. ASSUME NEW i \in Awaits(f)', i # j
        PROVE  i \in Awaits(f)
    BY <1>1, <2>1 DEF Awaits
  <2>2. ASSUME j \in Awaits(f)'
        PROVE  j \in Awaits(f)
    <3>1. \/ k.pc = "ask" /\ f \in k.wave
          \/ k.pc = "write" /\ f \in k.todo
      BY <1>1, <2>2 DEF Awaits
    <3> QED
      BY <1>3, <3>1
  <2> QED
    BY <2>1, <2>2
<1>4. Bounded'
  BY <1>3, BoundKept
<1>5. NoneLeftToName'
  BY <1>1 DEF LoopInv, NoneLeftToName
<1>6. Paying'
  BY <1>1 DEF LoopInv, Paying, Paid, Spent, Owed, ToName
<1> QED
  BY <1>2, <1>4, <1>5, <1>6 DEF LoopInv

LEMMA FetchLoop ==
  ASSUME LoopInv, NEW j \in Passes, Fetch(j)
  PROVE  LoopInv'
<1> DEFINE wave == FirstOf(ToName, WaveSize)
           k == IF wave = {} THEN [run[j] EXCEPT !.pc = "done"]
                ELSE [Start EXCEPT !.pc = "ask", !.wave = wave,
                                   !.matched = run[j].matched,
                                   !.waves = run[j].waves]
<1>1. run' = [run EXCEPT ![j] = k] /\ UNCHANGED <<named, attempts, setbacks>>
  BY DEF Fetch, LoopInv, LoopTypes
<1>2. wave \subseteq ToName /\ ToName \subseteq Backlog
  BY DEF FirstOf, ToName
<1>3. run[j] \in Run /\ run[j].todo \subseteq run[j].wave
      /\ run[j].transient \cap run[j].permanent = {} /\ setbacks \in 0..MaxSetbacks
  BY DEF LoopInv, LoopTypes
<1>p. Paid(run[j])
  BY DEF LoopInv, Paying
<1>4. CASE wave = {}
  <2>1. ToName = {}
    <3>1. ToName \subseteq Nat
      BY <1>2, LoopBoundsAssumption DEF Backlog
    <3> QED
      BY <1>4, <3>1, FirstIsIn, SizesAssumption
  <2>2. \A f \in Backlog : f \in named \/ attempts[f] >= MaxAttempts
    BY <2>1, SizesAssumption DEF ToName, LoopInv, LoopTypes
  <2>3. k \in Run /\ k.pc = "done" /\ k.todo = run[j].todo /\ k.wave = run[j].wave
        /\ k.transient = run[j].transient /\ k.permanent = run[j].permanent
        /\ k.waves = run[j].waves
    BY <1>3, <1>4 DEF Run
  <2> HIDE DEF k, wave
  <2>4. Paid(k)
    BY <1>p, <2>3 DEF Paid, Spent
  <2> QED
    BY <1>1, <1>3, <2>2, <2>3, <2>4, JobKeeps
<1>5. CASE wave # {}
  <2>1. k = [pc |-> "ask", wave |-> wave, transient |-> {}, permanent |-> {},
             todo |-> {}, matched |-> run[j].matched, moved |-> FALSE,
             clean |-> TRUE, waves |-> run[j].waves]
    BY <1>5 DEF Start
  <2>2. k \in Run
    <3>1. wave \subseteq Backlog /\ run[j].matched \in BOOLEAN
          /\ run[j].waves \in 0..(WaveBound + 1)
      BY <1>2, <1>3 DEF Run
    <3> HIDE DEF k, wave
    <3> QED
      BY <2>1, <3>1 DEF Run
  <2>3. \A f \in wave : ~(attempts[f] >= MaxAttempts)
    BY <1>2, SizesAssumption DEF ToName, LoopInv, LoopTypes
  <2> HIDE DEF k, wave
  <2>4. k.pc = "ask" /\ k.wave = wave /\ k.todo = {} /\ k.transient = {}
        /\ k.waves = run[j].waves
    BY <2>1
  <2>5. Paid(k)
    BY <1>2, <1>5, <1>p, <2>4 DEF Paid, Spent
  <2> QED
    BY <1>1, <1>3, <2>2, <2>3, <2>4, <2>5, JobKeeps
<1> QED
  BY <1>4, <1>5

(* Chunks have no fact in common: none fails for good and for the time     *)
(* being.                                                                  *)
LEMMA ChunksApart ==
  ASSUME NEW wave, NEW c \in Chunks(wave), NEW d \in Chunks(wave),
         NEW f \in c, f \in d
  PROVE  c = d
BY DEF Chunks, Chunk

LEMMA AnswerLoop ==
  ASSUME LoopInv, NEW j \in Passes, Answer(j)
  PROVE  LoopInv'
<1>1. PICK out \in SUBSET Chunks(run[j].wave) :
        /\ IF out = {} THEN Smooth ELSE Setback
        /\ run' = [run EXCEPT ![j].pc = "write", ![j].todo = run[j].wave,
             ![j].transient = UNION out,
             ![j].permanent = UNION {c \in Chunks(run[j].wave) \ out :
                                       c \cap Poison # {}},
             ![j].clean = (out = {})]
  BY DEF Answer
<1> DEFINE spoilt == {c \in Chunks(run[j].wave) \ out : c \cap Poison # {}}
           k == [run[j] EXCEPT !.pc = "write", !.todo = run[j].wave,
                   !.transient = UNION out, !.permanent = UNION spoilt,
                   !.clean = (out = {})]
<1>2. run[j] \in Run /\ run[j].wave \subseteq Backlog /\ setbacks \in 0..MaxSetbacks
  BY DEF LoopInv, LoopTypes, Run
<1>3. run' = [run EXCEPT ![j] = k] /\ UNCHANGED <<named, attempts>>
  <2>1. run \in [Passes -> Run]
    BY DEF LoopInv, LoopTypes
  <2>2. UNCHANGED <<named, attempts>>
    BY DEF Answer
  <2> QED
    BY <1>1, <1>2, <2>1, <2>2 DEF Run
<1>4. setbacks' \in 0..MaxSetbacks
  <2>1. Smooth \/ Setback
    BY <1>1
  <2> QED
    BY <1>2, <2>1, LoopBoundsAssumption DEF Smooth, Setback
<1>5. \A c \in Chunks(run[j].wave) : c \subseteq Backlog
  BY <1>2 DEF Chunks, Chunk
<1>6. UNION out \subseteq Backlog /\ UNION spoilt \subseteq Backlog
  BY <1>5
<1>7. (UNION out) \cap (UNION spoilt) = {}
  BY ChunksApart
<1>8. /\ k \in Run /\ k.pc = "write" /\ k.todo = run[j].wave
      /\ k.wave = run[j].wave /\ k.transient = UNION out
      /\ k.permanent = UNION spoilt /\ (k.clean <=> out = {})
      /\ k.waves = run[j].waves
  BY <1>2, <1>6 DEF Run
<1>9. run[j].pc = "ask"
  BY DEF Answer
<1> HIDE DEF k, spoilt
<1>10. \A f \in run[j].wave : j \in Awaits(f)
  BY <1>9 DEF Awaits
<1>11. Paid(k)
  BY <1>8, <1>9 DEF LoopInv, Paying, Paid, Spent
<1> QED
  BY <1>3, <1>4, <1>7, <1>8, <1>10, <1>11, JobKeeps

LEMMA EndLoop ==
  ASSUME LoopInv, NEW j \in Passes, EndWave(j) \/ Dies(j)
  PROVE  LoopInv'
<1>1. run[j] \in Run /\ setbacks \in 0..MaxSetbacks /\ run[j].todo \subseteq run[j].wave
      /\ run[j].transient \cap run[j].permanent = {}
  BY DEF LoopInv, LoopTypes
<1>2. CASE EndWave(j)
  <2> DEFINE k == [run[j] EXCEPT !.pc = IF GoesOn(j) THEN "fetch" ELSE "stuck",
                     !.waves = IF run[j].clean /\ run[j].waves <= WaveBound
                                 THEN run[j].waves + 1 ELSE run[j].waves]
  <2>1. run' = [run EXCEPT ![j] = k] /\ UNCHANGED <<named, attempts, setbacks>>
    BY <1>2 DEF EndWave, LoopInv, LoopTypes
  <2>2. /\ k \in Run /\ k.pc \in {"fetch", "stuck"} /\ k.todo = run[j].todo
        /\ k.wave = run[j].wave /\ k.transient = run[j].transient
        /\ k.permanent = run[j].permanent
    <3>1. run[j].waves \in 0..(WaveBound + 1) /\ WaveBound \in Nat
      BY <1>1, OwedIsFinite DEF Run
    <3>2. (IF run[j].clean /\ run[j].waves <= WaveBound
             THEN run[j].waves + 1 ELSE run[j].waves) \in 0..(WaveBound + 1)
      BY <3>1
    <3> QED
      BY <1>1, <3>2 DEF Run
  <2>3. Paid(k)
    <3>1. Paid(run[j]) /\ run[j].pc = "write" /\ run[j].todo = {}
      BY <1>2 DEF LoopInv, Paying, EndWave
    <3>2. /\ run[j].waves \in Nat /\ Cardinality(Owed) \in Nat /\ WaveBound \in Nat
          /\ (k.waves = run[j].waves \/ (run[j].clean /\ k.waves = run[j].waves + 1))
      <4>1. k.waves = IF run[j].clean /\ run[j].waves <= WaveBound
                        THEN run[j].waves + 1 ELSE run[j].waves
        BY <1>1 DEF Run
      <4> HIDE DEF k
      <4> QED
        BY <1>1, <4>1, OwedIsFinite DEF Run
    <3>3. run[j].waves + Cardinality(Owed) <= WaveBound
          /\ (run[j].clean => run[j].waves + Cardinality(Owed) < WaveBound)
      BY <3>1 DEF Paid, Spent
    <3> HIDE DEF k
    <3> QED
      BY <2>2, <3>2, <3>3 DEF Paid, Spent
  <2> HIDE DEF k
  <2> QED
    BY <1>1, <2>1, <2>2, <2>3, JobKeeps
<1>3. CASE Dies(j)
  <2>1. run' = [run EXCEPT ![j] = Start] /\ UNCHANGED <<named, attempts>>
        /\ setbacks' \in 0..MaxSetbacks
    BY <1>1, <1>3, LoopBoundsAssumption DEF Dies, Setback
  <2>2. /\ Start \in Run /\ Start.pc = "fetch" /\ Start.todo = {}
        /\ Start.transient = {} /\ Paid(Start)
    BY OwedIsFinite DEF Start, Run, Paid, Spent
  <2> QED
    BY <2>1, <2>2, JobKeeps
<1> QED
  BY <1>2, <1>3

(* The answer to a fact is counted once for each time it was listed.       *)
LEMMA WriteLoop ==
  ASSUME LoopInv, NEW j \in Passes, WriteFact(j)
  PROVE  LoopInv'
<1> DEFINE f == Min(run[j].todo)
           skipped == f \notin run[j].transient /\ Skips(j, f)
<1>1. /\ run[j] \in Run /\ setbacks \in 0..MaxSetbacks
      /\ run[j].todo \subseteq run[j].wave /\ run[j].todo \subseteq Backlog
      /\ run[j].transient \cap run[j].permanent = {}
      /\ attempts \in [Backlog -> Nat] /\ run \in [Passes -> Run]
      /\ MaxAttempts \in Nat \ {0}
  BY SizesAssumption DEF LoopInv, LoopTypes, Run
<1>2. f \in run[j].todo /\ f \in Backlog /\ run[j].pc = "write"
  <2>1. run[j].todo \in SUBSET Nat /\ run[j].todo # {}
    BY <1>1, LoopBoundsAssumption DEF Backlog, WriteFact
  <2> QED
    BY <1>1, <2>1, LeastIsIn DEF WriteFact
<1>3. PICK stored \in BOOLEAN, m \in BOOLEAN, v \in BOOLEAN, c \in BOOLEAN :
        /\ Smooth \/ Setback
        /\ named' = named \/ named' = named \cup {f}
        /\ c => run[j].clean
        /\ c /\ f \notin run[j].transient =>
              f \in named' \/ (skipped /\ stored)
        /\ attempts' = IF skipped /\ stored
                         THEN [attempts EXCEPT ![f] = @ + 1] ELSE attempts
        /\ run' = [run EXCEPT ![j].todo = @ \ {f}, ![j].matched = m,
                              ![j].moved = v, ![j].clean = c]
  <2> DEFINE linked == f \notin run[j].transient /\ ~Skips(j, f) /\ f \notin Empty
  <2>1. PICK written \in BOOLEAN : \E stored \in {FALSE, written} :
          /\ IF stored \/ ~(linked \/ skipped) THEN Smooth ELSE Setback
          /\ named' = IF linked /\ stored THEN named \cup {f} ELSE named
          /\ attempts' = IF skipped /\ stored
                           THEN [attempts EXCEPT ![f] = @ + 1] ELSE attempts
          /\ run' = [run EXCEPT ![j].todo = @ \ {f},
                       ![j].matched = @ \/ (linked /\ written),
                       ![j].moved = @ \/ (stored /\ (linked \/ skipped)),
                       ![j].clean = @ /\ (stored \/ ~(linked \/ skipped))]
    BY Zenon DEF WriteFact
  <2>2. PICK stored \in {FALSE, written} :
          /\ Smooth \/ Setback
          /\ named' = IF linked /\ stored THEN named \cup {f} ELSE named
          /\ attempts' = IF skipped /\ stored
                           THEN [attempts EXCEPT ![f] = @ + 1] ELSE attempts
          /\ run' = [run EXCEPT ![j].todo = @ \ {f},
                       ![j].matched = @ \/ (linked /\ written),
                       ![j].moved = @ \/ (stored /\ (linked \/ skipped)),
                       ![j].clean = @ /\ (stored \/ ~(linked \/ skipped))]
    <3> HIDE DEF f, linked, skipped
    <3> QED
      BY <2>1, Zenon
  <2>3. run' = [run EXCEPT ![j].todo = @ \ {f},
                  ![j].matched = run[j].matched \/ (linked /\ written),
                  ![j].moved = run[j].moved \/ (stored /\ (linked \/ skipped)),
                  ![j].clean = run[j].clean /\ (stored \/ ~(linked \/ skipped))]
    BY <1>1, <2>2
  <2>4. f \notin run[j].transient => linked \/ skipped
    BY DEF Skips
  <2> HIDE DEF f, linked, skipped
  <2> QED
    BY <2>2, <2>3, <2>4
<1> HIDE DEF f, skipped
<1>4. /\ run' \in [Passes -> Run] /\ run'[j].todo = run[j].todo \ {f}
      /\ run'[j].wave = run[j].wave /\ run'[j].pc = run[j].pc
      /\ run'[j].transient = run[j].transient /\ run'[j].permanent = run[j].permanent
      /\ run'[j].waves = run[j].waves /\ (run'[j].clean => run[j].clean)
      /\ \A i \in Passes : i # j => run'[i] = run[i]
      /\ (run'[j].clean => c)
  <2> DEFINE k == [run[j] EXCEPT !.todo = @ \ {f}, !.matched = m,
                                 !.moved = v, !.clean = c]
  <2>1. run' = [run EXCEPT ![j] = k]
    BY <1>1, <1>3
  <2>2. /\ k \in Run /\ k.todo = run[j].todo \ {f}
        /\ k.wave = run[j].wave /\ k.pc = run[j].pc
        /\ k.transient = run[j].transient /\ k.permanent = run[j].permanent
        /\ k.waves = run[j].waves /\ k.clean = c
    BY <1>1 DEF Run
  <2>3. c => run[j].clean
    BY <1>3
  <2> HIDE DEF k
  <2> QED
    BY <1>1, <2>1, <2>2, <2>3
<1>5. attempts' \in [Backlog -> Nat] /\ named' \subseteq Backlog
      /\ \A g \in Backlog : attempts'[g] >= attempts[g]
  BY <1>1, <1>2, <1>3 DEF LoopInv, LoopTypes
<1>6. setbacks' \in 0..MaxSetbacks
  BY <1>1, <1>3, LoopBoundsAssumption DEF Smooth, Setback
<1>7. LoopTypes'
  BY <1>1, <1>4, <1>5, <1>6 DEF LoopInv, LoopTypes
<1>8. NoneLeftToName'
  BY <1>1, <1>2, <1>3, <1>4, <1>5 DEF LoopInv, NoneLeftToName
<1>9. ASSUME NEW g \in Backlog
      PROVE  /\ Awaits(g)' \subseteq Awaits(g)
             /\ g = f => j \in Awaits(g) /\ Awaits(g)' = Awaits(g) \ {j}
  <2>1. \A i \in Passes : i # j => (i \in Awaits(g)' <=> i \in Awaits(g))
    BY <1>4 DEF Awaits
  <2>2. j \in Awaits(g)' <=> g \in run[j].todo \ {f}
    BY <1>2, <1>4 DEF Awaits
  <2>3. j \in Awaits(g) <=> g \in run[j].todo
    BY <1>2 DEF Awaits
  <2>4. Awaits(g) \subseteq Passes /\ Awaits(g)' \subseteq Passes
    BY DEF Awaits
  <2> QED
    BY <1>2, <2>1, <2>2, <2>3, <2>4
<1>10. Bounded'
  <2>1. CASE attempts' = attempts
    BY <1>9, <2>1, BoundKept
  <2>2. CASE attempts' = [attempts EXCEPT ![f] = @ + 1]
    <3> SUFFICES ASSUME NEW g \in Backlog, attempts'[g] >= MaxAttempts
                 PROVE  attempts'[g] + Cardinality(Awaits(g)')
                          < MaxAttempts + Cardinality(Passes)
      BY DEF Bounded
    <3>1. CASE g # f
      <4>1. attempts'[g] = attempts[g] /\ attempts[g] \in Nat
        BY <1>1, <2>2, <3>1
      <4>2. attempts[g] + Cardinality(Awaits(g)) < MaxAttempts + Cardinality(Passes)
        BY <4>1 DEF LoopInv, Bounded
      <4>3. Cardinality(Awaits(g)') \in Nat
            /\ Cardinality(Awaits(g)') <= Cardinality(Awaits(g))
        BY <1>9, AwaitsIsFinite, FS_Subset, FS_CardinalityType
      <4> QED
        BY <1>1, <4>1, <4>2, <4>3, AwaitsIsFinite
    <3>2. CASE g = f
      <4>1. attempts'[g] = attempts[g] + 1 /\ attempts[g] \in Nat
        BY <1>1, <1>2, <2>2, <3>2
      <4>2. Cardinality(Awaits(g)') = Cardinality(Awaits(g)) - 1
        BY <1>9, <3>2, AwaitsIsFinite, FS_RemoveElement
      <4>3. /\ Cardinality(Awaits(g)) \in Nat /\ Cardinality(Passes) \in Nat
            /\ Cardinality(Awaits(g)) <= Cardinality(Passes)
        BY AwaitsIsFinite
      <4>4. CASE attempts[g] >= MaxAttempts
        <5>1. attempts[g] + Cardinality(Awaits(g)) < MaxAttempts + Cardinality(Passes)
          BY <4>4 DEF LoopInv, Bounded
        <5> QED
          BY <1>1, <4>1, <4>2, <4>3, <5>1
      <4>5. CASE ~(attempts[g] >= MaxAttempts)
        BY <1>1, <4>1, <4>2, <4>3, <4>5
      <4> QED
        BY <4>4, <4>5
    <3> QED
      BY <3>1, <3>2
  <2> QED
    BY <1>3, <2>1, <2>2
<1>11. Paying'
  <2>1. named \subseteq named' /\ \A i \in Passes : run[i] \in Run /\ Paid(run[i])
    BY <1>1, <1>3 DEF LoopInv, Paying
  <2>2. \A i \in Passes : i # j => Paid(run[i])'
    BY <1>1, <1>4, <1>5, <2>1, PaidKept
  <2> DEFINE rest == Cardinality(Owed')
             w == run[j].waves
  <2>3. /\ rest \in Nat /\ Cardinality(Owed) \in Nat /\ rest <= Cardinality(Owed)
        /\ WaveBound \in Nat /\ w \in Nat
        /\ w + Cardinality(Owed) <= WaveBound
    BY <1>1, <1>5, <2>1, OwedShrinks, OwedIsFinite DEF Paid, Spent, Run
  <2>4. run[j].wave # {}
    BY <1>2, <2>1 DEF Paid
  <2>5. ASSUME run'[j].clean
        PROVE  run[j].transient = {} /\ w + rest < WaveBound
    <3>1. /\ run[j].transient = {}
          /\ run[j].wave \subseteq ToName \/ w + Cardinality(Owed) < WaveBound
      BY <1>2, <1>4, <2>1, <2>5 DEF Paid, Spent
    <3>2. CASE f \in ToName
      <4>1. f \in named' \/ attempts'[f] > attempts[f]
        BY <1>1, <1>2, <1>3, <2>5, <3>1, <1>4
      <4>2. rest < Cardinality(Owed)
        BY <1>1, <1>5, <2>1, <3>2, <4>1, OwedShrinks
      <4> QED
        BY <2>3, <3>1, <4>2
    <3>3. CASE f \notin ToName
      BY <1>1, <1>2, <2>3, <3>1, <3>3
    <3> QED
      BY <3>1, <3>2, <3>3
  <2> HIDE DEF rest, w
  <2>6. Paid(run[j])'
    <3>1. Spent(run[j])' = w + rest
      BY <1>4 DEF Spent, rest, w
    <3> QED
      BY <1>2, <1>4, <2>3, <2>4, <2>5, <3>1 DEF Paid
  <2> QED
    BY <2>2, <2>6 DEF Paying
<1> QED
  BY <1>7, <1>8, <1>10, <1>11 DEF LoopInv

LEMMA LoopInvariant == LoopSpec => []LoopInv
<1>1. LoopInit => LoopInv
  <2> SUFFICES ASSUME LoopInit
               PROVE  LoopInv
    OBVIOUS
  <2>1. /\ \A j \in Passes : run[j] = Start
        /\ \A f \in Backlog : attempts[f] = 0 /\ MaxAttempts \in Nat \ {0}
    BY SizesAssumption DEF LoopInit
  <2>2. Start \in Run /\ Start.pc = "fetch" /\ Start.todo = {} /\ Start.transient = {}
    BY OwedIsFinite DEF Start, Run
  <2>3. LoopTypes
    BY <2>1, <2>2, LoopBoundsAssumption DEF LoopInit, LoopTypes
  <2>4. Bounded /\ NoneLeftToName /\ Paying
    BY <2>1, <2>2, OwedIsFinite
    DEF Bounded, NoneLeftToName, Paying, Paid, Spent, Start
  <2> QED
    BY <2>3, <2>4 DEF LoopInv
<1>2. LoopInv /\ [LoopNext]_loopVars => LoopInv'
  <2> SUFFICES ASSUME LoopInv, [LoopNext]_loopVars
               PROVE  LoopInv'
    OBVIOUS
  <2>1. ASSUME NEW j \in Passes, Step(j) \/ Dies(j)
        PROVE  LoopInv'
    BY <2>1, FetchLoop, AnswerLoop, WriteLoop, EndLoop DEF Step
  <2>2. CASE UNCHANGED loopVars
    BY <2>2 DEF loopVars, LoopInv, LoopTypes, Bounded, Awaits, NoneLeftToName,
                Paying, Paid, Spent, Owed, ToName
  <2> QED
    BY <2>1, <2>2 DEF LoopNext
<1> QED
  BY <1>1, <1>2, PTL DEF LoopSpec

(* Every reachable state of the loop has its type; in particular no fact   *)
(* has more than MaxAttempts answers and one for each other job: a job     *)
(* that lists it sees its attempts, and counts its answer once.            *)
THEOREM AttemptsBounded == LoopSpec => []LoopTypeOK
<1>1. LoopInv => LoopTypeOK
  <2> SUFFICES ASSUME LoopInv
               PROVE  LoopTypeOK
    OBVIOUS
  <2>1. ASSUME NEW f \in Backlog
        PROVE  attempts[f] \in 0..(MaxAttempts + Cardinality(Passes) - 1)
    <3>1. attempts[f] \in Nat /\ MaxAttempts \in Nat \ {0}
      BY SizesAssumption DEF LoopInv, LoopTypes
    <3>2. CASE attempts[f] >= MaxAttempts
      <4>1. attempts[f] + Cardinality(Awaits(f)) < MaxAttempts + Cardinality(Passes)
        BY <3>2 DEF LoopInv, Bounded
      <4> QED
        BY <3>1, <4>1, AwaitsIsFinite
    <3>3. CASE ~(attempts[f] >= MaxAttempts)
      BY <3>1, <3>3, AwaitsIsFinite
    <3> QED
      BY <3>2, <3>3
  <2> QED
    BY <2>1 DEF LoopInv, LoopTypes, LoopTypeOK
<1> QED
  BY <1>1, LoopInvariant, PTL

(* For any facts, answers, jobs and failures: when a job has ended because *)
(* it found nothing more to list, every fact is named or has had all its   *)
(* attempts, and that stays so.                                            *)
THEOREM NothingLeftToName == LoopSpec => []NoneLeftToName
<1>1. LoopInv => NoneLeftToName
  BY DEF LoopInv
<1> QED
  BY <1>1, LoopInvariant, PTL

(* For any number of facts, jobs and setbacks: an attempt of a job ends no *)
(* more waves in which nothing fails than Last * MaxAttempts, and so goes  *)
(* on for ever only if calls or writes fail for ever, although it decides  *)
(* by counters of the whole job (extract_concepts.go:698).                 *)
THEOREM WavesBounded == LoopSpec => []NoWaveInVain
<1>1. LoopInv => NoWaveInVain
  <2> SUFFICES ASSUME LoopInv, NEW j \in Passes
               PROVE  run[j].waves <= WaveBound
    BY DEF NoWaveInVain
  <2>1. run[j].waves \in Nat /\ Spent(run[j]) <= WaveBound
    BY OwedIsFinite DEF LoopInv, LoopTypes, Paying, Paid, Run
  <2> QED
    BY <2>1, OwedIsFinite DEF Spent
<1> QED
  BY <1>1, LoopInvariant, PTL
=============================================================================
