------------------------- MODULE ConceptRefinement --------------------------
(***************************************************************************)
(* From the names that extract_concepts finds in facts to concepts, with   *)
(* refinement enabled.  A name that is new becomes a candidate, to which   *)
(* facts are linked; refine_concepts finds or creates the concept of the   *)
(* candidate, copies its links to the concept, and then clears them and    *)
(* keeps the candidate as a cache: from then on facts are linked straight  *)
(* to the concept.                                                         *)
(*                                                                         *)
(* One context.  Statements of their own are steps of their own; a write   *)
(* transaction of an extraction becomes visible when it commits.  A        *)
(* refine_concepts job is taken apart into the candidates of its chunk,    *)
(* which it refines concurrently and independently.                        *)
(***************************************************************************)
EXTENDS Naturals, FiniteSets, Sequences, FiniteSetsExt, Functions

CONSTANTS
    Facts,       \* the stable facts
    Texts,       \* the names: candidates, canonical names and aliases
    Found,       \* the names the LLM finds in each fact
    Seeds,       \* the seed aliases it gives with each, in their order
    Answers,     \* for each name the canonical names it may propose
    Extra,       \* and the aliases it adds to them, in their order
    Refiners,    \* what can refine a candidate
    NoConcept,
    MaxTasks,    \* bound on the waiting tasks of a candidate
    MaxFaults    \* bound on failing calls and on crashes

ASSUME NamesAssumption ==
    /\ Found \in [Facts -> SUBSET Texts] /\ Answers \in [Texts -> SUBSET Texts]
    /\ Seeds \in [Texts -> Seq(Texts)] /\ Extra \in [Texts -> Seq(Texts)]
    /\ NoConcept \notin Texts
ASSUME BoundsAssumption == MaxTasks \in Nat /\ MaxFaults \in Nat

VARIABLES
    concepts,    \* the concepts there are, by their canonical names
    aliases,     \* concept_aliases: pairs of a concept and a name
    links,       \* fact_concepts: pairs of a fact and a concept
    state,       \* of each candidate: "none", "open" or "resolved",
    resolved,    \* the concept it is resolved to, if it is,
    pending,     \* and its facts: pairs of a fact and a candidate
    writing,     \* the extraction of each fact, and its transaction
    asks,        \* the tasks that wait, a number for each candidate
    task,        \* what each refiner is at
    extracted,   \* the pairs of a fact and a name that were ever committed
    routes,      \* the concepts each candidate was ever routed to
    met,         \* the candidates that gained a fact while being resolved
    left,        \* the candidates that a task has left unresolved
    owed,        \* the concepts that gained a fact since they were last
                 \* given to summarize_concepts
    faults       \* how much of MaxFaults is used

catalog == <<concepts, aliases, links>>
candidates == <<state, resolved, pending>>
ghosts == <<extracted, routes, met, left>>
vars == <<catalog, candidates, writing, asks, task, ghosts, owed, faults>>

Fault == faults < MaxFaults /\ faults' = faults + 1
NoFault == faults' = faults

(* todo: the names to link; made: the candidates the transaction has       *)
(* inserted, rows: those it has linked, and cached: the concepts found in  *)
(* the cache, with their names.                                            *)
NoWrite == [pc |-> "idle", todo |-> {}, made |-> {}, rows |-> {},
            cached |-> {}]
(* name: the canonical name the LLM gave; among: the concepts an ambiguous *)
(* name has led to; rest, won and kept: the facts to route one by one, the *)
(* concepts that took some, and whether any stays; gone: whether the       *)
(* candidate was deleted meanwhile.                                        *)
NoTask == [pc |-> "idle", cand |-> NoConcept, name |-> NoConcept,
           target |-> NoConcept, among |-> {}, rest |-> {}, won |-> {},
           kept |-> FALSE, gone |-> FALSE]

LinkedFacts(t) == {f \in Facts : <<f, t>> \in pending}

-----------------------------------------------------------------------------
(* extract_concepts                                                        *)

(* ListStableFactsForConceptExtraction: the fact has neither a concept nor *)
(* a candidate.  The LLM call follows, and the write transaction begins.   *)
Listed(f) == /\ \A k \in concepts : <<f, k>> \notin links
             /\ \A t \in Texts : <<f, t>> \notin pending

Begin(f) ==
    /\ writing[f].pc = "idle" /\ Listed(f) /\ Found[f] # {}
    /\ writing' = [writing EXCEPT ![f].pc = "write", ![f].todo = Found[f]]
    /\ UNCHANGED <<catalog, candidates, asks, task, ghosts, owed, faults>>

(* linkFactToConcept and emitCandidate for one name: the cached concept,   *)
(* or a candidate, its own or another's that is not resolved.  An insert   *)
(* waits for another transaction that has inserted the same candidate.     *)
LinkName(f, t) ==
    /\ writing[f].pc = "write" /\ t \in writing[f].todo
    /\ \A g \in Facts \ {f} : t \notin writing[g].made
    /\ LET w == writing[f]
       IN  writing' = [writing EXCEPT ![f] =
             [w EXCEPT
                !.todo = w.todo \ {t},
                !.cached = IF state[t] = "resolved"
                             THEN w.cached \cup {<<t, resolved[t]>>}
                             ELSE w.cached,
                !.rows = IF state[t] # "resolved" THEN w.rows \cup {t}
                                                  ELSE w.rows,
                !.made = IF state[t] = "none" THEN w.made \cup {t}
                                              ELSE w.made]]
    /\ UNCHANGED <<catalog, candidates, asks, task, ghosts, owed, faults>>

BeingResolved(t) ==
    \/ state[t] = "resolved"
    \/ \E r \in Refiners : /\ task[r].cand = t /\ ~task[r].gone
                           /\ task[r].pc \in {"resolve", "fork"}

Commit(f) ==
    /\ writing[f].pc = "write" /\ writing[f].todo = {}
    /\ LET w == writing[f]
           gained == {c[2] : c \in w.cached}
       IN  /\ links' = links \cup ({f} \X gained)
           /\ owed' = owed \cup {k \in gained : <<f, k>> \notin links}
           /\ pending' = pending \cup ({f} \X w.rows)
           /\ state' = [t \in Texts |-> IF t \in w.made THEN "open"
                                                        ELSE state[t]]
           /\ extracted' = extracted \cup ({f} \X w.rows)
                            \cup {<<f, c[1]>> : c \in w.cached}
           /\ routes' = routes \cup w.cached
           /\ met' = met \cup {t \in w.rows : BeingResolved(t)}
    /\ writing' = [writing EXCEPT ![f] = [NoWrite EXCEPT !.pc = "chain"]]
    /\ UNCHANGED <<concepts, aliases, resolved, asks, task, left, faults>>

Abort(f) ==
    /\ writing[f].pc = "write"
    /\ Fault
    /\ writing' = [writing EXCEPT ![f] = [NoWrite EXCEPT !.pc = "chain"]]
    /\ UNCHANGED <<catalog, candidates, asks, task, ghosts, owed>>

(* mutant: only the candidates that the pass itself has created.           *)
ToRefineOwn(f) == {t \in Texts : state[t] = "open" /\ LinkedFacts(t) = {f}}
(* ListUnresolvedCandidatesBySource: joined to the facts they have.        *)
ToRefine(f) == {t \in Texts : state[t] = "open" /\ LinkedFacts(t) # {}}

(* enqueueRefineConcepts, at the end of the pass.  Nothing is enqueued for *)
(* the concepts that were linked from the cache.                           *)
EnqueueRefine(f) ==
    /\ writing[f].pc = "chain"
    /\ \A t \in ToRefine(f) : asks[t] < MaxTasks
    /\ \/ /\ NoFault
          /\ asks' = [t \in Texts |-> IF t \in ToRefine(f) THEN asks[t] + 1
                                                           ELSE asks[t]]
       \/ Fault /\ asks' = asks
    /\ writing' = [writing EXCEPT ![f] = NoWrite]
    /\ UNCHANGED <<catalog, candidates, task, ghosts, owed>>

-----------------------------------------------------------------------------
(* Routing                                                                 *)

(* mutant: a name that is asked for is taken to be a concept.              *)
AnyCanonical(t) == {t}
ByCanonical(t) == concepts \cap {t}
ByAlias(t) == ByCanonical(t) \cup {k \in concepts : <<k, t>> \in aliases}
Matches(t) == IF ByCanonical(t) # {} THEN ByCanonical(t) ELSE ByAlias(t)

(* What the first name of ts that matches anything matches.                *)
FirstMatches(ts) ==
    LET hits == {i \in DOMAIN ts : Matches(ts[i]) # {}}
    IN  IF hits = {} THEN {} ELSE Matches(ts[Min(hits)])

Steps(r, pc) == task' = [task EXCEPT ![r].pc = pc]
Done(r) == task' = [task EXCEPT ![r] = NoTask]

TaskFacts(r) == IF task[r].gone THEN {} ELSE LinkedFacts(task[r].cand)

(* One concept takes all facts of the candidate; among several each fact   *)
(* is routed by itself.                                                    *)
Route(r, found, otherwise) ==
    task' = [task EXCEPT ![r] =
        IF Cardinality(found) = 1
          THEN [@ EXCEPT !.pc = "merge", !.target = CHOOSE k \in found : TRUE]
        ELSE IF found # {}
          THEN [@ EXCEPT !.pc = "fork", !.among = found, !.rest = TaskFacts(r)]
        ELSE [@ EXCEPT !.pc = otherwise]]

Load(r, t) ==
    /\ task[r].pc = "idle" /\ asks[t] > 0
    /\ asks' = [asks EXCEPT ![t] = @ - 1]
    /\ task' = [task EXCEPT ![r] =
         IF state[t] = "resolved"
           THEN [@ EXCEPT !.pc = "chain", !.cand = t, !.target = resolved[t]]
           ELSE [@ EXCEPT !.pc = "match", !.cand = t]]
    /\ UNCHANGED <<catalog, candidates, writing, ghosts, owed, faults>>

MatchBefore(r) ==
    /\ task[r].pc = "match"
    /\ Route(r, FirstMatches(<<task[r].cand>> \o Seeds[task[r].cand]), "ask")
    /\ UNCHANGED <<catalog, candidates, writing, asks, ghosts, owed, faults>>

Ask(r) ==
    /\ task[r].pc = "ask"
    /\ \E name \in Answers[task[r].cand] :
          task' = [task EXCEPT ![r].pc = "locked", ![r].name = name]
    /\ UNCHANGED <<catalog, candidates, writing, asks, ghosts, owed, faults>>

(* The advisory lock of the name, as a pool grants it: another task that   *)
(* has it may or may not be on the same session.                           *)
Locked(name) ==
    \E r \in Refiners : task[r].name = name
                            /\ task[r].pc \in {"create", "merge", "resolve", "fork"}

MatchAfter(r) ==
    /\ task[r].pc = "locked"
    /\ LET name == task[r].name
       IN  Route(r, IF name \in concepts THEN {name}
                                         ELSE FirstMatches(Extra[name]),
                 "create")
    /\ UNCHANGED <<catalog, candidates, writing, asks, ghosts, owed, faults>>

(* The candidate is left for another pass, if there is one: the lock is    *)
(* held, or a step fails.  The job goes on and ends as done.               *)
Leave(r) ==
    /\ \/ task[r].pc = "locked" /\ Locked(task[r].name) /\ NoFault
       \/ task[r].pc \notin {"idle", "chain"} /\ Fault
    /\ Done(r)
    /\ left' = left \cup {task[r].cand}
    /\ UNCHANGED <<catalog, candidates, writing, asks, extracted, routes, met,
                   owed>>

(* CreateConcept with its aliases; another task may have been first.       *)
Create(r) ==
    /\ task[r].pc = "create"
    /\ concepts' = concepts \cup {task[r].name}
    /\ aliases' = IF task[r].name \in concepts THEN aliases
                  ELSE aliases \cup ({task[r].name} \X
                         ({task[r].name, task[r].cand}
                            \cup Range(Seeds[task[r].cand])
                            \cup Range(Extra[task[r].name])))
    /\ task' = [task EXCEPT ![r].pc = "merge", ![r].target = task[r].name]
    /\ UNCHANGED <<links, candidates, writing, asks, ghosts, owed, faults>>

-----------------------------------------------------------------------------
(* Resolution                                                              *)

NewAliases(r) ==
    {task[r].cand} \cup Range(Seeds[task[r].cand])
      \cup (IF task[r].name = NoConcept THEN {} ELSE Range(Extra[task[r].name]))

(* mutant: a concept that has facts has them all.                          *)
CopiedIfNew(r) ==
    IF \E f \in Facts : <<f, task[r].target>> \in links THEN {} ELSE TaskFacts(r)
(* ReassignFactCandidatesToConcept                                         *)
Copied(r) == TaskFacts(r)

Merge(r) ==
    /\ task[r].pc = "merge"
    /\ links' = links \cup (Copied(r) \X {task[r].target})
    /\ owed' = IF links' # links THEN owed \cup {task[r].target} ELSE owed
    /\ aliases' = aliases \cup ({task[r].target} \X NewAliases(r))
    /\ routes' = routes \cup {<<task[r].cand, task[r].target>>}
    /\ Steps(r, "resolve")
    /\ UNCHANGED <<concepts, candidates, writing, asks, extracted, met, left,
                   faults>>

(* resolveCandidate: one transaction.                                      *)
Resolve(r) ==
    LET t == task[r].cand
    IN  /\ task[r].pc = "resolve"
        /\ IF task[r].gone THEN UNCHANGED candidates
           ELSE /\ pending' = {p \in pending : p[2] # t}
                /\ state' = [state EXCEPT ![t] = "resolved"]
                /\ resolved' = [resolved EXCEPT ![t] = task[r].target]
        /\ Steps(r, "chain")
        /\ UNCHANGED <<catalog, writing, asks, ghosts, owed, faults>>

(* ResolveAliasMatchForFact looks the candidate's own name up, whatever    *)
(* name has led here; without vectors it cannot tell several concepts      *)
(* apart, and the fact stays.                                              *)
RouteFact(r, f) ==
    LET t == task[r].cand
        near == ByAlias(t)
    IN  /\ task[r].pc = "fork" /\ f \in task[r].rest
        /\ \/ \E k \in near :
                 /\ links' = links \cup {<<f, k>>}
                 /\ owed' = IF <<f, k>> \in links THEN owed ELSE owed \cup {k}
                 /\ pending' = IF task[r].gone THEN pending
                                               ELSE pending \ {<<f, t>>}
                 /\ routes' = routes \cup {<<t, k>>}
                 /\ task' = [task EXCEPT ![r].rest = @ \ {f},
                                         ![r].won = @ \cup {k}]
           \/ /\ Cardinality(near) # 1
              /\ task' = [task EXCEPT ![r].rest = @ \ {f}, ![r].kept = TRUE]
              /\ UNCHANGED <<links, owed, pending, routes>>
        /\ UNCHANGED <<concepts, aliases, state, resolved, writing, asks,
                       extracted, met, left, faults>>

(* All facts are routed: the candidate is deleted, which waits for the     *)
(* transactions that refer to it; tasks that have its id find it no more.  *)
(* Of several concepts none is passed on.                                  *)
DeleteCandidate(t) ==
    /\ \A f \in Facts : t \notin writing[f].rows
    /\ pending' = {p \in pending : p[2] # t}
    /\ state' = [state EXCEPT ![t] = "none"]
    /\ resolved' = [resolved EXCEPT ![t] = NoConcept]
    /\ asks' = [asks EXCEPT ![t] = 0]

EndFork(r) ==
    LET t == task[r].cand
        won == task[r].won
        after == IF ~task[r].kept /\ Cardinality(won) = 1
                   THEN [task[r] EXCEPT !.pc = "chain", !.gone = TRUE,
                                        !.target = CHOOSE k \in won : TRUE]
                   ELSE NoTask
        deletes == ~task[r].kept /\ ~task[r].gone
    IN  /\ task[r].pc = "fork" /\ task[r].rest = {}
        /\ aliases' = aliases \cup ((won \cap task[r].among) \X NewAliases(r))
        /\ left' = IF task[r].kept THEN left \cup {t} ELSE left
        /\ IF deletes THEN DeleteCandidate(t)
                      ELSE UNCHANGED <<candidates, asks>>
        /\ task' = [q \in Refiners |->
              IF q = r THEN after
              ELSE IF deletes /\ task[q].cand = t
                THEN [task[q] EXCEPT !.gone = TRUE]
              ELSE task[q]]
        /\ UNCHANGED <<concepts, links, writing, extracted, routes, met, owed,
                       faults>>

Again(r) ==
    asks' = IF task[r].gone THEN asks
                            ELSE [asks EXCEPT ![task[r].cand] = @ + 1]

(* enqueueSummarizeConcepts; an error has the job run again, which finds   *)
(* the candidate resolved, or deleted: then nothing is asked for again.    *)
Chain(r) ==
    /\ task[r].pc = "chain"
    /\ \/ /\ NoFault
          /\ owed' = owed \ {task[r].target}
          /\ UNCHANGED asks
       \/ /\ Fault
          /\ Again(r)
          /\ UNCHANGED owed
    /\ Done(r)
    /\ UNCHANGED <<catalog, candidates, writing, ghosts>>

(* The worker dies, and the job is rescued.                                *)
Crash(r) ==
    /\ task[r].pc # "idle"
    /\ Fault
    /\ Done(r)
    /\ Again(r)
    /\ UNCHANGED <<catalog, candidates, writing, ghosts, owed>>

-----------------------------------------------------------------------------
Init ==
    /\ concepts = {} /\ aliases = {} /\ links = {}
    /\ state = [t \in Texts |-> "none"]
    /\ resolved = [t \in Texts |-> NoConcept]
    /\ pending = {}
    /\ writing = [f \in Facts |-> NoWrite]
    /\ asks = [t \in Texts |-> 0]
    /\ task = [r \in Refiners |-> NoTask]
    /\ extracted = {} /\ routes = {} /\ met = {} /\ left = {} /\ owed = {}
    /\ faults = 0

Extract(f) ==
    \/ Begin(f) \/ Commit(f) \/ Abort(f) \/ EnqueueRefine(f)
    \/ \E t \in Texts : LinkName(f, t)

Refine(r) ==
    \/ MatchBefore(r) \/ Ask(r) \/ MatchAfter(r) \/ Create(r)
    \/ Merge(r) \/ Resolve(r) \/ EndFork(r) \/ Chain(r)
    \/ Leave(r) \/ Crash(r)
    \/ \E t \in Texts : Load(r, t)
    \/ \E f \in Facts : RouteFact(r, f)

Next == (\E f \in Facts : Extract(f)) \/ (\E r \in Refiners : Refine(r))

Spec == Init /\ [][Next]_vars

-----------------------------------------------------------------------------
(* Properties                                                              *)

Write == [pc : {"idle", "write", "chain"}, todo : SUBSET Texts,
          made : SUBSET Texts, rows : SUBSET Texts,
          cached : SUBSET (Texts \X Texts)]
Task == [pc : {"idle", "match", "ask", "locked", "create", "merge", "resolve",
               "fork", "chain"},
         cand : Texts \cup {NoConcept}, name : Texts \cup {NoConcept},
         target : Texts \cup {NoConcept}, among : SUBSET Texts,
         rest : SUBSET Facts, won : SUBSET Texts, kept : BOOLEAN,
         gone : BOOLEAN]

TypeOK ==
    /\ concepts \subseteq Texts /\ aliases \subseteq concepts \X Texts
    /\ links \subseteq Facts \X concepts
    /\ state \in [Texts -> {"none", "open", "resolved"}]
    /\ resolved \in [Texts -> concepts \cup {NoConcept}]
    /\ \A t \in Texts : (state[t] = "resolved") = (resolved[t] # NoConcept)
    /\ pending \subseteq Facts \X Texts
    /\ writing \in [Facts -> Write] /\ task \in [Refiners -> Task]
    /\ asks \in [Texts -> Nat]
    /\ extracted \subseteq Facts \X Texts
    /\ routes \subseteq Texts \X concepts
    /\ met \subseteq Texts /\ left \subseteq Texts
    /\ owed \subseteq concepts /\ faults \in 0..MaxFaults

OnItsWay(f, t) == <<f, t>> \in pending /\ state[t] = "open"
Arrived(f, t) == \E k \in concepts : <<t, k>> \in routes /\ <<f, k>> \in links

(* Whatever name was found in a fact, the fact is linked to a concept that *)
(* the name was routed to, or the candidate that has it is to be refined;  *)
(* except for a fact that meets its candidate in the middle of being       *)
(* resolved.  Neither a crash between the copying and the clearing of the  *)
(* links nor two tasks on one candidate lose any.                          *)
NothingStranded ==
    \A f \in Facts, t \in Texts \ met :
        <<f, t>> \in extracted => OnItsWay(f, t) \/ Arrived(f, t)

Quiescent == /\ \A f \in Facts : writing[f].pc = "idle"
             /\ \A r \in Refiners : task[r].pc = "idle"
             /\ \A t \in Texts : asks[t] = 0

(* When nothing has failed and no work is left, the candidates that are    *)
(* still open are those a task has given up: no fact of another pass and   *)
(* no repeated name is overlooked.                                         *)
OnlyLeftOpen ==
    Quiescent /\ faults = 0 =>
        \A t \in Texts : state[t] = "open" /\ LinkedFacts(t) # {} => t \in left

(* When refinement is enabled, it chains to summarize_concepts on          *)
(* completion (extract_concepts.go:747): when all work is done, no concept *)
(* has gained a fact that no summary was asked for.                        *)
SummariesAsked == Quiescent /\ faults = 0 => owed = {}
=============================================================================
