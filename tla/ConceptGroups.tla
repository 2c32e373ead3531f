--------------------------- MODULE ConceptGroups ----------------------------
(***************************************************************************)
(* The contexts of a repository, its concepts, and concept_groups, the     *)
(* summary of the concepts of each name.  Extraction links facts to the    *)
(* concepts of a name and a context; migrate_context moves the concepts of *)
(* one context to another, merging those of one name; an administrator     *)
(* deletes contexts.  Extraction and migration bring the groups of the     *)
(* names that they have touched up to date when they are through;          *)
(* recompute_concept_groups rebuilds all of them.                          *)
(*                                                                         *)
(* A statement that reads, and then waits for a row before it writes, is   *)
(* two steps.  Refinement and the imports from the registry refresh the    *)
(* groups as extraction does.                                              *)
(***************************************************************************)
EXTENDS Naturals, FiniteSets, FiniteSetsExt

CONSTANTS
    Facts,       \* numbered in the order of their creation
    Ids,         \* concept ids
    NameOf,      \* and the name that the concept of each id would have
    Contexts,
    Extractors,  \* passes of extract_concepts
    Migrators,   \* the migrations that can be asked for,
    From, To,    \* and the contexts of each
    None,        \* no concept, no context
    MaxConcepts, \* bound on the concepts that each fact is given
    MaxFaults    \* bound on failing statements and crashes

ASSUME FactsAssumption == Facts \subseteq Nat
ASSUME FiniteAssumption == IsFiniteSet(Facts) /\ IsFiniteSet(Ids)
ASSUME NamesAssumption == None \notin Ids \cup Contexts
ASSUME JobsAssumption == Extractors \cap Migrators = {}
ASSUME MigrationsAssumption ==
    /\ From \in [Migrators -> Contexts] /\ To \in [Migrators -> Contexts]
    /\ \A m \in Migrators : From[m] # To[m]
    /\ \A m, o \in Migrators : From[m] = From[o] /\ To[m] = To[o] => m = o
ASSUME BoundsAssumption == MaxConcepts \in [Facts -> Nat] /\ MaxFaults \in Nat

Jobs == Extractors \cup Migrators
Names == {NameOf[i] : i \in Ids}

VARIABLES
    declared,    \* repository_contexts
    context,     \* the context of each concept, None if there is no concept
    facts,       \* fact_concepts: the facts of each concept
    groups,      \* concept_groups, by name
    job,         \* what each extraction and migration is at
    asked,       \* the migrate_context jobs that wait or run
    admin,       \* the context an administrator has found to be empty
    rebuild,     \* recompute_concept_groups and its transaction
    ever,        \* the pairs of a fact and a name that were ever linked
    late,        \* those that came to a concept that was being merged, or
                 \* that a merge into it, or with itself, found there
    behind,      \* the names whose groups may be behind: a job has not come
                 \* to refreshing them, two have refreshed them at a time, or
                 \* a concept was merged with itself, or with one that had gone
    astray,      \* whether a concept came to a context that was being emptied
                 \* or had been removed, or that was taken to be empty
    faults       \* how much of MaxFaults is used

catalog == <<context, facts>>
ghosts == <<ever, late, behind, astray>>
vars == <<declared, catalog, groups, job, asked, admin, rebuild,
          ghosts, faults>>

Fault == faults < MaxFaults /\ faults' = faults + 1
NoFault == faults' = faults

(* A group: the rows of concepts LEFT JOIN fact_concepts, and the facts.   *)
NoGroup == [contexts |-> 0, facts |-> 0]

(* contexts: those an extraction may use; ids: the concepts it has touched;*)
(* names: the groups to refresh; read: what they were read to be; todo:    *)
(* the concepts yet to migrate, cur: the one at hand, into: what it is     *)
(* merged into, copied: with what facts.                                   *)
Idle == [pc |-> "idle", contexts |-> {}, ids |-> {}, names |-> {},
         read |-> [n \in Names |-> NoGroup],
         todo |-> {}, cur |-> None, into |-> None, copied |-> {}]

NoRebuild == [pc |-> "idle", gone |-> {}, read |-> [n \in Names |-> NoGroup]]

Live == {i \in Ids : context[i] # None}
OfName(n) == {i \in Live : NameOf[i] = n}

Joined(n) == UNION {IF facts[i] = {} THEN {<<i, None>>} ELSE {i} \X facts[i] :
                    i \in OfName(n)}

(* What the SELECT of UpsertConceptGroups and of InsertAllConceptGroups-   *)
(* ForRepo yields for a name; no row when there is no concept.             *)
Aggregate(n) == [contexts |-> Cardinality(Joined(n)),
                 facts |-> Cardinality({l \in Joined(n) : l[2] # None})]

(* Whether a migration is merging the concept: what comes to it goes with  *)
(* it.                                                                     *)
Merging(i) == \E m \in Migrators :
                  job[m].pc = "copied" /\ job[m].cur = i /\ job[m].into # None

(* Whether a migration has listed the concepts of the context.             *)
Emptied(c) == \E m \in Migrators : job[m].pc # "idle" /\ From[m] = c

-----------------------------------------------------------------------------
(* Extraction, without refinement                                          *)

Unnamed(f) == \A i \in Ids : f \notin facts[i]

Begin(e) ==
    /\ job[e].pc = "idle"
    /\ declared # {} /\ \E f \in Facts : Unnamed(f)
    /\ job' = [job EXCEPT ![e] = [Idle EXCEPT !.pc = "write",
                                              !.contexts = declared]]
    /\ UNCHANGED <<declared, catalog, groups, asked, admin, rebuild,
                   ghosts, faults>>

(* An id that nothing has ever had, as far as anyone can tell.             *)
Fresh(i) == context[i] = None
              /\ \A j \in Jobs : i \notin job[j].ids \cup job[j].todo
                                            \cup {job[j].cur}

(* The transaction of the oldest fact that has no concept: the concepts of *)
(* the names that it is given, in the contexts that each is found in, are  *)
(* found or created.                                                       *)
LinkFact(e, f, at) ==
    LET touched == DOMAIN at
        merging == {i \in touched : Merging(i)}
    IN  /\ job[e].pc = "write" /\ Cardinality(touched) <= MaxConcepts[f]
        /\ Unnamed(f) /\ \A g \in Facts : g < f => ~Unnamed(g)
        /\ \A i \in touched :
              /\ at[i] \in job[e].contexts
              /\ \/ context[i] = at[i]
                 \/ Fresh(i) /\ \A k \in OfName(NameOf[i]) : context[k] # at[i]
              /\ \A k \in touched \ {i} : NameOf[i] = NameOf[k] => at[i] # at[k]
        /\ context' = [i \in Ids |-> IF i \in touched THEN at[i] ELSE context[i]]
        /\ facts' = [i \in Ids |-> facts[i] \cup IF i \in touched THEN {f} ELSE {}]
        /\ job' = [job EXCEPT ![e].ids = @ \cup touched]
        /\ ever' = ever \cup ({f} \X {NameOf[i] : i \in touched})
        /\ late' = late \cup ({f} \X {NameOf[i] : i \in merging})
        /\ astray' = (astray \/ \E i \in touched :
                                  at[i] \notin declared \/ Emptied(at[i]))
        /\ UNCHANGED <<declared, groups, asked, admin, rebuild, behind, faults>>

(* ListConceptNameKeysByIDs                                                *)
EndWave(e) ==
    /\ job[e].pc = "write" /\ job[e].ids # {}
    /\ job' = [job EXCEPT ![e] =
         [Idle EXCEPT !.pc = "refresh",
                      !.names = {NameOf[i] : i \in job[e].ids \cap Live}]]
    /\ UNCHANGED <<declared, catalog, groups, asked, admin, rebuild,
                   ghosts, faults>>

-----------------------------------------------------------------------------
(* migrate_context                                                         *)

Ask(m) ==
    /\ m \notin asked /\ {From[m], To[m]} \subseteq declared
    /\ asked' = asked \cup {m}
    /\ UNCHANGED <<declared, catalog, groups, job, admin, rebuild,
                   ghosts, faults>>

InContext(c) == {i \in Live : context[i] = c}

(* Where a migration is with concepts yet to migrate and groups to refresh.*)
Proceed(todo, names) ==
    IF todo # {} THEN "next" ELSE IF names # {} THEN "refresh" ELSE "undeclare"

(* ListConceptsByContext                                                   *)
BeginMigration(m) ==
    /\ m \in asked /\ job[m].pc = "idle"
    /\ job' = [job EXCEPT ![m].pc = Proceed(InContext(From[m]), {}),
                          ![m].todo = InContext(From[m])]
    /\ UNCHANGED <<declared, catalog, groups, asked, admin, rebuild,
                   ghosts, faults>>

(* GetConceptByNameContext: the concept to merge into.  It may be the      *)
(* concept itself, when other migrations have moved it there since it was  *)
(* listed.                                                                 *)
Found(m, i) ==
    LET targets == {k \in OfName(NameOf[i]) : context[k] = To[m]}
    IN  IF targets = {} THEN None ELSE CHOOSE k \in targets : TRUE

(* ReassignFactConceptsToConcept inserts the links that the target has not.*)
Missing(i, k) == IF k = None THEN {} ELSE facts[i] \ facts[k]

(* migrateOneConcept up to the deletion of the concept                     *)
CopyLinks(m, i) ==
    LET into == Found(m, i)
    IN  /\ job[m].pc = "next" /\ i \in job[m].todo
        /\ job' = [job EXCEPT ![m] =
             [@ EXCEPT !.pc = "copied", !.todo = job[m].todo \ {i}, !.cur = i,
                       !.into = into, !.copied = Missing(i, into)]]
        /\ late' = IF into # None /\ (into = i \/ Merging(into))
                     THEN late \cup ((facts[i] \cap facts[into]) \X {NameOf[i]})
                     ELSE late
        /\ UNCHANGED <<declared, catalog, groups, asked, admin, rebuild,
                       ever, behind, astray, faults>>

(* A new link keeps its concept from being deleted until it is committed.  *)
Holds(o, i) == job[o].pc = "copied" /\ job[o].into = i /\ job[o].copied # {}

(* mutant: there is no unique index on the name and context of a concept.  *)
NeverTaken(m) == FALSE
Taken(m) == \E k \in OfName(NameOf[job[m].cur]) \ {job[m].cur} :
                context[k] = To[m]

(* mutant: the concept is deleted, and its links with it, before they are  *)
(* copied.                                                                 *)
MergedAfter(m) == {}
Merged(m) == job[m].copied

(* The links of a concept are deleted with it, the latest too.             *)
CommitConcept(m) ==
    LET i == job[m].cur
        k == job[m].into
    IN  /\ job[m].pc = "copied"
        /\ IF k # None
             THEN /\ \A o \in Migrators \ {m} : ~Holds(o, i)
                  /\ context' = [context EXCEPT ![i] = None]
                  /\ facts' = [facts EXCEPT ![k] = @ \cup Merged(m),
                                            ![i] = {}]
             ELSE /\ ~Taken(m)
                  /\ context' = IF i \in Live
                                  THEN [context EXCEPT ![i] = To[m]]
                                  ELSE context
                  /\ UNCHANGED facts
        /\ job' = [job EXCEPT ![m] =
             [@ EXCEPT !.pc = Proceed(job[m].todo, {NameOf[i]}),
                       !.cur = None, !.into = None, !.copied = {},
                       !.names = job[m].names \cup {NameOf[i]}]]
        /\ late' = IF k # None /\ Merging(k)
                     THEN late \cup (job[m].copied \X {NameOf[i]}) ELSE late
        /\ behind' = IF k # None /\ k \notin Live \ {i}
                       THEN behind \cup {NameOf[i]} ELSE behind
        /\ astray' = (astray \/ To[m] \notin declared \/ Emptied(To[m]))
        /\ UNCHANGED <<declared, groups, asked, admin, rebuild, ever, faults>>

(* mutant: the contexts are swapped.                                       *)
RemovedTo(m) == To[m]
Removed(m) == From[m]

(* DeleteRepositoryContext, whose failure is only logged.                  *)
Undeclare(m) ==
    /\ job[m].pc = "undeclare"
    /\ \/ /\ NoFault
          /\ declared' = declared \ {Removed(m)}
       \/ Fault /\ UNCHANGED declared
    /\ asked' = asked \ {m}
    /\ job' = [job EXCEPT ![m] = Idle]
    /\ UNCHANGED <<catalog, groups, admin, rebuild, ghosts>>

-----------------------------------------------------------------------------
(* RecomputeTouchedGroups                                                  *)

Refreshing(j, n) == job[j].pc \in {"store", "prune"}
                        /\ n \in job[j].names
Crossed(j) == {n \in job[j].names :
                 \E k \in Jobs \ {j} : Refreshing(k, n)}

ReadGroups(j) ==
    /\ job[j].pc = "refresh"
    /\ job' = [job EXCEPT ![j].pc = "store",
                          ![j].read = [n \in Names |->
                                         IF n \in job[j].names
                                           THEN Aggregate(n) ELSE NoGroup]]
    /\ behind' = behind \cup Crossed(j)
    /\ UNCHANGED <<declared, catalog, groups, asked, admin, rebuild,
                   ever, late, astray, faults>>

(* The rows that the transaction of the rebuild has deleted or inserted.   *)
Rebuilt == rebuild.gone \cup {n \in Names : rebuild.read[n] # NoGroup}

StoreGroups(j) ==
    /\ job[j].pc = "store"
    /\ {n \in Names : job[j].read[n] # NoGroup} \cap Rebuilt = {}
    /\ groups' = [n \in Names |-> IF job[j].read[n] # NoGroup
                                    THEN job[j].read[n] ELSE groups[n]]
    /\ job' = [job EXCEPT ![j].pc = "prune", ![j].read = Idle.read]
    /\ UNCHANGED <<declared, catalog, asked, admin, rebuild, ghosts,
                   faults>>

Dead(j) == {n \in job[j].names : groups[n] # NoGroup /\ OfName(n) = {}}

(* DeleteStaleConceptGroups; a merge leaves the target, so that it finds   *)
(* none that it would have to wait for, but for a concept merged with      *)
(* itself, or with one that has gone.                                      *)
Prune(j) ==
    /\ job[j].pc = "prune"
    /\ Dead(j) \cap Rebuilt = {}
    /\ groups' = [n \in Names |-> IF n \in Dead(j) THEN NoGroup ELSE groups[n]]
    /\ job' = [job EXCEPT ![j] =
         IF j \in Migrators THEN [Idle EXCEPT !.pc = "undeclare"] ELSE Idle]
    /\ UNCHANGED <<declared, catalog, asked, admin, rebuild, ghosts, faults>>

-----------------------------------------------------------------------------
(* Failures                                                                *)

(* What the job has changed and not refreshed to the end.                  *)
Owed(j) == job[j].names \cup {NameOf[i] : i \in job[j].ids}

(* The refresh of the groups fails, and the job goes on without it.        *)
RefreshFails(j) ==
    /\ job[j].pc \in {"refresh", "store", "prune"}
    /\ Fault
    /\ behind' = behind \cup Owed(j)
    /\ job' = [job EXCEPT ![j] =
         IF j \in Migrators THEN [Idle EXCEPT !.pc = "undeclare"] ELSE Idle]
    /\ UNCHANGED <<declared, catalog, groups, asked, admin, rebuild,
                   ever, late, astray>>

(* Migrations that wait for one another: each merges a concept that one of *)
(* them holds.                                                             *)
Deadlocked(S) == \A m \in S : /\ job[m].into # None
                              /\ \E o \in S \ {m} : Holds(o, job[m].cur)

(* The concept at hand cannot be migrated: its place has been taken, or    *)
(* the deletion would wait for ever.                                       *)
Refused(m) ==
    /\ job[m].pc = "copied"
    /\ \/ job[m].into = None /\ Taken(m)
       \/ \E S \in SUBSET Migrators : m \in S /\ Deadlocked(S)

(* A migration that fails starts again, or is discarded after its attempts;*)
(* a pass of extraction that dies is run again too, on other facts.        *)
Die(j) ==
    /\ job[j].pc # "idle"
    /\ \/ Fault
       \/ j \in Migrators /\ Refused(j) /\ NoFault
    /\ behind' = behind \cup Owed(j)
    /\ asked' \in {asked, asked \ {j}}
    /\ job' = [job EXCEPT ![j] = Idle]
    /\ UNCHANGED <<declared, catalog, groups, admin, rebuild, ever,
                   late, astray>>

-----------------------------------------------------------------------------
(* DeleteContext: a count that cannot be had is taken for zero.            *)
CountConcepts(c) ==
    /\ admin = None /\ c \in declared
    /\ \/ InContext(c) = {} /\ NoFault
       \/ Fault
    /\ admin' = c
    /\ astray' = (astray \/ InContext(c) # {})
    /\ UNCHANGED <<declared, catalog, groups, job, asked, rebuild,
                   ever, late, behind>>

DeleteContext ==
    /\ admin # None
    /\ declared' = declared \ {admin}
    /\ admin' = None
    /\ astray' = (astray \/ InContext(admin) # {})
    /\ UNCHANGED <<catalog, groups, job, asked, rebuild, ever, late,
                   behind, faults>>

-----------------------------------------------------------------------------
(* recompute_concept_groups: a DELETE and an INSERT in one transaction     *)

DeleteAllGroups ==
    /\ rebuild.pc = "idle"
    /\ rebuild' = [NoRebuild EXCEPT !.pc = "insert",
                     !.gone = {n \in Names : groups[n] # NoGroup}]
    /\ UNCHANGED <<declared, catalog, groups, job, asked, admin,
                   ghosts, faults>>

(* A group that was added meanwhile is a violation of the primary key.     *)
InsertAllGroups ==
    /\ rebuild.pc = "insert"
    /\ rebuild' =
         IF \E n \in Names \ rebuild.gone :
               groups[n] # NoGroup /\ OfName(n) # {}
           THEN NoRebuild
           ELSE [rebuild EXCEPT !.pc = "commit",
                   !.read = [n \in Names |-> Aggregate(n)]]
    /\ UNCHANGED <<declared, catalog, groups, job, asked, admin,
                   ghosts, faults>>

(* mutant: the rebuild replaces the groups there are.                      *)
RebuiltRows(n) == IF groups[n] # NoGroup THEN rebuild.read[n] ELSE groups[n]
RowsAfter(n) == IF n \in Rebuilt THEN rebuild.read[n] ELSE groups[n]

CommitRebuild ==
    /\ rebuild.pc = "commit"
    /\ groups' = [n \in Names |-> RowsAfter(n)]
    /\ behind' = {n \in behind : \/ \E j \in Jobs : Refreshing(j, n)
                                 \/ rebuild.read[n] # Aggregate(n)
                                 \/ n \notin Rebuilt /\ groups[n] # NoGroup}
    /\ rebuild' = NoRebuild
    /\ UNCHANGED <<declared, catalog, job, asked, admin, ever, late, astray,
                   faults>>

RebuildFails ==
    /\ rebuild.pc \in {"insert", "commit"}
    /\ Fault
    /\ rebuild' = NoRebuild
    /\ UNCHANGED <<declared, catalog, groups, job, asked, admin,
                   ghosts>>

-----------------------------------------------------------------------------
Init ==
    /\ declared = Contexts
    /\ context = [i \in Ids |-> None] /\ facts = [i \in Ids |-> {}]
    /\ groups = [n \in Names |-> NoGroup]
    /\ job = [j \in Jobs |-> Idle] /\ asked = {} /\ admin = None
    /\ rebuild = NoRebuild
    /\ faults = 0
    /\ ever = {} /\ late = {} /\ behind = {} /\ astray = FALSE

Extract(e) ==
    \/ Begin(e) \/ EndWave(e)
    \/ \E f \in Facts, S \in SUBSET Ids \ {{}} :
          \E at \in [S -> Contexts] : LinkFact(e, f, at)

Migrate(m) ==
    \/ Ask(m) \/ BeginMigration(m) \/ CommitConcept(m) \/ Undeclare(m)
    \/ \E i \in Ids : CopyLinks(m, i)

Refresh(j) ==
    \/ ReadGroups(j) \/ StoreGroups(j) \/ Prune(j)
    \/ RefreshFails(j) \/ Die(j)

Next ==
    \/ \E e \in Extractors : Extract(e)
    \/ \E m \in Migrators : Migrate(m)
    \/ \E j \in Jobs : Refresh(j)
    \/ (\E c \in Contexts : CountConcepts(c)) \/ DeleteContext
    \/ DeleteAllGroups \/ InsertAllGroups \/ CommitRebuild \/ RebuildFails

Spec == Init /\ [][Next]_vars

-----------------------------------------------------------------------------
(* Properties                                                              *)

Group == [contexts : Nat, facts : Nat]
Job == [pc : {"idle", "write", "next", "copied", "refresh", "store", "prune",
              "undeclare"},
        contexts : SUBSET Contexts, ids : SUBSET Ids, names : SUBSET Names,
        read : [Names -> Group], todo : SUBSET Ids,
        cur : Ids \cup {None}, into : Ids \cup {None}, copied : SUBSET Facts]

TypeOK ==
    /\ declared \subseteq Contexts
    /\ context \in [Ids -> Contexts \cup {None}]
    /\ facts \in [Ids -> SUBSET Facts]
    /\ \A i \in Ids \ Live : facts[i] = {}
    /\ \A i, k \in Live : NameOf[i] = NameOf[k] /\ context[i] = context[k]
                             => i = k
    /\ groups \in [Names -> Group]
    /\ job \in [Jobs -> Job] /\ asked \subseteq Migrators
    /\ admin \in Contexts \cup {None}
    /\ rebuild \in [pc : {"idle", "insert", "commit"}, gone : SUBSET Names,
                    read : [Names -> Group]]
    /\ ever \subseteq Facts \X Names /\ late \subseteq ever
    /\ behind \subseteq Names /\ astray \in BOOLEAN
    /\ faults \in 0..MaxFaults

(* The summary is live (0061_concept_groups.up.sql:7): once the jobs that  *)
(* have touched a name have refreshed its group, or a rebuild has, the     *)
(* group has the facts of its concepts, and there is one exactly when      *)
(* there is a concept; unless one of the jobs failed, refreshes of the     *)
(* name overlapped, or a concept was merged with itself or with one that   *)
(* had gone.  A rebuild may run along with any of them.                    *)
GroupsLive ==
    \A n \in Names \ behind :
        (\A j \in Jobs : n \notin Owed(j)) => groups[n] = Aggregate(n)

(* No migration, alone or along with another, loses what was found in a    *)
(* fact: it is linked to some concept of the name, in whatever context.    *)
(* Except for what an extraction or another merge brought to a concept, or *)
(* found there and did not copy, while it was being merged; and for a      *)
(* concept that other migrations have taken to the target before, which is *)
(* merged with itself.                                                     *)
LinksSurvive ==
    \A l \in ever \ late :
        \E i \in OfName(l[2]) : l[1] \in facts[i]

(* No concept is in a context that the repository has not: a migration     *)
(* removes a context when it has left nothing in it.  Unless an extraction *)
(* or another migration that still went by the context has put one there.  *)
ContextsDeclared ==
    ~astray => \A i \in Live : context[i] \in declared

(* context_count is the number of per-context rows of the name             *)
(* (0061_concept_groups.up.sql:14).                                        *)
ContextsCounted ==
    \A n \in Names \ behind :
        (\A j \in Jobs : n \notin Owed(j))
            => groups[n].contexts = Cardinality(OfName(n))
=============================================================================
