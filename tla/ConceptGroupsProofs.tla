------------------------ MODULE ConceptGroupsProofs -------------------------
(* Theorems about ConceptGroups, for any facts, concepts, contexts, jobs   *)
(* and faults.                                                             *)
EXTENDS ConceptGroups, TLAPS, FiniteSetTheorems

Merger(m) == job[m].pc = "copied" /\ job[m].into # None

(* What the fields of a job are good for, by where it is.                  *)
Fields(j) ==
  /\ job[j].pc = "idle" => job[j].names = {}
  /\ job[j].pc # "write" => job[j].ids = {}
  /\ job[j].pc \notin {"next", "copied"} => job[j].todo = {}
  /\ job[j].pc # "copied" => job[j].cur = None /\ job[j].into = None
  /\ job[j].pc = "copied" => job[j].cur # None /\ j \in Migrators
  /\ job[j].into = None => job[j].copied = {}
  /\ job[j].pc \in {"write", "undeclare"} => job[j].names = {}
  /\ \A n \in Names : job[j].read[n] # NoGroup
                         => job[j].pc = "store" /\ n \in job[j].names

Types ==
  /\ TypeOK
  /\ \A j \in Jobs : Fields(j)
  /\ \A i \in Ids : \A f \in facts[i] : <<f, NameOf[i]>> \in ever
  /\ rebuild.pc # "commit" => rebuild.read = NoRebuild.read
  /\ rebuild.pc = "idle" => rebuild.gone = {}

(* What a migration merges a concept into has the name of the concept, and *)
(* stays while it is given links that it has not.                          *)
Target(m) ==
  /\ Merger(m) => NameOf[job[m].into] = NameOf[job[m].cur]
  /\ \A f \in job[m].copied : <<f, NameOf[job[m].cur]>> \in ever
  /\ job[m].copied # {} => job[m].into \in Live /\ job[m].into # job[m].cur
Targets == \A m \in Migrators : Target(m)

(* A link that every migration of its concept carries over.                *)
Safe(f, i) ==
  /\ f \in facts[i]
  /\ \A m \in Migrators : Merger(m) /\ job[m].cur = i => f \in job[m].copied

Links == \A l \in ever \ late : \E i \in OfName(l[2]) : Safe(l[1], i)

(* A migration has seen all there is in the context that it empties.       *)
Declared ==
  ~astray =>
    /\ \A i \in Live : context[i] \in declared
    /\ \A m \in Migrators : job[m].pc # "idle"
          => InContext(From[m]) \subseteq job[m].todo \cup {job[m].cur}

(* The job is to refresh the group.                                        *)
Owes(j, n) == \/ n \in job[j].names
              \/ \E i \in job[j].ids \cap Live : NameOf[i] = n

(* What a refresh has read, or a rebuild, is how things are, unless some   *)
(* other job is still to come that has changed them.                       *)
Alone(j, n) == \A k \in Jobs \ {j} : ~Owes(k, n)
Refreshed(n) ==
  /\ \A j, k \in Jobs : Refreshing(j, n) /\ Refreshing(k, n) => j = k
  /\ (\A j \in Jobs : ~Owes(j, n)) => groups[n] = Aggregate(n)
  /\ \A j \in Jobs : Refreshing(j, n) /\ Alone(j, n) =>
        /\ job[j].pc = "store" => job[j].read[n] = Aggregate(n)
        /\ job[j].pc = "prune" => groups[n] = Aggregate(n) \/ OfName(n) = {}
Resumed(n) ==
  rebuild.pc = "commit" /\ n \in Rebuilt =>
    /\ \/ rebuild.read[n] = Aggregate(n)
       \/ \E j \in Jobs : Owes(j, n) /\ job[j].pc # "prune"
    /\ OfName(n) = {} => rebuild.read[n] = NoGroup
Kept == \A n \in Names \ behind : Refreshed(n) /\ Resumed(n)

GroupsInv == Types /\ Targets /\ Links /\ Declared /\ Kept

-----------------------------------------------------------------------------
(* The tables are finite, so that a group has its counts.                  *)
LEMMA JoinedFinite ==
  ASSUME TypeOK, NEW n \in Names
  PROVE  IsFiniteSet(Joined(n))
<1>1. IsFiniteSet(Facts \cup {None})
  BY FiniteAssumption, FS_AddElement
<1>2. IsFiniteSet(Ids \X (Facts \cup {None}))
  BY <1>1, FiniteAssumption, FS_Product
<1>3. Joined(n) \subseteq Ids \X (Facts \cup {None})
  BY DEF TypeOK, Joined, OfName, Live
<1> QED
  BY <1>2, <1>3, FS_Subset

LEMMA AggregateType ==
  ASSUME TypeOK, NEW n \in Names
  PROVE  /\ Aggregate(n) \in Group
         /\ Aggregate(n) = NoGroup <=> OfName(n) = {}
<1> DEFINE linked == {l \in Joined(n) : l[2] # None}
<1>1. Cardinality(Joined(n)) \in Nat
  BY JoinedFinite, FS_CardinalityType
<1>2. IsFiniteSet(linked)
  BY JoinedFinite, FS_Subset
<1>3. Cardinality(linked) \in Nat
  BY <1>2, FS_CardinalityType
<1>4. Aggregate(n) = [contexts |-> Cardinality(Joined(n)),
                      facts |-> Cardinality(linked)]
  BY DEF Aggregate
<1>5. Aggregate(n) \in Group
  BY <1>1, <1>3, <1>4 DEF Group
<1>6. ASSUME OfName(n) = {}
      PROVE  Aggregate(n) = NoGroup
  <2>1. Joined(n) = {} /\ linked = {}
    BY <1>6 DEF Joined
  <2> QED
    BY <2>1, <1>4, FS_EmptySet DEF NoGroup
<1>7. ASSUME OfName(n) # {}
      PROVE  Aggregate(n) # NoGroup
  <2>1. PICK i \in OfName(n) : TRUE
    BY <1>7
  <2> DEFINE rows == IF facts[i] = {} THEN {<<i, None>>} ELSE {i} \X facts[i]
  <2>2. PICK l \in rows : TRUE
    <3>1. CASE facts[i] = {}
      <4>1. <<i, None>> \in rows
        BY <3>1
      <4> QED
        BY <4>1
    <3>2. CASE facts[i] # {}
      <4>1. PICK f \in facts[i] : TRUE
        BY <3>2
      <4>2. <<i, f>> \in rows
        BY <3>2, <4>1
      <4> QED
        BY <4>2
    <3> QED
      BY <3>1, <3>2
  <2>3. rows \subseteq Joined(n)
    BY <2>1 DEF Joined
  <2>4. Cardinality(Joined(n)) # 0
    BY <2>2, <2>3, JoinedFinite, FS_EmptySet
  <2> QED
    BY <2>4, <1>4 DEF NoGroup
<1> QED
  BY <1>5, <1>6, <1>7

LEMMA NoGroupType == NoGroup \in Group
BY DEF NoGroup, Group

LEMMA IdleType ==
  /\ Idle \in Job /\ Idle.pc = "idle" /\ Idle.contexts = {} /\ Idle.ids = {}
  /\ Idle.names = {} /\ Idle.read = [n \in Names |-> NoGroup]
  /\ Idle.todo = {} /\ Idle.cur = None /\ Idle.into = None
  /\ Idle.copied = {}
BY NoGroupType DEF Idle, Job

LEMMA NameOfId == \A i \in Ids : NameOf[i] \in Names
BY DEF Names

(* One job moves, and the others stay where they are.                      *)
Moves(j) == /\ job' \in [Jobs -> Job]
            /\ \A o \in Jobs \ {j} : job'[o] = job[o]

LEMMA FieldsStay ==
  ASSUME NEW j \in Jobs, Fields(j), job'[j] = job[j]
  PROVE  Fields(j)'
BY DEF Fields

LEMMA FieldsOfIdle ==
  ASSUME NEW j \in Jobs, job'[j] = Idle
  PROVE  Fields(j)'
BY IdleType DEF Fields

(* What each action does to its job.                                       *)
LEMMA BeginJob ==
  ASSUME Types, NEW e \in Extractors, Begin(e)
  PROVE  /\ Moves(e) /\ Fields(e)'
         /\ job'[e].pc = "write" /\ job'[e].names = {} /\ job'[e].ids = {}
         /\ job'[e].contexts \subseteq Contexts
<1> DEFINE x == [Idle EXCEPT !.pc = "write"]
           y == [x EXCEPT !.contexts = declared]
<1>1. /\ x \in Job /\ x.pc = "write" /\ x.contexts = {} /\ x.ids = {}
      /\ x.names = {} /\ x.read = [n \in Names |-> NoGroup]
      /\ x.todo = {} /\ x.cur = None /\ x.into = None /\ x.copied = {}
  BY IdleType DEF Job
<1>2. declared \subseteq Contexts
  BY DEF Types, TypeOK
<1>3. /\ y \in Job /\ y.pc = "write" /\ y.contexts = declared /\ y.ids = {}
      /\ y.names = {} /\ y.read = [n \in Names |-> NoGroup]
      /\ y.todo = {} /\ y.cur = None /\ y.into = None /\ y.copied = {}
  BY <1>1, <1>2 DEF Job
<1>4. e \in Jobs /\ job' = [job EXCEPT ![e] = y]
  BY DEF Begin, Jobs
<1>5. Moves(e) /\ job'[e] = y
  BY <1>3, <1>4 DEF Moves, Types, TypeOK
<1> QED
  BY <1>2, <1>3, <1>5 DEF Fields

LEMMA LinkFactJob ==
  ASSUME Types, NEW e \in Extractors, NEW f \in Facts,
         NEW S \in SUBSET Ids, NEW at \in [S -> Contexts], LinkFact(e, f, at)
  PROVE  /\ Moves(e) /\ Fields(e)'
         /\ job[e].pc = "write" /\ job'[e].pc = "write"
         /\ job'[e].names = job[e].names
         /\ job'[e].ids = job[e].ids \cup S
<1> DEFINE r == job[e]
           x == [r EXCEPT !.ids = @ \cup S]
<1>1. e \in Jobs /\ r \in Job /\ Fields(e)
  BY DEF Types, TypeOK, Jobs
<1>2. DOMAIN at = S
  OBVIOUS
<1>3. job' = [job EXCEPT ![e] = x] /\ r.pc = "write"
  BY <1>2 DEF LinkFact
<1>4. /\ x \in Job /\ x.pc = r.pc /\ x.names = r.names
      /\ x.ids = r.ids \cup S /\ x.read = r.read /\ x.todo = r.todo
      /\ x.cur = r.cur /\ x.into = r.into /\ x.copied = r.copied
  BY <1>1 DEF Job
<1>5. Moves(e) /\ job'[e] = x
  BY <1>1, <1>3, <1>4 DEF Moves, Types, TypeOK
<1>6. /\ r.names = {} /\ r.todo = {} /\ r.cur = None /\ r.into = None
      /\ r.copied = {} /\ \A n \in Names : r.read[n] = NoGroup
  BY <1>1, <1>3 DEF Fields
<1>7. /\ x.pc = "write" /\ x.names = {} /\ x.todo = {} /\ x.cur = None
      /\ x.into = None /\ x.copied = {}
      /\ \A n \in Names : x.read[n] = NoGroup
  BY <1>3, <1>4, <1>6
<1> HIDE DEF r, x
<1>8. Fields(e)'
  BY <1>5, <1>7 DEF Fields
<1> QED
  BY <1>3, <1>4, <1>5, <1>8 DEF r

LEMMA EndWaveJob ==
  ASSUME Types, NEW e \in Extractors, EndWave(e)
  PROVE  /\ Moves(e) /\ Fields(e)'
         /\ job[e].pc = "write" /\ job'[e].pc = "refresh"
         /\ job'[e].names = {NameOf[i] : i \in job[e].ids \cap Live}
         /\ job'[e].ids = {}
<1> DEFINE N == {NameOf[i] : i \in job[e].ids \cap Live}
           x == [Idle EXCEPT !.pc = "refresh"]
           y == [x EXCEPT !.names = N]
<1>1. e \in Jobs /\ job[e] \in Job /\ N \subseteq Names
  BY DEF Types, TypeOK, Jobs, Job, Names, Live
<1>2. /\ x \in Job /\ x.pc = "refresh" /\ x.ids = {}
      /\ x.read = [n \in Names |-> NoGroup]
      /\ x.todo = {} /\ x.cur = None /\ x.into = None /\ x.copied = {}
  BY IdleType DEF Job
<1>3. /\ y \in Job /\ y.pc = "refresh" /\ y.ids = {} /\ y.names = N
      /\ y.read = [n \in Names |-> NoGroup]
      /\ y.todo = {} /\ y.cur = None /\ y.into = None /\ y.copied = {}
  BY <1>1, <1>2 DEF Job
<1>4. job' = [job EXCEPT ![e] = y] /\ job[e].pc = "write"
  BY DEF EndWave
<1>5. Moves(e) /\ job'[e] = y
  BY <1>1, <1>3, <1>4 DEF Moves, Types, TypeOK
<1> QED
  BY <1>3, <1>4, <1>5 DEF Fields

LEMMA BeginMigrationJob ==
  ASSUME Types, NEW m \in Migrators, BeginMigration(m)
  PROVE  /\ Moves(m) /\ Fields(m)'
         /\ job[m].pc = "idle" /\ job'[m].pc \in {"next", "undeclare"}
         /\ job'[m].names = job[m].names /\ job'[m].ids = job[m].ids
         /\ job'[m].todo = InContext(From[m])
         /\ job'[m].copied = job[m].copied
         /\ job'[m].pc # "next" => job'[m].todo = {}
<1> DEFINE r == job[m]
           pc == Proceed(InContext(From[m]), {})
           x == [r EXCEPT !.pc = pc]
           y == [x EXCEPT !.todo = InContext(From[m])]
<1>1. m \in Jobs /\ r \in Job /\ Fields(m)
  BY DEF Types, TypeOK, Jobs
<1>2. /\ pc \in {"next", "undeclare"}
      /\ pc # "next" => InContext(From[m]) = {}
  BY DEF Proceed
<1>3. /\ x \in Job /\ x.pc = pc /\ x.ids = r.ids /\ x.names = r.names
      /\ x.read = r.read /\ x.cur = r.cur /\ x.into = r.into
      /\ x.copied = r.copied
  BY <1>1, <1>2 DEF Job
<1>4. InContext(From[m]) \subseteq Ids
  BY DEF InContext, Live
<1>5. /\ y \in Job /\ y.pc = pc /\ y.ids = r.ids /\ y.names = r.names
      /\ y.todo = InContext(From[m])
      /\ y.read = r.read /\ y.cur = r.cur /\ y.into = r.into
      /\ y.copied = r.copied
  BY <1>3, <1>4 DEF Job
<1>6. job' = [job EXCEPT ![m] = y] /\ r.pc = "idle"
  BY <1>1 DEF BeginMigration, Types, TypeOK
<1>7. Moves(m) /\ job'[m] = y
  BY <1>1, <1>5, <1>6 DEF Moves, Types, TypeOK
<1>8. job'[m].pc # "next" => job'[m].todo = {}
  BY <1>2, <1>5, <1>7
<1>9. /\ r.names = {} /\ r.ids = {} /\ r.cur = None /\ r.into = None
      /\ r.copied = {} /\ \A n \in Names : r.read[n] = NoGroup
  BY <1>1, <1>6 DEF Fields
<1>10. /\ y.names = {} /\ y.ids = {} /\ y.cur = None /\ y.into = None
       /\ y.copied = {} /\ \A n \in Names : y.read[n] = NoGroup
  BY <1>5, <1>9
<1>11. y.pc \in {"next", "undeclare"} /\ (y.pc # "next" => y.todo = {})
  BY <1>2, <1>5
<1> HIDE DEF r, x, y, pc
<1>12. Fields(m)'
  BY <1>7, <1>10, <1>11 DEF Fields
<1> QED
  BY <1>5, <1>6, <1>7, <1>8, <1>11, <1>12 DEF r

LEMMA FoundType ==
  ASSUME NEW m \in Migrators, NEW i \in Ids, Found(m, i) # None
  PROVE  /\ Found(m, i) \in Live /\ NameOf[Found(m, i)] = NameOf[i]
         /\ Found(m, i) \in Ids /\ context[Found(m, i)] = To[m]
<1> DEFINE targets == {k \in OfName(NameOf[i]) : context[k] = To[m]}
<1>1. targets # {}
  BY DEF Found
<1>2. (CHOOSE k \in targets : TRUE) \in targets
  BY <1>1
<1>3. Found(m, i) = CHOOSE k \in targets : TRUE
  BY <1>1 DEF Found
<1>4. Found(m, i) \in targets
  BY <1>2, <1>3
<1> QED
  BY <1>4 DEF OfName, Live

LEMMA CopyLinksJob ==
  ASSUME Types, NEW m \in Migrators, NEW i \in Ids, CopyLinks(m, i)
  PROVE  /\ Moves(m) /\ Fields(m)'
         /\ job[m].pc = "next" /\ job'[m].pc = "copied"
         /\ i \in job[m].todo
         /\ job'[m].names = job[m].names /\ job'[m].ids = job[m].ids
         /\ job'[m].todo = job[m].todo \ {i}
         /\ job'[m].cur = i /\ job'[m].into = Found(m, i)
         /\ job'[m].copied = Missing(i, Found(m, i))
         /\ late' = IF Found(m, i) # None
                          /\ (Found(m, i) = i \/ Merging(Found(m, i)))
                     THEN late \cup ((facts[i] \cap facts[Found(m, i)])
                                        \X {NameOf[i]})
                     ELSE late
<1> DEFINE r == job[m]
           k == Found(m, i)
           C == Missing(i, k)
           x == [r EXCEPT !.pc = "copied", !.todo = r.todo \ {i}, !.cur = i,
                          !.into = k, !.copied = C]
<1>1. m \in Jobs /\ r \in Job /\ Fields(m)
  BY DEF Types, TypeOK, Jobs
<1>2. k \in Ids \cup {None} /\ C \subseteq Facts
  BY FoundType DEF Types, TypeOK, Missing
<1>3. /\ job' = [job EXCEPT ![m] = x] /\ r.pc = "next" /\ i \in r.todo
      /\ late' = IF k # None /\ (k = i \/ Merging(k))
                   THEN late \cup ((facts[i] \cap facts[k]) \X {NameOf[i]})
                   ELSE late
  BY DEF CopyLinks
<1> HIDE DEF k
<1> HIDE DEF C
<1>4. /\ x \in Job /\ x.pc = "copied" /\ x.ids = r.ids /\ x.names = r.names
      /\ x.read = r.read /\ x.todo = r.todo \ {i} /\ x.cur = i
      /\ x.into = k /\ x.copied = C
  BY <1>1, <1>2 DEF Job
<1>5. Moves(m) /\ job'[m] = x
  BY <1>1, <1>3, <1>4 DEF Moves, Types, TypeOK
<1>6. k = None => C = {}
  BY DEF C, Missing
<1>7. Fields(m)'
  BY <1>1, <1>3, <1>4, <1>5, <1>6, NamesAssumption DEF Fields
<1> QED
  BY <1>3, <1>4, <1>5, <1>7 DEF k, C

LEMMA CommitConceptJob ==
  ASSUME Types, NEW m \in Migrators, CommitConcept(m)
  PROVE  /\ Moves(m) /\ Fields(m)'
         /\ job[m].pc = "copied" /\ job'[m].pc \in {"next", "refresh"}
         /\ job'[m].names = job[m].names \cup {NameOf[job[m].cur]}
         /\ job'[m].ids = job[m].ids
         /\ job'[m].todo = job[m].todo
         /\ job'[m].cur = None /\ job'[m].into = None
         /\ job'[m].copied = {}
         /\ job[m].cur \in Ids
         /\ job'[m].pc # "next" => job'[m].todo = {}
<1> DEFINE r == job[m]
           i == r.cur
           pc == Proceed(r.todo, {NameOf[i]})
           x == [r EXCEPT !.pc = pc, !.cur = None, !.into = None,
                          !.copied = {}, !.names = r.names \cup {NameOf[i]}]
<1>1. m \in Jobs /\ r \in Job /\ Fields(m)
  BY DEF Types, TypeOK, Jobs
<1>2. job' = [job EXCEPT ![m] = x] /\ r.pc = "copied"
  BY DEF CommitConcept
<1>3. i \in Ids
  BY <1>1, <1>2 DEF Fields, Job
<1>4. NameOf[i] \in Names
  BY <1>3, NameOfId
<1>5. pc \in {"next", "refresh"} /\ (pc # "next" => r.todo = {})
  BY DEF Proceed
<1> HIDE DEF pc
<1>6. /\ x \in Job /\ x.pc = pc /\ x.ids = r.ids
      /\ x.names = r.names \cup {NameOf[i]}
      /\ x.read = r.read /\ x.todo = r.todo /\ x.cur = None
      /\ x.into = None /\ x.copied = {}
  BY <1>1, <1>4, <1>5 DEF Job
<1>7. Moves(m) /\ job'[m] = x
  BY <1>1, <1>2, <1>6 DEF Moves, Types, TypeOK
<1>8. Fields(m)'
  BY <1>1, <1>2, <1>5, <1>6, <1>7 DEF Fields
<1> QED
  BY <1>2, <1>3, <1>5, <1>6, <1>7, <1>8

LEMMA ReadGroupsJob ==
  ASSUME Types, NEW j \in Jobs, ReadGroups(j)
  PROVE  /\ Moves(j) /\ Fields(j)'
         /\ job[j].pc = "refresh" /\ job'[j].pc = "store"
         /\ job'[j].names = job[j].names /\ job'[j].ids = job[j].ids
         /\ job'[j].todo = {}
         /\ \A n \in job[j].names : job'[j].read[n] = Aggregate(n)
<1> DEFINE r == job[j]
           rd == [n \in Names |-> IF n \in r.names THEN Aggregate(n)
                                                   ELSE NoGroup]
           x == [r EXCEPT !.pc = "store"]
           y == [x EXCEPT !.read = rd]
<1>1. r \in Job /\ Fields(j) /\ r.names \subseteq Names
  BY DEF Types, TypeOK, Job
<1>2. rd \in [Names -> Group]
  BY AggregateType, NoGroupType DEF Types
<1>3. /\ x \in Job /\ x.pc = "store" /\ x.ids = r.ids /\ x.names = r.names
      /\ x.todo = r.todo /\ x.cur = r.cur /\ x.into = r.into
      /\ x.copied = r.copied
  BY <1>1 DEF Job
<1>4. job' = [job EXCEPT ![j] = y] /\ r.pc = "refresh"
  BY DEF ReadGroups, Types, TypeOK
<1>5. \A n \in Names : rd[n] # NoGroup => n \in r.names
  OBVIOUS
<1>6. \A n \in r.names : rd[n] = Aggregate(n)
  BY <1>1
<1> HIDE DEF rd
<1>7. /\ y \in Job /\ y.pc = "store" /\ y.ids = r.ids /\ y.names = r.names
      /\ y.todo = r.todo /\ y.cur = r.cur /\ y.into = r.into
      /\ y.copied = r.copied /\ y.read = rd
  BY <1>2, <1>3 DEF Job
<1>8. Moves(j) /\ job'[j] = y
  BY <1>4, <1>7 DEF Moves, Types, TypeOK
<1>9. \A n \in Names : y.read[n] # NoGroup => n \in y.names
  BY <1>5, <1>7
<1>10. Fields(j)'
  BY <1>1, <1>4, <1>7, <1>8, <1>9 DEF Fields
<1> QED
  BY <1>1, <1>4, <1>6, <1>7, <1>8, <1>10 DEF Fields

LEMMA StoreGroupsJob ==
  ASSUME Types, NEW j \in Jobs, StoreGroups(j)
  PROVE  /\ Moves(j) /\ Fields(j)'
         /\ job[j].pc = "store" /\ job'[j].pc = "prune"
         /\ job'[j].names = job[j].names /\ job'[j].ids = job[j].ids
         /\ job'[j].todo = {}
<1> DEFINE r == job[j]
           x == [r EXCEPT !.pc = "prune"]
           y == [x EXCEPT !.read = Idle.read]
<1>1. r \in Job /\ Fields(j)
  BY DEF Types, TypeOK, Job
<1>2. Idle.read = [n \in Names |-> NoGroup] /\ Idle.read \in [Names -> Group]
  BY IdleType, NoGroupType
<1>3. /\ x \in Job /\ x.pc = "prune" /\ x.ids = r.ids /\ x.names = r.names
      /\ x.todo = r.todo /\ x.cur = r.cur /\ x.into = r.into
      /\ x.copied = r.copied
  BY <1>1 DEF Job
<1>4. job' = [job EXCEPT ![j] = y] /\ r.pc = "store"
  BY DEF StoreGroups, Types, TypeOK
<1>7. /\ y \in Job /\ y.pc = "prune" /\ y.ids = r.ids /\ y.names = r.names
      /\ y.todo = r.todo /\ y.cur = r.cur /\ y.into = r.into
      /\ y.copied = r.copied /\ y.read = [n \in Names |-> NoGroup]
  BY <1>2, <1>3 DEF Job
<1>8. Moves(j) /\ job'[j] = y
  BY <1>4, <1>7 DEF Moves, Types, TypeOK
<1>9. \A n \in Names : y.read[n] = NoGroup
  BY <1>7
<1>10. Fields(j)'
  BY <1>1, <1>4, <1>7, <1>8, <1>9 DEF Fields
<1> QED
  BY <1>1, <1>4, <1>7, <1>8, <1>10 DEF Fields

(* What is left of a job that has refreshed the groups, or failed to.      *)
After(j) == IF j \in Migrators THEN [Idle EXCEPT !.pc = "undeclare"] ELSE Idle

LEMMA AfterType ==
  ASSUME NEW j \in Jobs
  PROVE  /\ After(j) \in Job /\ After(j).pc \in {"idle", "undeclare"}
         /\ After(j).ids = {} /\ After(j).names = {} /\ After(j).todo = {}
         /\ After(j).read = [n \in Names |-> NoGroup]
         /\ After(j).cur = None /\ After(j).into = None
         /\ After(j).copied = {}
<1> DEFINE x == [Idle EXCEPT !.pc = "undeclare"]
<1>1. /\ x \in Job /\ x.pc = "undeclare"
      /\ x.ids = {} /\ x.names = {} /\ x.todo = {}
      /\ x.read = [n \in Names |-> NoGroup]
      /\ x.cur = None /\ x.into = None /\ x.copied = {}
  BY IdleType DEF Job
<1> QED
  BY <1>1, IdleType DEF After

(* Each way in which a job ends, or its refresh does.                      *)
LEMMA EndingJob ==
  ASSUME Types, NEW j \in Jobs,
         \/ Prune(j) \/ RefreshFails(j) \/ Die(j)
         \/ j \in Migrators /\ Undeclare(j)
  PROVE  /\ Moves(j) /\ Fields(j)'
         /\ job'[j].pc \in {"idle", "undeclare"}
         /\ job'[j].names = {} /\ job'[j].ids = {} /\ job'[j].todo = {}
         /\ job'[j].cur = None /\ job'[j].into = None
         /\ job'[j].copied = {}
         /\ ~Prune(j) /\ ~RefreshFails(j) => job'[j] = Idle
<1>1. Idle \in Job /\ After(j) \in Job /\ job \in [Jobs -> Job]
  BY IdleType, AfterType DEF Types, TypeOK
<1>2. CASE Prune(j) \/ RefreshFails(j)
  <2>1. job' = [job EXCEPT ![j] = After(j)]
    BY <1>2 DEF Prune, RefreshFails, After
  <2>2. Moves(j) /\ job'[j] = After(j)
    BY <1>1, <2>1 DEF Moves
  <2>3. Fields(j)'
    BY <2>2, AfterType DEF Fields
  <2> QED
    BY <1>2, <2>2, <2>3, AfterType
<1>3. CASE Die(j) \/ (j \in Migrators /\ Undeclare(j))
  <2>1. job' = [job EXCEPT ![j] = Idle]
    BY <1>3 DEF Die, Undeclare
  <2>2. Moves(j) /\ job'[j] = Idle
    BY <1>1, <2>1 DEF Moves
  <2> QED
    BY <1>3, <2>2, IdleType, FieldsOfIdle
<1> QED
  BY <1>2, <1>3

-----------------------------------------------------------------------------
(* The types                                                               *)
LEMMA FieldsAll ==
  ASSUME Types, NEW j \in Jobs, Moves(j), Fields(j)'
  PROVE  job' \in [Jobs -> Job] /\ \A o \in Jobs : Fields(o)'
<1>1. ASSUME NEW o \in Jobs, o # j PROVE Fields(o)'
  BY <1>1, FieldsStay DEF Types, Moves
<1> QED
  BY <1>1 DEF Moves

LEMMA FieldsNone ==
  ASSUME Types, job' = job
  PROVE  job' \in [Jobs -> Job] /\ \A o \in Jobs : Fields(o)'
<1>1. ASSUME NEW o \in Jobs PROVE Fields(o)'
  BY FieldsStay DEF Types
<1> QED
  BY <1>1 DEF Types, TypeOK

RebuildType == [pc : {"idle", "insert", "commit"}, gone : SUBSET Names,
                read : [Names -> Group]]
RebuildFields == /\ rebuild.pc # "commit" => rebuild.read = NoRebuild.read
                 /\ rebuild.pc = "idle" => rebuild.gone = {}

LEMMA NoRebuildType ==
  /\ NoRebuild \in RebuildType /\ NoRebuild.pc = "idle"
  /\ NoRebuild.gone = {} /\ NoRebuild.read = [n \in Names |-> NoGroup]
BY NoGroupType DEF NoRebuild, RebuildType

(* The steps that leave the concepts and their links alone.                *)
LEMMA TypesIf ==
  ASSUME Types, job' \in [Jobs -> Job], \A o \in Jobs : Fields(o)',
         UNCHANGED <<context, facts, ever>>, late' = late,
         declared' \subseteq Contexts, groups' \in [Names -> Group],
         asked' \subseteq Migrators, admin' \in Contexts \cup {None},
         rebuild' \in RebuildType, RebuildFields',
         behind' \subseteq Names, astray' \in BOOLEAN,
         faults' \in 0..MaxFaults
  PROVE  Types'
<1>1. TypeOK'
  <2>1. Live' = Live
    BY DEF Live
  <2> QED
    BY <2>1 DEF Types, TypeOK, RebuildType
<1>2. (\A i \in Ids : \A f \in facts[i] : <<f, NameOf[i]>> \in ever)'
  BY DEF Types
<1> QED
  BY <1>1, <1>2 DEF Types, RebuildFields

LEMMA FaultType ==
  ASSUME Types, Fault \/ NoFault
  PROVE  faults' \in 0..MaxFaults
BY BoundsAssumption DEF Types, TypeOK, Fault, NoFault

LEMMA NowTypes ==
  ASSUME Types
  PROVE  /\ declared \subseteq Contexts /\ groups \in [Names -> Group]
         /\ asked \subseteq Migrators /\ admin \in Contexts \cup {None}
         /\ rebuild \in RebuildType /\ RebuildFields
         /\ behind \subseteq Names /\ astray \in BOOLEAN
         /\ faults \in 0..MaxFaults
         /\ late \subseteq ever
BY DEF Types, TypeOK, RebuildType, RebuildFields

LEMMA SameRebuild ==
  ASSUME RebuildFields, rebuild' = rebuild
  PROVE  RebuildFields'
BY DEF RebuildFields, NoRebuild

LEMMA OwedType ==
  ASSUME Types, NEW j \in Jobs
  PROVE  Owed(j) \subseteq Names
<1>1. job[j] \in Job
  BY DEF Types, TypeOK
<1> QED
  BY <1>1, NameOfId DEF Owed, Job

LEMMA TypesBegin ==
  ASSUME Types, NEW e \in Extractors, Begin(e) \/ EndWave(e)
  PROVE  Types'
<1>1. e \in Jobs /\ job' \in [Jobs -> Job] /\ \A o \in Jobs : Fields(o)'
  BY BeginJob, EndWaveJob, FieldsAll DEF Jobs
<1>2. UNCHANGED <<declared, catalog, groups, asked, admin, rebuild, ghosts,
                  faults>>
  BY DEF Begin, EndWave
<1> QED
  BY <1>1, <1>2, NowTypes, SameRebuild, TypesIf DEF catalog, ghosts

LEMMA TypesAsk ==
  ASSUME Types, NEW m \in Migrators, Ask(m)
  PROVE  Types'
<1>1. job' \in [Jobs -> Job] /\ \A o \in Jobs : Fields(o)'
  BY FieldsNone DEF Ask
<1>2. UNCHANGED <<declared, catalog, groups, admin, rebuild, ghosts, faults>>
      /\ asked' = asked \cup {m}
  BY DEF Ask
<1> QED
  BY <1>1, <1>2, NowTypes, SameRebuild, TypesIf DEF catalog, ghosts

LEMMA TypesBeginMigration ==
  ASSUME Types, NEW m \in Migrators, BeginMigration(m)
  PROVE  Types'
<1>1. m \in Jobs /\ job' \in [Jobs -> Job] /\ \A o \in Jobs : Fields(o)'
  BY BeginMigrationJob, FieldsAll DEF Jobs
<1>2. UNCHANGED <<declared, catalog, groups, asked, admin, rebuild, ghosts,
                  faults>>
  BY DEF BeginMigration
<1> QED
  BY <1>1, <1>2, NowTypes, SameRebuild, TypesIf DEF catalog, ghosts

LEMMA TypesUndeclare ==
  ASSUME Types, NEW m \in Migrators, Undeclare(m)
  PROVE  Types'
<1>1. m \in Jobs /\ job' \in [Jobs -> Job] /\ \A o \in Jobs : Fields(o)'
  BY EndingJob, FieldsAll DEF Jobs
<1>2. /\ UNCHANGED <<catalog, groups, admin, rebuild, ghosts>>
      /\ declared' \subseteq declared /\ asked' \subseteq asked
  BY DEF Undeclare
<1>3. faults' \in 0..MaxFaults
  BY FaultType DEF Undeclare
<1> QED
  BY <1>1, <1>2, <1>3, NowTypes, SameRebuild, TypesIf DEF catalog, ghosts

LEMMA TypesRefresh ==
  ASSUME Types, NEW j \in Jobs,
         ReadGroups(j) \/ StoreGroups(j) \/ Prune(j)
  PROVE  Types'
<1>1. job' \in [Jobs -> Job] /\ \A o \in Jobs : Fields(o)'
  BY ReadGroupsJob, StoreGroupsJob, EndingJob, FieldsAll
<1>2. /\ UNCHANGED <<declared, catalog, asked, admin, rebuild, ever, late,
                     astray, faults>>
      /\ behind' \subseteq behind \cup Crossed(j)
  BY DEF ReadGroups, StoreGroups, Prune, ghosts
<1>3. groups' \in [Names -> Group]
  <2>1. job[j].read \in [Names -> Group] /\ groups \in [Names -> Group]
    BY DEF Types, TypeOK, Job
  <2> QED
    BY <2>1, NoGroupType DEF ReadGroups, StoreGroups, Prune
<1>4. Crossed(j) \subseteq Names
  BY DEF Crossed, Types, TypeOK, Job
<1>5. behind' \subseteq Names
  BY <1>2, <1>4, NowTypes
<1> QED
  BY <1>1, <1>2, <1>3, <1>5, NowTypes, SameRebuild, TypesIf DEF catalog

LEMMA TypesFails ==
  ASSUME Types, NEW j \in Jobs, RefreshFails(j) \/ Die(j)
  PROVE  Types'
<1>1. job' \in [Jobs -> Job] /\ \A o \in Jobs : Fields(o)'
  BY EndingJob, FieldsAll
<1>2. /\ UNCHANGED <<declared, catalog, groups, admin, rebuild, ever, late,
                     astray>>
      /\ asked' \subseteq asked /\ behind' = behind \cup Owed(j)
  BY DEF RefreshFails, Die
<1>3. faults' \in 0..MaxFaults
  BY FaultType DEF RefreshFails, Die
<1>4. behind' \subseteq Names
  BY <1>2, OwedType, NowTypes
<1> QED
  BY <1>1, <1>2, <1>3, <1>4, NowTypes, SameRebuild, TypesIf DEF catalog

LEMMA TypesAdmin ==
  ASSUME Types, (\E c \in Contexts : CountConcepts(c)) \/ DeleteContext
  PROVE  Types'
<1>1. job' \in [Jobs -> Job] /\ \A o \in Jobs : Fields(o)'
  BY FieldsNone DEF CountConcepts, DeleteContext
<1>2. /\ UNCHANGED <<catalog, groups, asked, rebuild, ever, late, behind>>
      /\ declared' \subseteq declared /\ admin' \in Contexts \cup {None}
      /\ astray' \in BOOLEAN
  BY DEF CountConcepts, DeleteContext
<1>3. faults' \in 0..MaxFaults
  BY FaultType DEF CountConcepts, DeleteContext, NoFault
<1> QED
  BY <1>1, <1>2, <1>3, NowTypes, SameRebuild, TypesIf DEF catalog

LEMMA TypesRebuild ==
  ASSUME Types,
         DeleteAllGroups \/ InsertAllGroups \/ CommitRebuild \/ RebuildFails
  PROVE  Types'
<1>1. job' \in [Jobs -> Job] /\ \A o \in Jobs : Fields(o)'
  BY FieldsNone DEF DeleteAllGroups, InsertAllGroups, CommitRebuild,
                    RebuildFails
<1>2. UNCHANGED <<declared, catalog, asked, admin, ever, late, astray>>
  BY DEF DeleteAllGroups, InsertAllGroups, CommitRebuild, RebuildFails,
         ghosts
<1>3. faults' \in 0..MaxFaults /\ behind' \subseteq behind
  BY FaultType DEF DeleteAllGroups, InsertAllGroups, CommitRebuild,
                   RebuildFails, NoFault, ghosts
<1>4. groups' \in [Names -> Group]
  BY NowTypes DEF DeleteAllGroups, InsertAllGroups, CommitRebuild,
                  RebuildFails, RowsAfter, RebuildType
<1>5. rebuild' \in RebuildType /\ RebuildFields'
  <2>1. CASE DeleteAllGroups
    <3> DEFINE N == {n \in Names : groups[n] # NoGroup}
               x == [NoRebuild EXCEPT !.pc = "insert", !.gone = N]
    <3>1. /\ x \in RebuildType /\ x.pc = "insert"
          /\ x.read = [n \in Names |-> NoGroup]
      BY NoRebuildType DEF RebuildType
    <3>2. rebuild' = x
      BY <2>1 DEF DeleteAllGroups
    <3> QED
      BY <3>1, <3>2, NoRebuildType DEF RebuildFields
  <2>2. CASE InsertAllGroups
    <3> DEFINE rd == [n \in Names |-> Aggregate(n)]
               x == [rebuild EXCEPT !.pc = "commit", !.read = rd]
    <3>1. rd \in [Names -> Group]
      BY AggregateType DEF Types
    <3>2. rebuild' = x \/ rebuild' = NoRebuild
      BY <2>2 DEF InsertAllGroups
    <3> HIDE DEF rd
    <3>3. x \in RebuildType /\ x.pc = "commit"
      BY <3>1, NowTypes DEF RebuildType
    <3> QED
      BY <3>2, <3>3, NoRebuildType DEF RebuildFields
  <2>3. CASE CommitRebuild \/ RebuildFails
    <3>1. rebuild' = NoRebuild
      BY <2>3 DEF CommitRebuild, RebuildFails
    <3> QED
      BY <3>1, NoRebuildType DEF RebuildFields
  <2> QED
    BY <2>1, <2>2, <2>3
<1> QED
  BY <1>1, <1>2, <1>3, <1>4, <1>5, NowTypes, TypesIf DEF catalog

LEMMA TypesLinkFact ==
  ASSUME Types, NEW e \in Extractors, NEW f \in Facts,
         NEW S \in SUBSET Ids, NEW at \in [S -> Contexts], LinkFact(e, f, at)
  PROVE  Types'
<1>0. DOMAIN at = S
  OBVIOUS
<1>1. e \in Jobs /\ job' \in [Jobs -> Job] /\ \A o \in Jobs : Fields(o)'
  BY LinkFactJob, FieldsAll DEF Jobs
<1>2. /\ context' = [i \in Ids |-> IF i \in S THEN at[i] ELSE context[i]]
      /\ facts' = [i \in Ids |-> facts[i] \cup IF i \in S THEN {f} ELSE {}]
      /\ ever' = ever \cup ({f} \X {NameOf[i] : i \in S})
      /\ UNCHANGED <<declared, groups, asked, admin, rebuild, behind, faults>>
      /\ astray' \in BOOLEAN
  BY <1>0 DEF LinkFact
<1>3. \E M \in SUBSET S : late' = late \cup ({f} \X {NameOf[i] : i \in M})
  BY <1>0 DEF LinkFact
<1>4. \A i \in S : /\ context[i] = at[i] \/
                        (context[i] = None /\
                         \A k \in OfName(NameOf[i]) : context[k] # at[i])
                   /\ \A k \in S \ {i} : NameOf[i] = NameOf[k]
                                            => at[i] # at[k]
  BY <1>0 DEF LinkFact, Fresh
<1>5. /\ context' \in [Ids -> Contexts \cup {None}]
      /\ facts' \in [Ids -> SUBSET Facts]
  BY <1>2 DEF Types, TypeOK
<1>6. \A i \in Ids : i \in Live' <=> i \in Live \cup S
  BY <1>2, NamesAssumption DEF Live
<1>7. \A i \in Ids \ Live' : facts'[i] = {}
  BY <1>2, <1>6 DEF Types, TypeOK
<1>8. ASSUME NEW i \in Live', NEW k \in Live', NameOf[i] = NameOf[k],
             context'[i] = context'[k]
      PROVE  i = k
  <2>1. i \in Ids /\ k \in Ids
    BY DEF Live
  <2>2. CASE i \in Live /\ k \in Live
    <3>1. context'[i] = context[i] \/ context[i] = None
      BY <2>1, <1>2, <1>4
    <3>2. context'[k] = context[k] \/ context[k] = None
      BY <2>1, <1>2, <1>4
    <3> QED
      BY <3>1, <3>2, <2>2, <1>8 DEF Live, Types, TypeOK
  <2>3. CASE i \notin Live /\ k \notin Live
    <3>1. i \in S /\ k \in S
      BY <2>1, <2>3, <1>6
    <3> QED
      BY <3>1, <2>1, <1>2, <1>4, <1>8
  <2>4. ASSUME NEW a \in Ids, NEW b \in Ids, a \in S, a \notin Live,
               b \in Live, NameOf[a] = NameOf[b], context'[a] = context'[b]
        PROVE  FALSE
    <3>1. context[a] = None /\ context'[a] = at[a]
      BY <2>4, <1>2 DEF Live
    <3>2. at[a] # None
      BY <2>4, NamesAssumption
    <3>3. \A o \in OfName(NameOf[a]) : context[o] # at[a]
      BY <3>1, <3>2, <2>4, <1>4
    <3>4. context[b] # at[a]
      BY <3>3, <2>4 DEF OfName
    <3>5. context'[b] = context[b]
      BY <1>2, <1>4, <2>4 DEF Live
    <3> QED
      BY <3>1, <3>4, <3>5, <2>4
  <2> QED
    BY <2>1, <2>2, <2>3, <2>4, <1>6, <1>8
<1>9. ever' \subseteq Facts \X Names /\ late' \subseteq ever'
  BY <1>2, <1>3, NameOfId DEF Types, TypeOK
<1>10. (\A i \in Ids : \A g \in facts[i] : <<g, NameOf[i]>> \in ever)'
  BY <1>2 DEF Types
<1>11. RebuildFields' /\ rebuild' \in RebuildType
  BY <1>2, NowTypes, SameRebuild
<1>12. TypeOK'
  BY <1>1, <1>2, <1>5, <1>7, <1>8, <1>9, <1>11, NowTypes
     DEF TypeOK, RebuildType
<1> QED
  BY <1>1, <1>10, <1>11, <1>12 DEF Types, RebuildFields

LEMMA TypesCopyLinks ==
  ASSUME Types, NEW m \in Migrators, NEW i \in Ids, CopyLinks(m, i)
  PROVE  Types'
<1>1. m \in Jobs /\ job' \in [Jobs -> Job] /\ \A o \in Jobs : Fields(o)'
  BY CopyLinksJob, FieldsAll DEF Jobs
<1>2. UNCHANGED <<declared, context, facts, groups, asked, admin, rebuild,
                  ever, behind, astray, faults>>
  BY DEF CopyLinks, catalog
<1>3. late' \subseteq ever
  BY CopyLinksJob DEF Types, TypeOK
<1>4. (\A o \in Ids : \A f \in facts[o] : <<f, NameOf[o]>> \in ever)'
  BY <1>2 DEF Types
<1>5. RebuildFields' /\ rebuild' \in RebuildType
  BY <1>2, NowTypes, SameRebuild
<1>6. Live' = Live
  BY <1>2 DEF Live
<1>7. TypeOK'
  BY <1>1, <1>2, <1>3, <1>5, <1>6, NowTypes DEF Types, TypeOK, RebuildType
<1> QED
  BY <1>1, <1>4, <1>5, <1>7 DEF Types, RebuildFields

(* What the commit of a merge, or of a move, does to the concepts.         *)
LEMMA CommitCatalog ==
  ASSUME Types, Targets, NEW m \in Migrators, CommitConcept(m)
  PROVE  LET i == job[m].cur
             k == job[m].into
             C == job[m].copied
         IN  /\ i \in Ids
             /\ k # None =>
                  /\ k \in Ids /\ NameOf[k] = NameOf[i] /\ C \subseteq Facts
                  /\ C # {} => k \in Live /\ k # i
                  /\ \A o \in Migrators \ {m} : ~Holds(o, i)
                  /\ context' = [context EXCEPT ![i] = None]
                  /\ facts' = [x \in Ids |-> IF x = i THEN {}
                                 ELSE IF x = k THEN facts[k] \cup C
                                 ELSE facts[x]]
             /\ k = None =>
                  /\ \A o \in OfName(NameOf[i]) \ {i} : context[o] # To[m]
                  /\ context' = IF i \in Live
                                  THEN [context EXCEPT ![i] = To[m]]
                                  ELSE context
                  /\ facts' = facts
<1> DEFINE i == job[m].cur
           k == job[m].into
           C == job[m].copied
<1>1. m \in Jobs /\ job[m] \in Job /\ i \in Ids
  BY CommitConceptJob DEF Types, TypeOK, Jobs
<1>2. CASE k # None
  <2>1. k \in Ids /\ C \subseteq Facts
    BY <1>1, <1>2 DEF Job
  <2>2. Merger(m) /\ Target(m)
    BY <1>2, CommitConceptJob DEF Merger, Targets
  <2>3. /\ \A o \in Migrators \ {m} : ~Holds(o, i)
        /\ context' = [context EXCEPT ![i] = None]
        /\ facts' = [facts EXCEPT ![k] = @ \cup C, ![i] = {}]
    BY <1>2 DEF CommitConcept, Merged
  <2>4. facts' = [x \in Ids |-> IF x = i THEN {}
                                ELSE IF x = k THEN facts[k] \cup C
                                ELSE facts[x]]
    BY <2>1, <2>3, <1>1 DEF Types, TypeOK
  <2> QED
    BY <1>1, <1>2, <2>1, <2>2, <2>3, <2>4 DEF Target
<1>3. CASE k = None
  <2>1. /\ ~Taken(m)
        /\ context' = IF i \in Live THEN [context EXCEPT ![i] = To[m]]
                                    ELSE context
        /\ facts' = facts
    BY <1>3 DEF CommitConcept
  <2> QED
    BY <1>1, <1>3, <2>1 DEF Taken
<1> QED
  BY <1>2, <1>3

LEMMA TypesCommitConcept ==
  ASSUME Types, Targets, NEW m \in Migrators, CommitConcept(m)
  PROVE  Types'
<1> DEFINE i == job[m].cur
           k == job[m].into
           C == job[m].copied
<1>1. m \in Jobs /\ job' \in [Jobs -> Job] /\ \A o \in Jobs : Fields(o)'
  BY CommitConceptJob, FieldsAll DEF Jobs
<1>2. /\ UNCHANGED <<declared, groups, asked, admin, rebuild, ever, faults>>
      /\ astray' \in BOOLEAN
      /\ behind' \subseteq behind \cup {NameOf[i]}
      /\ late' \subseteq late \cup (C \X {NameOf[i]})
  BY DEF CommitConcept
<1>3. i \in Ids /\ NameOf[i] \in Names /\ To[m] \in Contexts
  BY CommitConceptJob, NameOfId, MigrationsAssumption
<1>4. \A f \in C : <<f, NameOf[i]>> \in ever
  BY DEF Targets, Target
<1>5. behind' \subseteq Names /\ late' \subseteq ever' /\ ever' \subseteq Facts \X Names
  BY <1>2, <1>3, <1>4 DEF Types, TypeOK
<1>6. RebuildFields' /\ rebuild' \in RebuildType
  BY <1>2, NowTypes, SameRebuild
<1>7. CASE k # None
  <2>1. /\ k \in Ids /\ NameOf[k] = NameOf[i] /\ C \subseteq Facts
        /\ C # {} => k \in Live /\ k # i
        /\ context' = [context EXCEPT ![i] = None]
        /\ facts' = [x \in Ids |-> IF x = i THEN {}
                                   ELSE IF x = k THEN facts[k] \cup C
                                   ELSE facts[x]]
    BY <1>7, CommitCatalog
  <2>2. /\ context' \in [Ids -> Contexts \cup {None}]
        /\ facts' \in [Ids -> SUBSET Facts]
    BY <2>1 DEF Types, TypeOK
  <2>3. \A x \in Ids : x \in Live' <=> x \in Live /\ x # i
    BY <2>1, <1>3 DEF Live, Types, TypeOK
  <2>4. \A x \in Ids \ Live' : facts'[x] = {}
    BY <2>1, <2>3 DEF Types, TypeOK
  <2>5. \A x, y \in Live' : NameOf[x] = NameOf[y] /\ context'[x] = context'[y]
                               => x = y
    BY <2>1, <2>3 DEF Live, Types, TypeOK
  <2>6. (\A x \in Ids : \A f \in facts[x] : <<f, NameOf[x]>> \in ever)'
    BY <2>1, <1>2, <1>4 DEF Types
  <2>7. TypeOK'
    BY <1>1, <1>2, <1>5, <1>6, <2>2, <2>4, <2>5, NowTypes
       DEF TypeOK, RebuildType
  <2> QED
    BY <1>1, <1>6, <2>6, <2>7 DEF Types, RebuildFields
<1>8. CASE k = None
  <2>1. /\ \A o \in OfName(NameOf[i]) \ {i} : context[o] # To[m]
        /\ context' = IF i \in Live THEN [context EXCEPT ![i] = To[m]]
                                    ELSE context
        /\ facts' = facts
    BY <1>8, CommitCatalog
  <2>2. context' \in [Ids -> Contexts \cup {None}]
    BY <2>1, <1>3 DEF Types, TypeOK
  <2>3. \A x \in Ids : x \in Live' <=> x \in Live
    BY <2>1, <1>3, NamesAssumption DEF Live, Types, TypeOK
  <2>4. \A x \in Ids \ Live' : facts'[x] = {}
    BY <2>1, <2>3 DEF Types, TypeOK
  <2>5. ASSUME NEW x \in Live', NEW y \in Live', NameOf[x] = NameOf[y],
               context'[x] = context'[y]
        PROVE  x = y
    <3>1. x \in Live /\ y \in Live /\ x \in Ids /\ y \in Ids
      BY <2>3 DEF Live
    <3>2. \A z \in Ids \ {i} : context'[z] = context[z]
      BY <2>1 DEF Types, TypeOK
    <3>3. i \in Live => context'[i] = To[m]
      BY <2>1, <1>3 DEF Types, TypeOK
    <3>4. \A z \in Live \ {i} : NameOf[z] = NameOf[i] => context[z] # To[m]
      BY <2>1 DEF OfName
    <3>5. CASE x # i /\ y # i
      BY <3>1, <3>2, <3>5, <2>5 DEF Types, TypeOK
    <3>6. CASE x = i \/ y = i
      BY <3>1, <3>2, <3>3, <3>4, <3>6, <2>5
    <3> QED
      BY <3>5, <3>6
  <2>6. (\A x \in Ids : \A f \in facts[x] : <<f, NameOf[x]>> \in ever)'
    BY <2>1, <1>2 DEF Types
  <2>7. TypeOK'
    BY <1>1, <1>2, <1>5, <1>6, <2>1, <2>2, <2>4, <2>5, NowTypes
       DEF Types, TypeOK, RebuildType
  <2> QED
    BY <1>1, <1>6, <2>6, <2>7 DEF Types, RebuildFields
<1> QED
  BY <1>7, <1>8

LEMMA TypesStep ==
  ASSUME Types, Targets, Next
  PROVE  Types'
<1>1. CASE \E e \in Extractors : Extract(e)
  BY <1>1, TypesBegin, TypesLinkFact DEF Extract
<1>2. CASE \E m \in Migrators : Migrate(m)
  BY <1>2, TypesAsk, TypesBeginMigration, TypesUndeclare, TypesCopyLinks,
     TypesCommitConcept DEF Migrate
<1>3. CASE \E j \in Jobs : Refresh(j)
  BY <1>3, TypesRefresh, TypesFails DEF Refresh
<1>4. CASE (\E c \in Contexts : CountConcepts(c)) \/ DeleteContext
  BY <1>4, TypesAdmin
<1>5. CASE DeleteAllGroups \/ InsertAllGroups \/ CommitRebuild \/ RebuildFails
  BY <1>5, TypesRebuild
<1> QED
  BY <1>1, <1>2, <1>3, <1>4, <1>5 DEF Next

-----------------------------------------------------------------------------
(* The merges under way                                                    *)
LEMMA TargetsIf ==
  ASSUME Targets, Types', ever \subseteq ever',
         \A m \in Migrators : job'[m].pc # "copied" \/ job'[m] = job[m],
         \A m \in Migrators : job[m].copied # {} /\ job'[m] = job[m]
                                 => job[m].into \in Live'
  PROVE  Targets'
<1>1. ASSUME NEW m \in Migrators, job'[m].pc # "copied"
      PROVE  Target(m)'
  <2>1. Fields(m)'
    BY DEF Types, Jobs
  <2>2. job'[m].into = None /\ job'[m].copied = {}
    BY <2>1, <1>1 DEF Fields
  <2> QED
    BY <1>1, <2>2 DEF Target, Merger
<1>2. ASSUME NEW m \in Migrators, job'[m] = job[m]
      PROVE  Target(m)'
  BY <1>2 DEF Targets, Target, Merger
<1> QED
  BY <1>1, <1>2 DEF Targets

(* No step but CopyLinks begins a merge.                                   *)
LEMMA JobsStep ==
  ASSUME Types, Next
  PROVE  \/ \E m \in Migrators, i \in Ids : CopyLinks(m, i)
         \/ \A m \in Migrators : job'[m].pc # "copied" \/ job'[m] = job[m]
<1>0. \A m \in Migrators : m \in Jobs
  BY DEF Jobs
<1>1. ASSUME NEW e \in Extractors, Extract(e)
      PROVE  \A m \in Migrators : job'[m] = job[m]
  <2>1. Moves(e)
    BY <1>1, BeginJob, EndWaveJob, LinkFactJob DEF Extract
  <2> QED
    BY <1>0, <2>1, JobsAssumption DEF Moves
<1>2. ASSUME NEW m \in Migrators, Migrate(m)
      PROVE  \/ \E i \in Ids : CopyLinks(m, i)
             \/ \A o \in Migrators : job'[o].pc # "copied" \/ job'[o] = job[o]
  <2>1. CASE Ask(m)
    BY <2>1 DEF Ask
  <2>2. CASE BeginMigration(m) \/ CommitConcept(m) \/ Undeclare(m)
    <3>1. Moves(m) /\ job'[m].pc # "copied"
      BY <2>2, <1>0, BeginMigrationJob, CommitConceptJob, EndingJob
    <3> QED
      BY <3>1, <1>0 DEF Moves
  <2> QED
    BY <1>2, <2>1, <2>2 DEF Migrate
<1>3. ASSUME NEW j \in Jobs, Refresh(j)
      PROVE  \A o \in Migrators : job'[o].pc # "copied" \/ job'[o] = job[o]
  <2>1. Moves(j) /\ job'[j].pc # "copied"
    BY <1>3, ReadGroupsJob, StoreGroupsJob, EndingJob DEF Refresh
  <2> QED
    BY <2>1, <1>0 DEF Moves
<1>4. ASSUME \/ (\E c \in Contexts : CountConcepts(c)) \/ DeleteContext
             \/ DeleteAllGroups \/ InsertAllGroups \/ CommitRebuild
             \/ RebuildFails
      PROVE  job' = job
  BY <1>4 DEF CountConcepts, DeleteContext, DeleteAllGroups,
              InsertAllGroups, CommitRebuild, RebuildFails
<1> QED
  BY <1>1, <1>2, <1>3, <1>4 DEF Next

(* No step but these changes the concepts, or what was ever linked.        *)
LEMMA CatalogStep ==
  ASSUME Next
  PROVE  \/ \E e \in Extractors, f \in Facts, S \in SUBSET Ids \ {{}} :
               \E at \in [S -> Contexts] : LinkFact(e, f, at)
         \/ \E m \in Migrators : CommitConcept(m)
         \/ UNCHANGED <<context, facts, ever>>
<1>1. CASE \E e \in Extractors : Extract(e)
  BY <1>1 DEF Extract, Begin, EndWave, catalog, ghosts
<1>2. CASE \E m \in Migrators : Migrate(m)
  BY <1>2 DEF Migrate, Ask, BeginMigration, Undeclare, CopyLinks, catalog,
              ghosts
<1>3. CASE \E j \in Jobs : Refresh(j)
  BY <1>3 DEF Refresh, ReadGroups, StoreGroups, Prune, RefreshFails, Die,
              catalog, ghosts
<1>4. CASE (\E c \in Contexts : CountConcepts(c)) \/ DeleteContext
  BY <1>4 DEF CountConcepts, DeleteContext, catalog
<1>5. CASE DeleteAllGroups \/ InsertAllGroups \/ CommitRebuild \/ RebuildFails
  BY <1>5 DEF DeleteAllGroups, InsertAllGroups, CommitRebuild, RebuildFails,
              catalog, ghosts
<1> QED
  BY <1>1, <1>2, <1>3, <1>4, <1>5 DEF Next

LEMMA TargetType ==
  ASSUME Types, Targets, NEW m \in Migrators, job[m].copied # {}
  PROVE  /\ job[m].into \in Live /\ job[m].into \in Ids
         /\ job[m].pc = "copied" /\ Holds(m, job[m].into)
<1>1. Fields(m)
  BY DEF Types, Jobs
<1> QED
  BY <1>1 DEF Targets, Target, Fields, Holds, Live

LEMMA TargetsStep ==
  ASSUME Types, Targets, Types', Next
  PROVE  Targets'
<1>1. ASSUME NEW m \in Migrators, NEW i \in Ids, CopyLinks(m, i)
      PROVE  Targets'
  <2>1. UNCHANGED <<context, facts, ever>> /\ Live' = Live
    BY <1>1 DEF CopyLinks, catalog, Live
  <2>2. ASSUME NEW o \in Migrators, o # m
        PROVE  Target(o)'
    <3>1. job'[o] = job[o]
      BY <2>2, <1>1, CopyLinksJob DEF Moves, Jobs
    <3> QED
      BY <3>1, <2>1 DEF Targets, Target, Merger
  <2>3. Target(m)'
    <3> DEFINE k == Found(m, i)
    <3>1. /\ job'[m].cur = i /\ job'[m].into = k
          /\ job'[m].copied = Missing(i, k)
      BY <1>1, CopyLinksJob
    <3>2. k # None => k \in Live /\ NameOf[k] = NameOf[i]
      BY FoundType
    <3>3. /\ Missing(i, k) \subseteq facts[i]
          /\ Missing(i, k) # {} => k # None /\ k # i
      BY DEF Missing
    <3> QED
      BY <3>1, <3>2, <3>3, <2>1 DEF Target, Merger, Types
  <2> QED
    BY <2>2, <2>3 DEF Targets
<1>2. ASSUME NEW e \in Extractors, NEW f \in Facts, NEW S \in SUBSET Ids,
             NEW at \in [S -> Contexts], LinkFact(e, f, at),
             \A m \in Migrators : job'[m].pc # "copied" \/ job'[m] = job[m]
      PROVE  Targets'
  <2>1. DOMAIN at = S
    OBVIOUS
  <2>2. ever \subseteq ever' /\ Live \subseteq Live'
    BY <1>2, <2>1, NamesAssumption DEF LinkFact, Live
  <2> QED
    BY <1>2, <2>2, TargetType, TargetsIf
<1>3. ASSUME NEW m \in Migrators, CommitConcept(m),
             \A o \in Migrators : job'[o].pc # "copied" \/ job'[o] = job[o]
      PROVE  Targets'
  <2> DEFINE i == job[m].cur
  <2>1. i \in Ids /\ job'[m].pc # "copied" /\ job[m].pc = "copied"
    BY <1>3, CommitConceptJob
  <2>2. ever' = ever
    BY <1>3 DEF CommitConcept
  <2>3. \A x \in Live : x = i \/ x \in Live'
    BY <1>3, CommitCatalog, NamesAssumption DEF Live, Types, TypeOK
  <2>4. job[m].into = None => Live \subseteq Live'
    <3> SUFFICES ASSUME job[m].into = None PROVE Live \subseteq Live'
      OBVIOUS
    <3>1. context' = IF i \in Live THEN [context EXCEPT ![i] = To[m]]
                                   ELSE context
      BY <1>3, CommitCatalog
    <3>2. To[m] # None
      BY MigrationsAssumption, NamesAssumption
    <3> QED
      BY <3>1, <3>2 DEF Live, Types, TypeOK
  <2>5. job[m].into # None => \A o \in Migrators \ {m} : ~Holds(o, i)
    BY <1>3, CommitCatalog
  <2>6. ASSUME NEW o \in Migrators, job[o].copied # {}, job'[o] = job[o]
        PROVE  job[o].into \in Live'
    <3>1. o # m
      BY <2>1, <2>6
    <3>2. job[o].into \in Live /\ Holds(o, job[o].into)
      BY <2>6, TargetType
    <3> QED
      BY <3>1, <3>2, <2>3, <2>4, <2>5
  <2> QED
    BY <1>3, <2>2, <2>6, TargetsIf
<1>4. ASSUME UNCHANGED <<context, facts, ever>>,
             \A m \in Migrators : job'[m].pc # "copied" \/ job'[m] = job[m]
      PROVE  Targets'
  <2>1. Live' = Live
    BY <1>4 DEF Live
  <2> QED
    BY <1>4, <2>1, TargetType, TargetsIf
<1> QED
  BY <1>1, <1>2, <1>3, <1>4, JobsStep, CatalogStep

-----------------------------------------------------------------------------
(* The links                                                               *)
LEMMA LateStep ==
  ASSUME Next
  PROVE  late \subseteq late'
<1>1. CASE \E e \in Extractors : Extract(e)
  <2>1. ASSUME NEW e \in Extractors, Begin(e) \/ EndWave(e)
        PROVE  late \subseteq late'
    BY <2>1 DEF Begin, EndWave, ghosts
  <2>2. ASSUME NEW e \in Extractors, NEW f \in Facts, NEW S \in SUBSET Ids,
               NEW at \in [S -> Contexts], LinkFact(e, f, at)
        PROVE  late \subseteq late'
    BY <2>2 DEF LinkFact
  <2> QED
    BY <1>1, <2>1, <2>2 DEF Extract
<1>2. CASE \E m \in Migrators : Migrate(m)
  <2>1. ASSUME NEW m \in Migrators,
               Ask(m) \/ BeginMigration(m) \/ Undeclare(m)
        PROVE  late \subseteq late'
    BY <2>1 DEF Ask, BeginMigration, Undeclare, ghosts
  <2>2. ASSUME NEW m \in Migrators, NEW i \in Ids, CopyLinks(m, i)
        PROVE  late \subseteq late'
    BY <2>2 DEF CopyLinks
  <2>3. ASSUME NEW m \in Migrators, CommitConcept(m)
        PROVE  late \subseteq late'
    BY <2>3 DEF CommitConcept
  <2> QED
    BY <1>2, <2>1, <2>2, <2>3 DEF Migrate
<1>3. CASE \E j \in Jobs : Refresh(j)
  BY <1>3 DEF Refresh, ReadGroups, StoreGroups, Prune, RefreshFails, Die,
              ghosts
<1>4. CASE (\E c \in Contexts : CountConcepts(c)) \/ DeleteContext
  BY <1>4 DEF CountConcepts, DeleteContext
<1>5. CASE DeleteAllGroups \/ InsertAllGroups \/ CommitRebuild \/ RebuildFails
  BY <1>5 DEF DeleteAllGroups, InsertAllGroups, CommitRebuild, RebuildFails,
              ghosts
<1> QED
  BY <1>1, <1>2, <1>3, <1>4, <1>5 DEF Next

LEMMA LinkType ==
  ASSUME Types, NEW l \in ever
  PROVE  l = <<l[1], l[2]>> /\ l[1] \in Facts /\ l[2] \in Names
BY DEF Types, TypeOK

(* A link stays safe while its concept stays and no merge of it begins.    *)
LEMMA SafeStays ==
  ASSUME NEW n, NEW f, NEW i \in OfName(n), Safe(f, i),
         i \in Live', f \in facts'[i],
         \A m \in Migrators : job'[m].pc # "copied" \/ job'[m] = job[m]
  PROVE  i \in OfName(n)' /\ Safe(f, i)'
BY DEF Safe, Merger, OfName

LEMMA LinksLinkFact ==
  ASSUME Types, Links, NEW e \in Extractors, NEW f \in Facts,
         NEW S \in SUBSET Ids, NEW at \in [S -> Contexts], LinkFact(e, f, at),
         \A m \in Migrators : job'[m].pc # "copied" \/ job'[m] = job[m],
         late \subseteq late'
  PROVE  Links'
<1>0. DOMAIN at = S
  OBVIOUS
<1>1. /\ context' = [i \in Ids |-> IF i \in S THEN at[i] ELSE context[i]]
      /\ facts' = [i \in Ids |-> facts[i] \cup IF i \in S THEN {f} ELSE {}]
      /\ ever' = ever \cup ({f} \X {NameOf[i] : i \in S})
      /\ late' = late \cup ({f} \X {NameOf[i] : i \in {k \in S : Merging(k)}})
  BY <1>0 DEF LinkFact
<1>2. \A i \in Ids : i \in Live \cup S => i \in Live'
  BY <1>1, NamesAssumption DEF Live
<1>3. ASSUME NEW l \in ever', l \notin late', l \in ever
      PROVE  \E i \in OfName(l[2])' : Safe(l[1], i)'
  <2>1. PICK i \in OfName(l[2]) : Safe(l[1], i)
    BY <1>3 DEF Links
  <2>2. i \in Live' /\ l[1] \in facts'[i]
    BY <2>1, <1>1, <1>2 DEF OfName, Live, Safe
  <2> QED
    BY <2>1, <2>2, SafeStays
<1>4. ASSUME NEW l \in ever', l \notin late', l \notin ever
      PROVE  \E i \in OfName(l[2])' : Safe(l[1], i)'
  <2>1. PICK i \in S : l = <<f, NameOf[i]>>
    BY <1>1, <1>4
  <2>2. ~Merging(i)
    BY <2>1, <1>1, <1>4
  <2>3. i \in OfName(l[2])' /\ f \in facts'[i]
    BY <2>1, <1>1, <1>2 DEF OfName
  <2>4. \A m \in Migrators : ~(Merger(m)' /\ job'[m].cur = i)
    BY <2>2 DEF Merger, Merging
  <2> QED
    BY <2>1, <2>3, <2>4 DEF Safe
<1> QED
  BY <1>3, <1>4 DEF Links

LEMMA LinksCopyLinks ==
  ASSUME Types, Links, NEW m \in Migrators, NEW i \in Ids, CopyLinks(m, i),
         late \subseteq late'
  PROVE  Links'
<1> DEFINE k == Found(m, i)
<1>1. /\ job'[m].cur = i /\ job'[m].into = k
      /\ job'[m].copied = Missing(i, k)
      /\ \A o \in Migrators \ {m} : job'[o] = job[o]
      /\ job[m].pc = "next"
  BY CopyLinksJob DEF Moves, Jobs
<1>2. k # None /\ (k = i \/ Merging(k))
        => late' = late \cup ((facts[i] \cap facts[k]) \X {NameOf[i]})
  BY CopyLinksJob
<1>3. UNCHANGED <<context, facts, ever>> /\ Live' = Live
  BY DEF CopyLinks, catalog, Live
<1>4. \A n : OfName(n)' = OfName(n)
  BY <1>3 DEF OfName
<1> SUFFICES ASSUME NEW l \in ever, l \notin late'
             PROVE  \E x \in OfName(l[2]) : Safe(l[1], x)'
  BY <1>3, <1>4 DEF Links
<1>5. PICK x \in OfName(l[2]) : Safe(l[1], x)
  BY DEF Links
<1>6. CASE x # i \/ k = None
  <2>1. Safe(l[1], x)'
    BY <1>1, <1>3, <1>5, <1>6 DEF Safe, Merger
  <2> QED
    BY <2>1
<1>7. CASE x = i /\ k # None /\ l[1] \notin facts[k]
  <2>1. l[1] \in Missing(i, k)
    BY <1>5, <1>7 DEF Safe, Missing
  <2>2. Safe(l[1], x)'
    BY <2>1, <1>1, <1>3, <1>5, <1>7 DEF Safe, Merger
  <2> QED
    BY <2>2
<1>8. CASE x = i /\ k # None /\ l[1] \in facts[k]
  <2>1. l[1] \in facts[i] \cap facts[k] /\ l[2] = NameOf[i]
    BY <1>5, <1>8 DEF Safe, OfName
  <2>2. l = <<l[1], l[2]>>
    BY LinkType
  <2>3. k # i /\ ~Merging(k)
    BY <2>1, <2>2, <1>2, <1>8
  <2>4. PICK z \in OfName(l[2]) : z = k
    BY <2>1, <1>8, FoundType DEF OfName
  <2>5. \A o \in Migrators : ~(Merger(o)' /\ job'[o].cur = z)
    BY <2>3, <2>4, <1>1 DEF Merger, Merging
  <2>6. Safe(l[1], z)'
    BY <2>4, <2>5, <1>3, <1>8 DEF Safe
  <2> QED
    BY <2>4, <2>6
<1> QED
  BY <1>6, <1>7, <1>8

LEMMA LinksCommitConcept ==
  ASSUME Types, Targets, Links, NEW m \in Migrators, CommitConcept(m),
         \A o \in Migrators : job'[o].pc # "copied" \/ job'[o] = job[o],
         late \subseteq late'
  PROVE  Links'
<1> DEFINE i == job[m].cur
           k == job[m].into
           C == job[m].copied
<1>1. i \in Ids /\ job'[m].pc # "copied" /\ job[m].pc = "copied"
  BY CommitConceptJob
<1>2. /\ ever' = ever
      /\ k # None /\ Merging(k) => late' = late \cup (C \X {NameOf[i]})
  BY DEF CommitConcept
<1> SUFFICES ASSUME NEW l \in ever, l \notin late'
             PROVE  \E x \in OfName(l[2])' : Safe(l[1], x)'
  BY <1>2 DEF Links
<1>3. PICK x \in OfName(l[2]) : Safe(l[1], x)
  BY DEF Links
<1>4. x \in Live /\ x \in Ids /\ l[1] \in facts[x] /\ NameOf[x] = l[2]
  BY <1>3 DEF OfName, Live, Safe
<1>5. CASE k = None
  <2>1. /\ context' = IF i \in Live THEN [context EXCEPT ![i] = To[m]]
                                    ELSE context
        /\ facts' = facts
    BY <1>5, CommitCatalog
  <2>2. To[m] # None
    BY MigrationsAssumption, NamesAssumption
  <2>3. x \in Live' /\ l[1] \in facts'[x]
    BY <2>1, <2>2, <1>4 DEF Live, Types, TypeOK
  <2> QED
    BY <2>3, <1>3, SafeStays
<1>6. CASE k # None
  <2>1. /\ k \in Ids /\ NameOf[k] = NameOf[i] /\ C \subseteq Facts
        /\ C # {} => k \in Live /\ k # i
        /\ context' = [context EXCEPT ![i] = None]
        /\ facts' = [y \in Ids |-> IF y = i THEN {}
                                   ELSE IF y = k THEN facts[k] \cup C
                                   ELSE facts[y]]
    BY <1>6, CommitCatalog
  <2>2. \A y \in Live : y = i \/ y \in Live'
    BY <2>1 DEF Live, Types, TypeOK
  <2>3. CASE x # i
    <3>1. x \in Live' /\ l[1] \in facts'[x]
      BY <2>1, <2>2, <2>3, <1>4
    <3> QED
      BY <3>1, <1>3, SafeStays
  <2>4. CASE x = i
    <3>1. l[1] \in C
      BY <2>4, <1>1, <1>3, <1>6 DEF Safe, Merger
    <3>2. k \in Live /\ k # i /\ k \in Live' /\ l[1] \in facts'[k]
      BY <3>1, <2>1, <2>2
    <3>3. l = <<l[1], l[2]>> /\ l[2] = NameOf[i]
      BY <1>4, <2>4, LinkType
    <3>4. ~Merging(k)
      BY <3>1, <3>3, <1>2, <1>6
    <3>5. PICK z \in Ids : z = k
      BY <2>1
    <3>6. \A o \in Migrators : ~(Merger(o)' /\ job'[o].cur = z)
      BY <3>4, <3>5 DEF Merger, Merging
    <3>7. Safe(l[1], z)' /\ z \in OfName(l[2])'
      BY <3>2, <3>3, <3>5, <3>6, <2>1 DEF Safe, OfName
    <3> QED
      BY <3>7
  <2> QED
    BY <2>3, <2>4
<1> QED
  BY <1>5, <1>6

LEMMA LinksStep ==
  ASSUME Types, Targets, Links, Next
  PROVE  Links'
<1>1. late \subseteq late'
  BY LateStep
<1>2. ASSUME UNCHANGED <<context, facts, ever>>,
             \A m \in Migrators : job'[m].pc # "copied" \/ job'[m] = job[m]
      PROVE  Links'
  <2>1. Live' = Live
    BY <1>2 DEF Live
  <2> SUFFICES ASSUME NEW l \in ever, l \notin late'
               PROVE  \E i \in OfName(l[2])' : Safe(l[1], i)'
    BY <1>2 DEF Links
  <2>2. PICK i \in OfName(l[2]) : Safe(l[1], i)
    BY <1>1 DEF Links
  <2>3. i \in Live' /\ l[1] \in facts'[i]
    BY <2>1, <2>2, <1>2 DEF OfName, Safe
  <2> QED
    BY <2>2, <2>3, <1>2, SafeStays
<1> QED
  BY <1>1, <1>2, JobsStep, CatalogStep, LinksLinkFact, LinksCopyLinks,
     LinksCommitConcept

-----------------------------------------------------------------------------
(* The contexts                                                            *)
LEMMA AstrayStep ==
  ASSUME Next
  PROVE  astray => astray'
<1>1. CASE \E e \in Extractors : Extract(e)
  <2>1. ASSUME NEW e \in Extractors, Begin(e) \/ EndWave(e)
        PROVE  astray => astray'
    BY <2>1 DEF Begin, EndWave, ghosts
  <2>2. ASSUME NEW e \in Extractors, NEW f \in Facts, NEW S \in SUBSET Ids,
               NEW at \in [S -> Contexts], LinkFact(e, f, at)
        PROVE  astray => astray'
    BY <2>2 DEF LinkFact
  <2> QED
    BY <1>1, <2>1, <2>2 DEF Extract
<1>2. CASE \E m \in Migrators : Migrate(m)
  <2>1. ASSUME NEW m \in Migrators,
               Ask(m) \/ BeginMigration(m) \/ Undeclare(m)
        PROVE  astray => astray'
    BY <2>1 DEF Ask, BeginMigration, Undeclare, ghosts
  <2>2. ASSUME NEW m \in Migrators, NEW i \in Ids, CopyLinks(m, i)
        PROVE  astray => astray'
    BY <2>2 DEF CopyLinks
  <2>3. ASSUME NEW m \in Migrators, CommitConcept(m)
        PROVE  astray => astray'
    BY <2>3 DEF CommitConcept
  <2> QED
    BY <1>2, <2>1, <2>2, <2>3 DEF Migrate
<1>3. CASE \E j \in Jobs : Refresh(j)
  BY <1>3 DEF Refresh, ReadGroups, StoreGroups, Prune, RefreshFails, Die,
              ghosts
<1>4. CASE (\E c \in Contexts : CountConcepts(c)) \/ DeleteContext
  BY <1>4 DEF CountConcepts, DeleteContext
<1>5. CASE DeleteAllGroups \/ InsertAllGroups \/ CommitRebuild \/ RebuildFails
  BY <1>5 DEF DeleteAllGroups, InsertAllGroups, CommitRebuild, RebuildFails,
              ghosts
<1> QED
  BY <1>1, <1>2, <1>3, <1>4, <1>5 DEF Next

(* What a migration is to leave behind it.                                 *)
Seen(m) == job[m].pc # "idle"
             => InContext(From[m]) \subseteq job[m].todo \cup {job[m].cur}

LEMMA SeenStays ==
  ASSUME Types, Types', NEW m \in Migrators, Seen(m), context' = context,
         \/ job'[m] = job[m]
         \/ /\ job[m].pc # "idle"
            /\ job[m].pc \notin {"next", "copied"}
         \/ job'[m].pc = "idle"
  PROVE  Seen(m)'
<1>1. Fields(m) /\ Fields(m)'
  BY DEF Types, Jobs
<1>2. InContext(From[m])' = InContext(From[m]) /\ None \notin InContext(From[m])
  BY NamesAssumption DEF InContext, Live
<1>3. CASE job'[m] = job[m] \/ job'[m].pc = "idle"
  BY <1>2, <1>3 DEF Seen
<1>4. CASE job[m].pc # "idle" /\ job[m].pc \notin {"next", "copied"}
  <2>1. InContext(From[m]) = {}
    BY <1>1, <1>2, <1>4 DEF Seen, Fields
  <2> QED
    BY <2>1, <1>2 DEF Seen
<1> QED
  BY <1>3, <1>4

LEMMA DeclaredIf ==
  ASSUME Declared, astray => astray', context' = context, declared' = declared,
         ~astray => \A m \in Migrators : Seen(m)'
  PROVE  Declared'
BY DEF Declared, Seen, Live

LEMMA DeclaredExtract ==
  ASSUME Types, Types', Declared, astray => astray',
         NEW e \in Extractors, Extract(e)
  PROVE  Declared'
<1>1. \A m \in Migrators : job'[m] = job[m]
  <2>1. Moves(e)
    BY BeginJob, EndWaveJob, LinkFactJob DEF Extract
  <2> QED
    BY <2>1, JobsAssumption DEF Moves, Jobs
<1>2. CASE Begin(e) \/ EndWave(e)
  <2>1. context' = context /\ declared' = declared
    BY <1>2 DEF Begin, EndWave, catalog
  <2> QED
    BY <1>1, <2>1, SeenStays, DeclaredIf DEF Declared, Seen
<1>3. ASSUME NEW f \in Facts, NEW S \in SUBSET Ids,
             NEW at \in [S -> Contexts], LinkFact(e, f, at)
      PROVE  Declared'
  <2>0. DOMAIN at = S
    OBVIOUS
  <2>1. /\ context' = [i \in Ids |-> IF i \in S THEN at[i] ELSE context[i]]
        /\ declared' = declared
        /\ astray' = (astray \/ \E i \in S :
                                  at[i] \notin declared \/ Emptied(at[i]))
    BY <1>3, <2>0 DEF LinkFact
  <2> SUFFICES ASSUME ~astray' PROVE Declared'
    BY DEF Declared
  <2>2. ~astray /\ \A i \in S : at[i] \in declared /\ ~Emptied(at[i])
    BY <2>1
  <2>3. ASSUME NEW i \in Live' PROVE context'[i] \in declared'
    BY <2>1, <2>2 DEF Declared, Live
  <2>4. ASSUME NEW m \in Migrators, job'[m].pc # "idle",
               NEW i \in InContext(From[m])'
        PROVE  i \in job'[m].todo \cup {job'[m].cur}
    <3>1. job[m].pc # "idle" /\ i \in Ids /\ context'[i] = From[m]
      BY <1>1, <2>4 DEF InContext, Live
    <3>2. i \notin S
      BY <3>1, <2>1, <2>2 DEF Emptied
    <3>3. i \in InContext(From[m])
      BY <3>1, <3>2, <2>1, MigrationsAssumption, NamesAssumption
         DEF InContext, Live
    <3> QED
      BY <3>1, <3>3, <1>1, <2>2 DEF Declared
  <2> QED
    BY <2>3, <2>4 DEF Declared
<1> QED
  BY <1>2, <1>3 DEF Extract

LEMMA DeclaredCommitConcept ==
  ASSUME Types, Targets, Declared, astray => astray',
         NEW m \in Migrators, CommitConcept(m)
  PROVE  Declared'
<1> DEFINE i == job[m].cur
           k == job[m].into
<1>1. /\ i \in Ids /\ job[m].pc = "copied"
      /\ job'[m].todo = job[m].todo
      /\ \A o \in Migrators \ {m} : job'[o] = job[o]
  BY CommitConceptJob DEF Moves, Jobs
<1>2. /\ astray' = (astray \/ To[m] \notin declared \/ Emptied(To[m]))
      /\ declared' = declared
  BY DEF CommitConcept
<1>3. \/ context' = [context EXCEPT ![i] = None]
      \/ context' = [context EXCEPT ![i] = To[m]]
      \/ context' = context /\ i \notin Live
  BY CommitCatalog
<1> SUFFICES ASSUME ~astray' PROVE Declared'
  BY DEF Declared
<1>4. ~astray /\ To[m] \in declared /\ ~Emptied(To[m])
  BY <1>2
<1>5. \A x \in Ids \ {i} : context'[x] = context[x]
  BY <1>3 DEF Types, TypeOK
<1>6. context'[i] = None \/ context'[i] = To[m]
  BY <1>1, <1>3 DEF Types, TypeOK, Live
<1>7. ASSUME NEW x \in Live' PROVE context'[x] \in declared'
  BY <1>2, <1>4, <1>5, <1>6 DEF Declared, Live
<1>8. ASSUME NEW o \in Migrators, job'[o].pc # "idle",
             NEW x \in InContext(From[o])'
      PROVE  x \in job'[o].todo \cup {job'[o].cur}
  <2>1. x \in Ids /\ context'[x] = From[o] /\ From[o] # None
    BY <1>8, MigrationsAssumption, NamesAssumption DEF InContext, Live
  <2>2. job[o].pc # "idle"
    BY <1>1, <1>8
  <2>3. From[o] # To[m]
    BY <2>2, <1>4 DEF Emptied
  <2>4. x # i
    BY <2>1, <2>3, <1>6
  <2>5. x \in InContext(From[o])
    BY <2>1, <2>4, <1>5 DEF InContext, Live
  <2>6. x \in job[o].todo \cup {job[o].cur}
    BY <2>2, <2>5, <1>4 DEF Declared
  <2> QED
    BY <2>4, <2>6, <1>1
<1> QED
  BY <1>7, <1>8 DEF Declared

LEMMA DeclaredMigrate ==
  ASSUME Types, Types', Targets, Declared, astray => astray',
         NEW m \in Migrators, Migrate(m)
  PROVE  Declared'
<1>0. m \in Jobs
  BY DEF Jobs
<1>1. CASE Ask(m)
  BY <1>1, SeenStays, DeclaredIf DEF Ask, catalog, Declared, Seen
<1>2. CASE BeginMigration(m)
  <2>1. /\ context' = context /\ declared' = declared
        /\ Moves(m) /\ job'[m].todo = InContext(From[m])
    BY <1>2, BeginMigrationJob DEF BeginMigration, catalog
  <2>2. Seen(m)'
    BY <2>1 DEF Seen, InContext, Live
  <2>3. ASSUME ~astray, NEW o \in Migrators, o # m PROVE Seen(o)'
    BY <2>1, <2>3, SeenStays DEF Declared, Seen, Moves, Jobs
  <2> QED
    BY <2>1, <2>2, <2>3, DeclaredIf
<1>3. CASE \E i \in Ids : CopyLinks(m, i)
  <2>1. PICK i \in Ids : CopyLinks(m, i)
    BY <1>3
  <2>2. /\ context' = context /\ declared' = declared
        /\ Moves(m) /\ job'[m].todo = job[m].todo \ {i} /\ job'[m].cur = i
        /\ job[m].pc = "next"
    BY <2>1, CopyLinksJob DEF CopyLinks, catalog
  <2>3. ASSUME Seen(m) PROVE Seen(m)'
    <3>1. Fields(m) /\ None \notin InContext(From[m])
      BY NamesAssumption DEF Types, Jobs, InContext, Live
    <3>2. job[m].cur = None
      BY <3>1, <2>2 DEF Fields
    <3>3. InContext(From[m]) \subseteq job[m].todo
      BY <3>1, <3>2, <2>2, <2>3 DEF Seen
    <3> QED
      BY <3>3, <2>2 DEF Seen, InContext, Live
  <2>4. ASSUME ~astray, NEW o \in Migrators, o # m PROVE Seen(o)'
    BY <2>2, <2>4, SeenStays DEF Declared, Seen, Moves, Jobs
  <2> QED
    BY <2>2, <2>3, <2>4, DeclaredIf DEF Declared, Seen
<1>4. CASE Undeclare(m)
  <2>1. /\ context' = context /\ astray' = astray
        /\ declared' = declared \/ declared' = declared \ {From[m]}
        /\ job[m].pc = "undeclare" /\ Moves(m) /\ job'[m] = Idle
    BY <1>0, <1>4, EndingJob DEF Undeclare, Prune, RefreshFails, Removed,
                                 catalog, ghosts
  <2> SUFFICES ASSUME ~astray' PROVE Declared'
    BY DEF Declared
  <2>2. Fields(m) /\ Seen(m)
    BY <2>1 DEF Types, Jobs, Declared, Seen
  <2>3. InContext(From[m]) = {}
    BY <2>1, <2>2, NamesAssumption DEF Seen, Fields, InContext, Live
  <2>4. ASSUME NEW i \in Live' PROVE context'[i] \in declared'
    BY <2>1, <2>3 DEF InContext, Live, Declared
  <2>5. ASSUME NEW o \in Migrators PROVE Seen(o)'
    <3>1. job'[o] = job[o] \/ job'[o].pc = "idle"
      BY <2>1, IdleType DEF Moves, Jobs
    <3> QED
      BY <3>1, <2>1, SeenStays DEF Declared, Seen
  <2> QED
    BY <2>4, <2>5 DEF Declared, Seen
<1> QED
  BY <1>1, <1>2, <1>3, <1>4, DeclaredCommitConcept DEF Migrate

LEMMA DeclaredStep ==
  ASSUME Types, Types', Targets, Declared, Next
  PROVE  Declared'
<1>1. astray => astray'
  BY AstrayStep
<1>2. ASSUME NEW j \in Jobs, Refresh(j) PROVE Declared'
  <2>1. Moves(j) /\ \/ job[j].pc \in {"refresh", "store", "prune"}
                    \/ job'[j].pc = "idle"
    <3>1. CASE Die(j)
      <4>1. ~Prune(j) /\ ~RefreshFails(j) => job'[j].pc = "idle"
        BY <3>1, EndingJob, IdleType
      <4> QED
        BY <3>1, <4>1, EndingJob DEF Prune, RefreshFails
    <3>2. CASE ReadGroups(j) \/ StoreGroups(j) \/ Prune(j) \/ RefreshFails(j)
      BY <3>2, ReadGroupsJob, StoreGroupsJob, EndingJob
         DEF Prune, RefreshFails
    <3> QED
      BY <1>2, <3>1, <3>2 DEF Refresh
  <2>2. context' = context /\ declared' = declared
    BY <1>2 DEF Refresh, ReadGroups, StoreGroups, Prune, RefreshFails, Die,
                catalog
  <2>3. ASSUME ~astray, NEW m \in Migrators PROVE Seen(m)'
    BY <2>1, <2>2, <2>3, SeenStays DEF Declared, Seen, Moves, Jobs
  <2> QED
    BY <1>1, <2>2, <2>3, DeclaredIf
<1>3. CASE \E c \in Contexts : CountConcepts(c)
  BY <1>1, <1>3, SeenStays, DeclaredIf DEF CountConcepts, catalog, Declared,
                                           Seen
<1>4. CASE DeleteContext
  <2>1. /\ context' = context /\ declared' = declared \ {admin}
        /\ job' = job
        /\ astray' = (astray \/ InContext(admin) # {})
    BY <1>4 DEF DeleteContext, catalog
  <2> SUFFICES ASSUME ~astray' PROVE Declared'
    BY DEF Declared
  <2>2. ASSUME NEW i \in Live' PROVE context'[i] \in declared'
    BY <2>1 DEF InContext, Live, Declared
  <2>3. ASSUME NEW o \in Migrators PROVE Seen(o)'
    BY <2>1, SeenStays DEF Declared, Seen
  <2> QED
    BY <2>2, <2>3 DEF Declared, Seen
<1>5. CASE DeleteAllGroups \/ InsertAllGroups \/ CommitRebuild \/ RebuildFails
  <2>1. context' = context /\ declared' = declared /\ job' = job
    BY <1>5 DEF DeleteAllGroups, InsertAllGroups, CommitRebuild,
                RebuildFails, catalog
  <2> QED
    BY <1>1, <2>1, SeenStays, DeclaredIf DEF Declared, Seen
<1> QED
  BY <1>1, <1>2, <1>3, <1>4, <1>5, DeclaredExtract, DeclaredMigrate DEF Next

-----------------------------------------------------------------------------
(* The groups                                                              *)
SameRows(n) ==
  /\ Aggregate(n)' = Aggregate(n)
  /\ OfName(n)' = {} <=> OfName(n) = {}
  /\ groups'[n] = groups[n]

SameJob(j, n) ==
  /\ Owes(j, n)' <=> Owes(j, n)
  /\ Refreshing(j, n)' <=> Refreshing(j, n)
  /\ Refreshing(j, n) => /\ job'[j].pc = job[j].pc
                         /\ job'[j].read[n] = job[j].read[n]
  /\ Owes(j, n) /\ job[j].pc # "prune" => job'[j].pc # "prune"

LEMMA RefreshedStays ==
  ASSUME NEW n \in Names, Refreshed(n), SameRows(n),
         \A j \in Jobs : SameJob(j, n)
  PROVE  Refreshed(n)'
<1>1. \A j, k \in Jobs : Refreshing(j, n)' /\ Refreshing(k, n)' => j = k
  BY DEF Refreshed, SameJob
<1>2. (\A j \in Jobs : ~Owes(j, n)') => groups'[n] = Aggregate(n)'
  BY DEF Refreshed, SameJob, SameRows
<1>3. ASSUME NEW j \in Jobs, Refreshing(j, n)', Alone(j, n)'
      PROVE  /\ job'[j].pc = "store" => job'[j].read[n] = Aggregate(n)'
             /\ job'[j].pc = "prune" => groups'[n] = Aggregate(n)'
                                           \/ OfName(n)' = {}
  <2>1. Refreshing(j, n) /\ Alone(j, n)
    BY <1>3 DEF SameJob, Alone
  <2>2. /\ job[j].pc = "store" => job[j].read[n] = Aggregate(n)
        /\ job[j].pc = "prune" => groups[n] = Aggregate(n) \/ OfName(n) = {}
    BY <2>1 DEF Refreshed
  <2>3. job'[j].pc = job[j].pc /\ job'[j].read[n] = job[j].read[n]
    BY <2>1 DEF SameJob
  <2> QED
    BY <2>2, <2>3 DEF SameRows
<1> QED
  BY <1>1, <1>2, <1>3 DEF Refreshed

LEMMA ResumedStays ==
  ASSUME NEW n \in Names, Resumed(n), SameRows(n),
         \A j \in Jobs : SameJob(j, n),
         rebuild' = rebuild \/ rebuild'.pc # "commit"
  PROVE  Resumed(n)'
<1>1. CASE rebuild'.pc # "commit"
  BY <1>1 DEF Resumed
<1>2. CASE rebuild' = rebuild
  <2>1. Rebuilt' = Rebuilt
    BY <1>2, NoGroupType DEF Rebuilt, NoGroup
  <2>2. (\E j \in Jobs : Owes(j, n) /\ job[j].pc # "prune")
           => \E j \in Jobs : Owes(j, n)' /\ job'[j].pc # "prune"
    BY DEF SameJob
  <2> QED
    BY <1>2, <2>1, <2>2 DEF Resumed, SameRows, NoGroup
<1> QED
  BY <1>1, <1>2

LEMMA UnmovedJob ==
  ASSUME NEW n \in Names, NEW j \in Jobs, job'[j] = job[j], Live' = Live
  PROVE  SameJob(j, n)
BY DEF SameJob, Owes, Refreshing

LEMMA SameAggregate ==
  ASSUME NEW n \in Names, OfName(n)' = OfName(n),
         \A i \in OfName(n) : facts'[i] = facts[i]
  PROVE  Aggregate(n)' = Aggregate(n)
<1>1. Joined(n)' = Joined(n)
  BY DEF Joined
<1> QED
  BY <1>1 DEF Aggregate

LEMMA SameCatalog ==
  ASSUME NEW n \in Names, UNCHANGED <<context, facts>>,
         groups'[n] = groups[n]
  PROVE  SameRows(n) /\ Live' = Live
<1>1. Live' = Live /\ OfName(n)' = OfName(n)
  BY DEF Live, OfName
<1> QED
  BY <1>1, SameAggregate DEF SameRows

(* The steps of a job that refreshes nothing.                              *)
LEMMA KeptQuiet ==
  ASSUME Kept, UNCHANGED <<context, facts, groups>>, behind \subseteq behind',
         rebuild' = rebuild \/ rebuild'.pc # "commit",
         NEW j \in Jobs, \A o \in Jobs \ {j} : job'[o] = job[o],
         \A n \in Names \ behind' : SameJob(j, n)
  PROVE  Kept'
<1> SUFFICES ASSUME NEW n \in Names, n \notin behind'
             PROVE  Refreshed(n)' /\ Resumed(n)'
  BY DEF Kept
<1>1. SameRows(n) /\ Live' = Live
  BY SameCatalog
<1>2. \A o \in Jobs : SameJob(o, n)
  BY <1>1, UnmovedJob
<1> QED
  BY <1>1, <1>2, RefreshedStays, ResumedStays DEF Kept

LEMMA KeptExtract ==
  ASSUME Types, Types', Kept, NEW e \in Extractors, Begin(e) \/ EndWave(e)
  PROVE  Kept'
<1>1. e \in Jobs /\ Moves(e) /\ Fields(e) /\ Fields(e)'
  BY BeginJob, EndWaveJob DEF Types, Jobs
<1>2. UNCHANGED <<context, facts, groups>> /\ behind' = behind
      /\ rebuild' = rebuild
  BY DEF Begin, EndWave, catalog, ghosts
<1>3. Live' = Live
  BY <1>2 DEF Live
<1>4. ASSUME NEW n \in Names PROVE SameJob(e, n)
  <2>1. CASE Begin(e)
    <3>1. /\ job[e].pc = "idle" /\ job[e].names = {} /\ job[e].ids = {}
          /\ job'[e].names = {} /\ job'[e].ids = {} /\ job'[e].pc = "write"
      BY <2>1, <1>1, BeginJob DEF Begin, Fields
    <3> QED
      BY <3>1 DEF SameJob, Owes, Refreshing
  <2>2. CASE EndWave(e)
    <3>1. /\ job[e].pc = "write" /\ job[e].names = {}
          /\ job'[e].names = {NameOf[i] : i \in job[e].ids \cap Live}
          /\ job'[e].ids = {} /\ job'[e].pc = "refresh"
      BY <2>2, <1>1, EndWaveJob DEF Fields
    <3>2. n \in job'[e].names <=> \E i \in job[e].ids \cap Live : NameOf[i] = n
      BY <3>1
    <3> QED
      BY <3>1, <3>2 DEF SameJob, Owes, Refreshing
  <2> QED
    BY <2>1, <2>2
<1> QED
  BY <1>1, <1>2, <1>4, KeptQuiet DEF Moves

LEMMA KeptMigrate ==
  ASSUME Types, Types', Kept, NEW m \in Migrators,
         \/ BeginMigration(m) \/ Undeclare(m)
         \/ \E i \in Ids : CopyLinks(m, i)
  PROVE  Kept'
<1>1. m \in Jobs /\ Moves(m) /\ Fields(m) /\ Fields(m)'
  BY BeginMigrationJob, EndingJob, CopyLinksJob DEF Types, Jobs
<1>2. UNCHANGED <<context, facts, groups>> /\ behind' = behind
      /\ rebuild' = rebuild
  BY DEF BeginMigration, Undeclare, CopyLinks, catalog, ghosts
<1>3. Live' = Live
  BY <1>2 DEF Live
<1>4. /\ job'[m].names = job[m].names /\ job'[m].ids = job[m].ids
      /\ job[m].pc \notin {"store", "prune"}
      /\ job'[m].pc \notin {"store", "prune"}
  <2>1. CASE Undeclare(m)
    BY <2>1, <1>1, EndingJob DEF Undeclare, Fields
  <2>2. CASE BeginMigration(m) \/ \E i \in Ids : CopyLinks(m, i)
    BY <2>2, BeginMigrationJob, CopyLinksJob
  <2> QED
    BY <2>1, <2>2
<1>5. ASSUME NEW n \in Names PROVE SameJob(m, n)
  BY <1>3, <1>4 DEF SameJob, Owes, Refreshing
<1> QED
  BY <1>1, <1>2, <1>5, KeptQuiet DEF Moves

LEMMA KeptFails ==
  ASSUME Types, Kept, NEW j \in Jobs, RefreshFails(j) \/ Die(j)
  PROVE  Kept'
<1>1. /\ Moves(j) /\ job'[j].names = {} /\ job'[j].ids = {}
  BY EndingJob
<1>2. UNCHANGED <<context, facts, groups>> /\ behind' = behind \cup Owed(j)
      /\ rebuild' = rebuild
  BY DEF RefreshFails, Die, catalog
<1>3. job'[j].pc # "prune"
  BY EndingJob
<1>4. ASSUME NEW n \in Names, n \notin behind' PROVE SameJob(j, n)
  <2>1. n \notin Owed(j)
    BY <1>2, <1>4
  <2>2. n \notin job[j].names /\ ~Owes(j, n)
    BY <2>1 DEF Owed, Owes
  <2> QED
    BY <1>1, <1>3, <2>2 DEF SameJob, Owes, Refreshing
<1> QED
  BY <1>1, <1>2, <1>4, KeptQuiet DEF Moves

(* The steps that no job takes, but for those of the rebuild.              *)
LEMMA KeptIdle ==
  ASSUME Kept, UNCHANGED <<context, facts, groups, job>>, behind' = behind,
         rebuild' = rebuild \/ rebuild'.pc # "commit"
  PROVE  Kept'
<1> SUFFICES ASSUME NEW n \in Names, n \notin behind'
             PROVE  Refreshed(n)' /\ Resumed(n)'
  BY DEF Kept
<1>1. SameRows(n) /\ Live' = Live
  BY SameCatalog
<1>2. \A o \in Jobs : SameJob(o, n)
  BY <1>1, UnmovedJob
<1> QED
  BY <1>1, <1>2, RefreshedStays, ResumedStays DEF Kept

(* A job that changes the concepts of a name is still to refresh it.       *)
LEMMA Disturbed ==
  ASSUME NEW n \in Names, Refreshed(n), Resumed(n),
         NEW j \in Jobs, Owes(j, n)', job'[j].pc \notin {"store", "prune"},
         OfName(n)' = {} => OfName(n) = {}, rebuild' = rebuild,
         \A k \in Jobs : Refreshing(k, n)' => Refreshing(k, n)
  PROVE  Refreshed(n)' /\ Resumed(n)'
<1>1. \A i, k \in Jobs : Refreshing(i, n)' /\ Refreshing(k, n)' => i = k
  BY DEF Refreshed
<1>2. ASSUME NEW k \in Jobs, Refreshing(k, n)' PROVE ~Alone(k, n)'
  <2>1. j \in Jobs \ {k}
    BY <1>2 DEF Refreshing
  <2> QED
    BY <2>1 DEF Alone
<1>3. Refreshed(n)'
  BY <1>1, <1>2 DEF Refreshed
<1>4. Rebuilt' = Rebuilt
  BY NoGroupType DEF Rebuilt, NoGroup
<1>5. Resumed(n)'
  BY <1>4 DEF Resumed, NoGroup
<1> QED
  BY <1>3, <1>5

LEMMA KeptLinkFact ==
  ASSUME Types, Types', Kept, NEW e \in Extractors, NEW f \in Facts,
         NEW S \in SUBSET Ids, NEW at \in [S -> Contexts], LinkFact(e, f, at)
  PROVE  Kept'
<1>1. /\ e \in Jobs /\ Moves(e)
      /\ job[e].pc = "write" /\ job'[e].pc = "write"
      /\ job'[e].names = job[e].names /\ job'[e].ids = job[e].ids \cup S
  BY LinkFactJob DEF Jobs
<1>2. DOMAIN at = S
  OBVIOUS
<1>3. /\ context' = [i \in Ids |-> IF i \in S THEN at[i] ELSE context[i]]
      /\ facts' = [i \in Ids |-> facts[i] \cup IF i \in S THEN {f} ELSE {}]
      /\ groups' = groups /\ rebuild' = rebuild /\ behind' = behind
  BY <1>2 DEF LinkFact
<1>4. \A i \in S : i \in Live'
  BY <1>3, NamesAssumption DEF Live
<1>5. \A i \in Ids \ S : (i \in Live' <=> i \in Live) /\ facts'[i] = facts[i]
  BY <1>3 DEF Live
<1>6. \A k \in Jobs, n \in Names : Refreshing(k, n)' => Refreshing(k, n)
  BY <1>1 DEF Moves, Refreshing
<1> SUFFICES ASSUME NEW n \in Names, n \notin behind'
             PROVE  Refreshed(n)' /\ Resumed(n)'
  BY DEF Kept
<1>7. Refreshed(n) /\ Resumed(n)
  BY <1>3 DEF Kept
<1>8. CASE \E i \in S : NameOf[i] = n
  <2>1. Owes(e, n)'
    BY <1>1, <1>4, <1>8 DEF Owes
  <2>2. OfName(n) \subseteq OfName(n)'
    BY <1>4, <1>5 DEF OfName, Live
  <2> QED
    BY <1>1, <1>3, <1>6, <1>7, <2>1, <2>2, Disturbed
<1>9. CASE \A i \in S : NameOf[i] # n
  <2>1. OfName(n)' = OfName(n) /\ \A i \in OfName(n) : facts'[i] = facts[i]
    BY <1>5, <1>9 DEF OfName, Live
  <2>2. SameRows(n)
    BY <1>3, <2>1, SameAggregate DEF SameRows
  <2>3. ASSUME NEW k \in Jobs PROVE SameJob(k, n)
    <3>1. job[k] \in Job /\ job'[k] \in Job
      BY DEF Types, TypeOK
    <3>2. \A i \in Ids : NameOf[i] = n =>
             (i \in job'[k].ids \cap Live' <=> i \in job[k].ids \cap Live)
      BY <1>1, <1>5, <1>9 DEF Moves
    <3>3. Owes(k, n)' <=> Owes(k, n)
      BY <1>1, <3>1, <3>2 DEF Owes, Moves, Job
    <3> QED
      BY <1>1, <3>3 DEF SameJob, Refreshing, Moves
  <2> QED
    BY <1>3, <1>7, <2>2, <2>3, RefreshedStays, ResumedStays
<1> QED
  BY <1>8, <1>9

LEMMA KeptCommitConcept ==
  ASSUME Types, Types', Targets, Kept, NEW m \in Migrators, CommitConcept(m)
  PROVE  Kept'
<1> DEFINE i == job[m].cur
           k == job[m].into
           C == job[m].copied
<1>1. /\ m \in Jobs /\ Moves(m)
      /\ job[m].pc = "copied" /\ job'[m].pc \in {"next", "refresh"}
      /\ job'[m].names = job[m].names \cup {NameOf[i]}
      /\ job'[m].ids = job[m].ids
  BY CommitConceptJob DEF Jobs
<1>2. /\ i \in Ids
      /\ k # None =>
           /\ k \in Ids /\ NameOf[k] = NameOf[i]
           /\ context' = [context EXCEPT ![i] = None]
           /\ facts' = [x \in Ids |-> IF x = i THEN {}
                          ELSE IF x = k THEN facts[k] \cup C ELSE facts[x]]
      /\ k = None =>
           /\ context' = IF i \in Live THEN [context EXCEPT ![i] = To[m]]
                                       ELSE context
           /\ facts' = facts
  BY CommitCatalog
<1>3. /\ groups' = groups /\ rebuild' = rebuild
      /\ behind' = IF k # None /\ k \notin Live \ {i}
                     THEN behind \cup {NameOf[i]} ELSE behind
  BY DEF CommitConcept
<1>4. context \in [Ids -> Contexts \cup {None}] /\ To[m] \in Contexts
  BY MigrationsAssumption DEF Types, TypeOK
<1>5. \A x \in Ids : NameOf[x] # NameOf[i] =>
         (x \in Live' <=> x \in Live) /\ facts'[x] = facts[x]
  BY <1>2, <1>4 DEF Live
<1>6. \A j \in Jobs, n \in Names : Refreshing(j, n)' => Refreshing(j, n)
  BY <1>1 DEF Moves, Refreshing
<1> SUFFICES ASSUME NEW n \in Names, n \notin behind'
             PROVE  Refreshed(n)' /\ Resumed(n)'
  BY DEF Kept
<1>7. Refreshed(n) /\ Resumed(n)
  BY <1>3 DEF Kept
<1>8. CASE n = NameOf[i]
  <2>1. Owes(m, n)'
    BY <1>1, <1>8 DEF Owes
  <2>2. OfName(n)' = {} => OfName(n) = {}
    <3>1. CASE k = None
      <4>1. Live \subseteq Live'
        BY <1>2, <1>4, <3>1, NamesAssumption DEF Live
      <4> QED
        BY <4>1 DEF OfName
    <3>2. CASE k # None
      <4>1. k \in Live /\ k # i
        BY <1>3, <1>8, <3>2
      <4>2. k \in Live'
        BY <1>2, <1>4, <3>2, <4>1 DEF Live
      <4> QED
        BY <1>2, <1>8, <3>2, <4>2 DEF OfName
    <3> QED
      BY <3>1, <3>2
  <2> QED
    BY <1>1, <1>3, <1>6, <1>7, <2>1, <2>2, Disturbed
<1>9. CASE n # NameOf[i]
  <2>1. OfName(n)' = OfName(n) /\ \A x \in OfName(n) : facts'[x] = facts[x]
    BY <1>5, <1>9 DEF OfName, Live
  <2>2. SameRows(n)
    BY <1>3, <2>1, SameAggregate DEF SameRows
  <2>3. ASSUME NEW j \in Jobs PROVE SameJob(j, n)
    <3>1. job[j] \in Job /\ job'[j] \in Job
      BY DEF Types, TypeOK
    <3>2. \A x \in Ids : NameOf[x] = n =>
             (x \in job'[j].ids \cap Live' <=> x \in job[j].ids \cap Live)
      BY <1>1, <1>5, <1>9 DEF Moves
    <3>3. Owes(j, n)' <=> Owes(j, n)
      BY <1>1, <1>9, <3>1, <3>2 DEF Owes, Moves, Job
    <3> QED
      BY <1>1, <1>9, <3>3 DEF SameJob, Refreshing, Moves
  <2> QED
    BY <1>3, <1>7, <2>2, <2>3, RefreshedStays, ResumedStays
<1> QED
  BY <1>8, <1>9

(* A refresh reads the groups, writes them, and deletes those of no        *)
(* concept.                                                                *)
LEMMA ResumedIf ==
  ASSUME NEW n \in Names, Resumed(n), rebuild' = rebuild,
         UNCHANGED <<context, facts>>,
         rebuild.pc = "commit" /\ n \in Rebuilt =>
            (\/ rebuild.read[n] = Aggregate(n)
             \/ \E j \in Jobs : Owes(j, n)' /\ job'[j].pc # "prune")
  PROVE  Resumed(n)'
<1>1. Rebuilt' = Rebuilt
  BY NoGroupType DEF Rebuilt, NoGroup
<1>2. OfName(n)' = OfName(n)
  BY DEF OfName, Live
<1>3. Aggregate(n)' = Aggregate(n)
  BY <1>2, SameAggregate
<1> QED
  BY <1>1, <1>2, <1>3 DEF Resumed, NoGroup

LEMMA KeptReadGroups ==
  ASSUME Types, Kept, NEW j \in Jobs, ReadGroups(j)
  PROVE  Kept'
<1>1. /\ Moves(j) /\ job[j].pc = "refresh" /\ job'[j].pc = "store"
      /\ job'[j].names = job[j].names /\ job'[j].ids = job[j].ids
      /\ \A n \in job[j].names : job'[j].read[n] = Aggregate(n)
  BY ReadGroupsJob
<1>2. /\ UNCHANGED <<context, facts, groups>> /\ rebuild' = rebuild
      /\ behind' = behind \cup Crossed(j)
  BY DEF ReadGroups, catalog
<1> SUFFICES ASSUME NEW n \in Names, n \notin behind'
             PROVE  Refreshed(n)' /\ Resumed(n)'
  BY DEF Kept
<1>3. n \notin Crossed(j) /\ Refreshed(n) /\ Resumed(n)
  BY <1>2 DEF Kept
<1>4. SameRows(n) /\ Live' = Live
  BY <1>2, SameCatalog
<1>5. \A k \in Jobs : Owes(k, n)' <=> Owes(k, n)
  BY <1>1, <1>4 DEF Owes, Moves
<1>6. \A k \in Jobs \ {j} : job'[k] = job[k]
  BY <1>1 DEF Moves
<1>7. Resumed(n)'
  <2>1. \A k \in Jobs : Owes(k, n) /\ job[k].pc # "prune"
                          => Owes(k, n)' /\ job'[k].pc # "prune"
    BY <1>1, <1>5, <1>6
  <2> QED
    BY <1>2, <1>3, <2>1, ResumedIf DEF Resumed
<1>8. CASE n \in job[j].names
  <2>1. \A k \in Jobs \ {j} : ~Refreshing(k, n)'
    BY <1>3, <1>6, <1>8 DEF Crossed, Refreshing
  <2>2. Owes(j, n)'
    BY <1>1, <1>8 DEF Owes
  <2>3. job'[j].pc = "store" /\ job'[j].read[n] = Aggregate(n)'
    BY <1>1, <1>4, <1>8 DEF SameRows
  <2>4. Refreshed(n)'
    BY <2>1, <2>2, <2>3 DEF Refreshed
  <2> QED
    BY <2>4, <1>7
<1>9. CASE n \notin job[j].names
  <2>1. SameJob(j, n)
    BY <1>1, <1>5, <1>9 DEF SameJob, Refreshing
  <2>2. \A k \in Jobs : SameJob(k, n)
    BY <1>4, <1>6, <2>1, UnmovedJob
  <2> QED
    BY <1>3, <1>4, <1>7, <2>2, RefreshedStays
<1> QED
  BY <1>8, <1>9

LEMMA KeptStoreGroups ==
  ASSUME Types, Kept, NEW j \in Jobs, StoreGroups(j)
  PROVE  Kept'
<1>1. /\ Moves(j) /\ job[j].pc = "store" /\ job'[j].pc = "prune"
      /\ job'[j].names = job[j].names /\ job'[j].ids = job[j].ids
  BY StoreGroupsJob
<1>2. /\ UNCHANGED <<context, facts>> /\ rebuild' = rebuild /\ behind' = behind
      /\ groups' = [n \in Names |-> IF job[j].read[n] # NoGroup
                                      THEN job[j].read[n] ELSE groups[n]]
      /\ {n \in Names : job[j].read[n] # NoGroup} \cap Rebuilt = {}
  BY DEF StoreGroups, catalog, ghosts
<1>3. /\ \A n \in Names : job[j].read[n] # NoGroup => n \in job[j].names
      /\ job[j].ids = {}
  BY <1>1 DEF Types, Fields
<1> SUFFICES ASSUME NEW n \in Names, n \notin behind'
             PROVE  Refreshed(n)' /\ Resumed(n)'
  BY DEF Kept
<1>4. Refreshed(n) /\ Resumed(n)
  BY <1>2 DEF Kept
<1>5. Live' = Live /\ OfName(n)' = OfName(n)
  BY <1>2 DEF Live, OfName
<1>6. Aggregate(n)' = Aggregate(n)
  BY <1>2, <1>5, SameAggregate
<1>7. \A k \in Jobs : Owes(k, n)' <=> Owes(k, n)
  BY <1>1, <1>5 DEF Owes, Moves
<1>8. \A k \in Jobs \ {j} : job'[k] = job[k]
  BY <1>1 DEF Moves
<1>9. \A k \in Jobs : Refreshing(k, n)' <=> Refreshing(k, n)
  BY <1>1, <1>8 DEF Refreshing
<1>10. Aggregate(n) = NoGroup <=> OfName(n) = {}
  BY AggregateType DEF Types
<1>11. CASE n \in job[j].names
  <2>1. Refreshing(j, n) /\ Owes(j, n)
    BY <1>1, <1>11 DEF Refreshing, Owes
  <2>2. \A k \in Jobs \ {j} : ~Refreshing(k, n)
    BY <1>4, <2>1 DEF Refreshed
  <2>3. Alone(j, n) => job[j].read[n] = Aggregate(n)
    BY <1>1, <1>4, <2>1 DEF Refreshed
  <2>4. Alone(j, n)' => groups'[n] = Aggregate(n)' \/ OfName(n)' = {}
    <3>1. Alone(j, n)' => Alone(j, n)
      BY <1>7 DEF Alone
    <3> QED
      BY <1>2, <1>5, <1>6, <1>10, <2>3, <3>1
  <2>5. Refreshed(n)'
    BY <1>1, <1>7, <1>9, <2>1, <2>2, <2>4 DEF Refreshed
  <2>6. ASSUME rebuild.pc = "commit", n \in Rebuilt,
               rebuild.read[n] # Aggregate(n)
        PROVE  \E k \in Jobs : Owes(k, n)' /\ job'[k].pc # "prune"
    <3>1. job[j].read[n] = NoGroup
      BY <1>2, <2>6
    <3>2. ~Alone(j, n)
      BY <1>4, <1>10, <2>3, <2>6, <3>1 DEF Resumed
    <3>3. PICK k \in Jobs \ {j} : Owes(k, n)
      BY <3>2 DEF Alone
    <3>4. job[k].pc # "prune"
      BY <2>2, <3>3 DEF Refreshing, Owes, Types, Fields
    <3> QED
      BY <1>7, <1>8, <3>3, <3>4
  <2>7. Resumed(n)'
    BY <1>2, <1>4, <2>6, ResumedIf
  <2> QED
    BY <2>5, <2>7
<1>12. CASE n \notin job[j].names
  <2>1. groups'[n] = groups[n]
    BY <1>2, <1>3, <1>12
  <2>2. SameRows(n)
    BY <1>5, <1>6, <2>1 DEF SameRows
  <2>3. SameJob(j, n)
    BY <1>1, <1>3, <1>7, <1>12 DEF SameJob, Refreshing, Owes
  <2>4. \A k \in Jobs : SameJob(k, n)
    BY <1>5, <1>8, <2>3, UnmovedJob
  <2> QED
    BY <1>2, <1>4, <2>2, <2>4, RefreshedStays, ResumedStays
<1> QED
  BY <1>11, <1>12

LEMMA KeptPrune ==
  ASSUME Types, Kept, NEW j \in Jobs, Prune(j)
  PROVE  Kept'
<1>1. /\ Moves(j) /\ job'[j].pc \in {"idle", "undeclare"}
      /\ job'[j].names = {} /\ job'[j].ids = {}
  BY EndingJob
<1>2. /\ UNCHANGED <<context, facts>> /\ rebuild' = rebuild /\ behind' = behind
      /\ groups' = [n \in Names |-> IF n \in Dead(j) THEN NoGroup
                                                     ELSE groups[n]]
      /\ job[j].pc = "prune"
  BY DEF Prune, catalog, ghosts
<1>3. job[j].ids = {}
  BY <1>2 DEF Types, Fields
<1> SUFFICES ASSUME NEW n \in Names, n \notin behind'
             PROVE  Refreshed(n)' /\ Resumed(n)'
  BY DEF Kept
<1>4. Refreshed(n) /\ Resumed(n)
  BY <1>2 DEF Kept
<1>5. Live' = Live /\ OfName(n)' = OfName(n)
  BY <1>2 DEF Live, OfName
<1>6. Aggregate(n)' = Aggregate(n)
  BY <1>2, <1>5, SameAggregate
<1>7. \A k \in Jobs \ {j} : job'[k] = job[k] /\ (Owes(k, n)' <=> Owes(k, n))
  BY <1>1, <1>5 DEF Owes, Moves
<1>8. Aggregate(n) = NoGroup <=> OfName(n) = {}
  BY AggregateType DEF Types
<1>9. CASE n \in job[j].names
  <2>1. Refreshing(j, n)
    BY <1>2, <1>9 DEF Refreshing
  <2>2. \A k \in Jobs : ~Refreshing(k, n)'
    BY <1>1, <1>4, <1>7, <2>1 DEF Refreshed, Refreshing
  <2>3. ASSUME \A k \in Jobs : ~Owes(k, n)'
        PROVE  groups'[n] = Aggregate(n)'
    <3>1. Alone(j, n)
      BY <1>7, <2>3 DEF Alone
    <3>2. groups[n] = Aggregate(n) \/ OfName(n) = {}
      BY <1>2, <1>4, <2>1, <3>1 DEF Refreshed
    <3> QED
      BY <1>2, <1>6, <1>8, <1>9, <3>2 DEF Dead
  <2>4. Refreshed(n)'
    BY <2>2, <2>3 DEF Refreshed
  <2>5. \A k \in Jobs : Owes(k, n) /\ job[k].pc # "prune"
                          => Owes(k, n)' /\ job'[k].pc # "prune"
    BY <1>2, <1>7
  <2>6. Resumed(n)'
    BY <1>2, <1>4, <2>5, ResumedIf DEF Resumed
  <2> QED
    BY <2>4, <2>6
<1>10. CASE n \notin job[j].names
  <2>1. SameRows(n)
    BY <1>2, <1>5, <1>6, <1>10 DEF SameRows, Dead
  <2>2. SameJob(j, n)
    BY <1>1, <1>3, <1>10 DEF SameJob, Refreshing, Owes
  <2>3. \A k \in Jobs : SameJob(k, n)
    BY <1>5, <1>7, <2>2, UnmovedJob
  <2> QED
    BY <1>2, <1>4, <2>1, <2>3, RefreshedStays, ResumedStays
<1> QED
  BY <1>9, <1>10

(* A rebuild that ends its transaction has what it read, of the names that *)
(* it has deleted or inserted, and nothing of the others.                  *)
LEMMA KeptRebuild ==
  ASSUME Types, Kept,
         DeleteAllGroups \/ InsertAllGroups \/ CommitRebuild \/ RebuildFails
  PROVE  Kept'
<1>1. CASE DeleteAllGroups \/ RebuildFails
  <2>1. rebuild'.pc # "commit"
    <3> DEFINE x == [NoRebuild EXCEPT !.pc = "insert",
                       !.gone = {n \in Names : groups[n] # NoGroup}]
    <3>1. x.pc = "insert" /\ NoRebuild.pc = "idle"
      BY DEF NoRebuild
    <3>2. rebuild' = x \/ rebuild' = NoRebuild
      BY <1>1 DEF DeleteAllGroups, RebuildFails
    <3> QED
      BY <3>1, <3>2
  <2> QED
    BY <1>1, <2>1, KeptIdle DEF DeleteAllGroups, RebuildFails, catalog, ghosts
<1>2. CASE InsertAllGroups
  <2>1. UNCHANGED <<context, facts, groups, job>> /\ behind' = behind
    BY <1>2 DEF InsertAllGroups, catalog, ghosts
  <2>2. CASE rebuild' = NoRebuild
    BY <2>1, <2>2, NoRebuildType, KeptIdle
  <2>3. CASE rebuild' = [rebuild EXCEPT !.pc = "commit",
                           !.read = [n \in Names |-> Aggregate(n)]]
    <3> SUFFICES ASSUME NEW n \in Names, n \notin behind'
                 PROVE  Refreshed(n)' /\ Resumed(n)'
      BY DEF Kept
    <3>1. Refreshed(n) /\ SameRows(n) /\ Live' = Live
      BY <2>1, SameCatalog DEF Kept
    <3>2. Refreshed(n)'
      BY <2>1, <3>1, UnmovedJob, RefreshedStays
    <3>3. rebuild'.read[n] = Aggregate(n)
      BY <2>3, NowTypes DEF RebuildType
    <3>4. Aggregate(n) = NoGroup <=> OfName(n) = {}
      BY AggregateType DEF Types
    <3>5. NoGroup' = NoGroup
      BY DEF NoGroup
    <3>6. Resumed(n)'
      BY <3>1, <3>3, <3>4, <3>5 DEF Resumed, SameRows
    <3> QED
      BY <3>2, <3>6
  <2> QED
    BY <1>2, <2>2, <2>3 DEF InsertAllGroups
<1>3. CASE CommitRebuild
  <2>1. /\ UNCHANGED <<context, facts, job>> /\ rebuild' = NoRebuild
        /\ rebuild.pc = "commit"
        /\ groups' = [n \in Names |-> RowsAfter(n)]
        /\ behind' = {n \in behind : \/ \E j \in Jobs : Refreshing(j, n)
                                     \/ rebuild.read[n] # Aggregate(n)
                                     \/ n \notin Rebuilt /\ groups[n] # NoGroup}
    BY <1>3 DEF CommitRebuild, catalog
  <2> SUFFICES ASSUME NEW n \in Names, n \notin behind'
               PROVE  Refreshed(n)' /\ Resumed(n)'
    BY DEF Kept
  <2>2. Resumed(n)'
    BY <2>1, NoRebuildType DEF Resumed
  <2>3. Live' = Live /\ OfName(n)' = OfName(n)
    BY <2>1 DEF Live, OfName
  <2>4. Aggregate(n)' = Aggregate(n)
    BY <2>1, <2>3, SameAggregate
  <2>5. \A k \in Jobs : SameJob(k, n)
    BY <2>1, <2>3, UnmovedJob
  <2>6. \A k \in Jobs : /\ Owes(k, n)' <=> Owes(k, n)
                        /\ Refreshing(k, n)' <=> Refreshing(k, n)
    BY <2>5 DEF SameJob
  <2>7. groups'[n] = IF n \in Rebuilt THEN rebuild.read[n] ELSE groups[n]
    BY <2>1 DEF RowsAfter
  <2>8. CASE n \in behind
    <3>1. (\A j \in Jobs : ~Refreshing(j, n)) /\ rebuild.read[n] = Aggregate(n)
          /\ (n \in Rebuilt \/ groups[n] = NoGroup)
      BY <2>1, <2>8
    <3>2. groups'[n] = Aggregate(n)'
      BY <2>4, <2>7, <3>1 DEF Rebuilt
    <3>3. Refreshed(n)'
      BY <2>6, <3>1, <3>2 DEF Refreshed
    <3> QED
      BY <2>2, <3>3
  <2>9. CASE n \notin behind
    <3>1. Refreshed(n) /\ Resumed(n)
      BY <2>9 DEF Kept
    <3>2. CASE n \notin Rebuilt
      <4>1. SameRows(n)
        BY <2>3, <2>4, <2>7, <3>2 DEF SameRows
      <4> QED
        BY <2>2, <2>5, <3>1, <4>1, RefreshedStays
    <3>3. CASE n \in Rebuilt
      <4>1. groups'[n] = rebuild.read[n]
        BY <2>7, <3>3
      <4>2. \/ rebuild.read[n] = Aggregate(n)
            \/ \E j \in Jobs : Owes(j, n) /\ job[j].pc # "prune"
        BY <2>1, <3>1, <3>3 DEF Resumed
      <4>3. (\A j \in Jobs : ~Owes(j, n)') => groups'[n] = Aggregate(n)'
        BY <2>4, <2>6, <4>1, <4>2
      <4>4. ASSUME NEW j \in Jobs, Refreshing(j, n)', Alone(j, n)'
            PROVE  /\ job'[j].pc = "store" => job'[j].read[n] = Aggregate(n)'
                   /\ job'[j].pc = "prune" => groups'[n] = Aggregate(n)'
                                                 \/ OfName(n)' = {}
        <5>1. Refreshing(j, n) /\ Alone(j, n)
          BY <2>6, <4>4 DEF Alone
        <5>2. job[j].pc = "store" => job[j].read[n] = Aggregate(n)
          BY <3>1, <5>1 DEF Refreshed
        <5>3. job[j].pc = "prune" => rebuild.read[n] = Aggregate(n)
          BY <4>2, <5>1 DEF Alone
        <5> QED
          BY <2>1, <2>4, <4>1, <5>2, <5>3
      <4>5. Refreshed(n)'
        BY <2>6, <3>1, <4>3, <4>4 DEF Refreshed
      <4> QED
        BY <2>2, <4>5
    <3> QED
      BY <3>2, <3>3
  <2> QED
    BY <2>8, <2>9
<1> QED
  BY <1>1, <1>2, <1>3

LEMMA KeptStep ==
  ASSUME Types, Targets, Types', Kept, Next
  PROVE  Kept'
<1>1. CASE \E e \in Extractors : Extract(e)
  BY <1>1, KeptExtract, KeptLinkFact DEF Extract
<1>2. ASSUME NEW m \in Migrators, Ask(m) PROVE Kept'
  BY <1>2, KeptIdle DEF Ask, catalog, ghosts
<1>3. CASE \E m \in Migrators : Migrate(m)
  BY <1>2, <1>3, KeptMigrate, KeptCommitConcept DEF Migrate
<1>4. CASE \E j \in Jobs : Refresh(j)
  BY <1>4, KeptReadGroups, KeptStoreGroups, KeptPrune, KeptFails DEF Refresh
<1>5. CASE (\E c \in Contexts : CountConcepts(c)) \/ DeleteContext
  BY <1>5, KeptIdle DEF CountConcepts, DeleteContext, catalog
<1>6. CASE DeleteAllGroups \/ InsertAllGroups \/ CommitRebuild \/ RebuildFails
  BY <1>6, KeptRebuild
<1> QED
  BY <1>1, <1>3, <1>4, <1>5, <1>6 DEF Next

-----------------------------------------------------------------------------
(* The invariant, and what follows from it                                 *)
LEMMA InitInv == Init => GroupsInv
<1> SUFFICES ASSUME Init PROVE GroupsInv
  OBVIOUS
<1>1. Live = {} /\ \A n \in Names : OfName(n) = {}
  BY DEF Init, Live, OfName
<1>2. \A j \in Jobs : job[j] = Idle
  BY DEF Init
<1>3. job \in [Jobs -> Job]
  BY IdleType DEF Init
<1>4. rebuild = NoRebuild /\ rebuild.pc = "idle"
  BY NoRebuildType DEF Init
<1>5. TypeOK
  <2>1. context \in [Ids -> Contexts \cup {None}]
        /\ facts \in [Ids -> SUBSET Facts] /\ groups \in [Names -> Group]
    BY NoGroupType DEF Init
  <2>2. /\ declared \subseteq Contexts /\ asked \subseteq Migrators
        /\ admin \in Contexts \cup {None} /\ astray \in BOOLEAN
        /\ ever \subseteq Facts \X Names /\ late \subseteq ever
        /\ behind \subseteq Names
    BY DEF Init
  <2>3. faults \in 0..MaxFaults
    BY BoundsAssumption DEF Init
  <2>4. rebuild \in RebuildType
    BY <1>4, NoRebuildType
  <2>5. \A i \in Ids \ Live : facts[i] = {}
    BY DEF Init
  <2> QED
    BY <1>1, <1>3, <2>1, <2>2, <2>3, <2>4, <2>5 DEF TypeOK, RebuildType
<1>6. \A j \in Jobs : Fields(j)
  BY <1>2, IdleType DEF Fields
<1>7. Types
  BY <1>4, <1>5, <1>6, NoRebuildType DEF Types, Init
<1>8. \A m \in Migrators : job[m].pc = "idle" /\ job[m].copied = {}
  BY <1>2, IdleType DEF Jobs
<1>9. Targets
  BY <1>8 DEF Targets, Target, Merger
<1>10. Links /\ Declared
  BY <1>1, <1>8 DEF Init, Links, Declared
<1>11. \A n \in Names : Aggregate(n) = NoGroup
  BY <1>1, <1>5, AggregateType
<1>12. \A n \in Names : groups[n] = NoGroup
  BY DEF Init
<1>13. \A j \in Jobs : job[j].pc = "idle"
  BY <1>2, IdleType
<1>14. Kept
  BY <1>4, <1>11, <1>12, <1>13 DEF Kept, Refreshed, Resumed, Refreshing
<1> QED
  BY <1>7, <1>9, <1>10, <1>14 DEF GroupsInv

LEMMA NextInv == GroupsInv /\ [Next]_vars => GroupsInv'
<1> SUFFICES ASSUME GroupsInv, [Next]_vars PROVE GroupsInv'
  OBVIOUS
<1>1. CASE Next
  <2>1. Types'
    BY <1>1, TypesStep DEF GroupsInv
  <2> QED
    BY <1>1, <2>1, TargetsStep, LinksStep, DeclaredStep, KeptStep
       DEF GroupsInv
<1>2. CASE UNCHANGED vars
  <2>1. UNCHANGED <<declared, context, facts, groups, job, asked, admin,
                    rebuild, ever, late, behind, astray, faults>>
    BY <1>2 DEF vars, catalog, ghosts
  <2>2. Live' = Live /\ \A n : OfName(n)' = OfName(n)
    BY <2>1 DEF Live, OfName
  <2>3. \A j \in Jobs : Fields(j)'
    BY <2>1, FieldsNone DEF GroupsInv
  <2>4. Types'
    BY <2>1, <2>2, <2>3 DEF GroupsInv, Types, TypeOK
  <2>5. Targets'
    BY <2>1, <2>2 DEF GroupsInv, Targets, Target, Merger
  <2>6. Links'
    BY <2>1, <2>2 DEF GroupsInv, Links, Safe, Merger
  <2>7. Declared'
    BY <2>1, <2>2 DEF GroupsInv, Declared, InContext
  <2>8. Kept'
    BY <2>1, KeptIdle DEF GroupsInv
  <2> QED
    BY <2>4, <2>5, <2>6, <2>7, <2>8 DEF GroupsInv
<1> QED
  BY <1>1, <1>2

LEMMA GroupsInvariant == Spec => []GroupsInv
BY InitInv, NextInv, PTL DEF Spec

(* Every variable keeps its type; a context has one concept of a name, and *)
(* a concept that is not there has no facts.                               *)
THEOREM GroupTypes == Spec => []TypeOK
<1>1. GroupsInv => TypeOK
  BY DEF GroupsInv, Types
<1> QED
  BY <1>1, GroupsInvariant, PTL

(* However extractions, migrations and a rebuild are interleaved, and      *)
(* whichever of them fail: the group of a name that nobody is to refresh   *)
(* is what its concepts make it, unless one of the jobs failed, refreshes  *)
(* of it overlapped, or a concept was merged with itself or with one that  *)
(* had gone (concept_groups.go, RecomputeTouchedGroups).                   *)
THEOREM GroupsFollow == Spec => []GroupsLive
<1>1. GroupsInv => GroupsLive
  <2> SUFFICES ASSUME GroupsInv, NEW n \in Names \ behind,
                      \A j \in Jobs : n \notin Owed(j)
               PROVE  groups[n] = Aggregate(n)
    BY DEF GroupsLive
  <2>1. \A j \in Jobs : ~Owes(j, n)
    BY DEF Owes, Owed
  <2> QED
    BY <2>1 DEF GroupsInv, Kept, Refreshed
<1> QED
  BY <1>1, GroupsInvariant, PTL

(* No migration loses a link between a fact and a name, but one that came  *)
(* to a concept, or that another merge found there, while the concept was  *)
(* being merged, or one of a concept that was merged with itself           *)
(* (migrate_context.go, migrateOneConcept).                                *)
THEOREM NoLinkLost == Spec => []LinksSurvive
<1>1. GroupsInv => LinksSurvive
  BY DEF GroupsInv, Links, Safe, LinksSurvive
<1> QED
  BY <1>1, GroupsInvariant, PTL

(* A concept is in a context of the repository, unless it came to one that *)
(* was being emptied, or removed (migrate_context.go,                      *)
(* DeleteRepositoryContext).                                               *)
THEOREM NoneAstray == Spec => []ContextsDeclared
<1>1. GroupsInv => ContextsDeclared
  BY DEF GroupsInv, Declared, ContextsDeclared
<1> QED
  BY <1>1, GroupsInvariant, PTL
=============================================================================
