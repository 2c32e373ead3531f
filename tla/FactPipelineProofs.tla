------------------------- MODULE FactPipelineProofs -------------------------
(* Theorems about FactPipeline, for every set of sources, statements and   *)
(* fact ids, every similarity and every number of faults.                  *)
EXTENDS FactPipeline, TLAPS

-----------------------------------------------------------------------------
(* Type correctness                                                        *)

LEMMA IdleTypes ==
    /\ IdleDec \in DecType /\ IdleEmb \in EmbType
    /\ IdleDd \in DdType /\ IdleCl \in ClType
    /\ IdleSweep \in [pc : {"idle", "rows", "points"}, facts : SUBSET FactIds]
  BY DEF IdleDec, DecType, IdleEmb, EmbType, IdleDd, DdType, IdleCl, ClType,
         IdleSweep

LEMMA FaultType ==
  ASSUME faults \in 0..MaxFaults, Fault \/ NoFault
  PROVE  faults' \in 0..MaxFaults
  BY FaultsAssumption DEF Fault, NoFault

(* The jobs of a source only ever add jobs of that source.                 *)
LEMMA QueueTypes ==
  ASSUME TypeOK, NEW s \in Sources, NEW k \in Kinds
  PROVE  /\ Take(k, s) => queued' \subseteq Kinds \X Sources
         /\ CompleteAndChain(k, s) => /\ queued' \subseteq Kinds \X Sources
                                      /\ faults' \in 0..MaxFaults
         /\ RetryOrDiscard(k, s) => /\ queued' \subseteq Kinds \X Sources
                                    /\ faults' \in 0..MaxFaults
  BY FaultType DEF TypeOK, Take, CompleteAndChain, RetryOrDiscard, Fault

LEMMA DecomposeType ==
  ASSUME TypeOK, NEW s \in Sources, Decompose(s) \/ DecomposeDies(s)
  PROVE  TypeOK'
<1>k. "decompose" \in Kinds /\ "embed" \in Kinds
  BY DEF Kinds
<1>1. CASE DecomposeStart(s)
  <2>1. PICK got \in SUBSET Yields[s] :
          /\ Fault \/ NoFault
          /\ dec' = [dec EXCEPT ![s] = [pc |-> "persist", todo |-> got,
                        lost |-> got # Yields[s], made |-> FALSE,
                        cite |-> {}]]
    BY <1>1 DEF DecomposeStart
  <2>2. dec' \in [Sources -> DecType]
    BY <2>1, YieldsAssumption DEF TypeOK, DecType
  <2> QED
    BY <1>1, <1>k, <2>1, <2>2, QueueTypes, FaultType
    DEF DecomposeStart, TypeOK
<1>2. CASE PersistFact(s)
  <2>1. PICK t \in dec[s].todo, f \in FactIds :
          /\ status' = [status EXCEPT ![f] = "new"]
          /\ \/ /\ links' = links \cup {<<f, s>>}
                /\ dec' = [dec EXCEPT ![s].todo = @ \ {t}, ![s].cite = {f}]
                /\ NoFault
             \/ /\ links' = links
                /\ dec' = [dec EXCEPT ![s].todo = @ \ {t}]
                /\ Fault
    BY <1>2 DEF PersistFact
  <2> DEFINE linked == [dec[s] EXCEPT !.todo = @ \ {t}, !.cite = {f}]
             unlinked == [dec[s] EXCEPT !.todo = @ \ {t}]
  <2>1a. dec[s] \in DecType
    BY DEF TypeOK
  <2>2. unlinked \in DecType
    BY <2>1a DEF DecType
  <2>2a. linked \in DecType
    <3> DEFINE cited == [unlinked EXCEPT !.cite = {f}]
    <3>1. cited \in DecType
      <4> HIDE DEF unlinked
      <4> QED
        BY <2>2 DEF DecType
    <3> QED
      BY <3>1
  <2>3. \/ dec' = [dec EXCEPT ![s] = linked]
        \/ dec' = [dec EXCEPT ![s] = unlinked]
    BY <2>1 DEF TypeOK, DecType
  <2>4. dec' \in [Sources -> DecType]
    BY <2>2, <2>2a, <2>3 DEF TypeOK
  <2>5. links' \subseteq FactIds \X Sources
    BY <2>1 DEF TypeOK
  <2>6. status' \in [FactIds -> {"none", "new", "stable", "to_delete",
                                "cleaned", "reaped"}]
    BY <2>1 DEF TypeOK
  <2>7. faults' \in 0..MaxFaults
    BY <2>1, FaultType DEF TypeOK
  <2> QED
    BY <1>2, <2>4, <2>5, <2>6, <2>7 DEF PersistFact, TypeOK
<1>3. CASE CiteFact(s)
  <2>1. dec' \in [Sources -> DecType]
    <3>1. [dec[s] EXCEPT !.cite = {}, !.made = TRUE] \in DecType
      <4>1. dec[s] \in DecType
        BY DEF TypeOK
      <4>2. [dec[s] EXCEPT !.cite = {}] \in DecType
        BY <4>1 DEF DecType
      <4>3. [[dec[s] EXCEPT !.cite = {}] EXCEPT !.made = TRUE] \in DecType
        BY <4>2 DEF DecType
      <4> QED
        BY <4>1, <4>3 DEF DecType
    <3>2. dec' = [dec EXCEPT ![s] = [dec[s] EXCEPT !.cite = {}, !.made = TRUE]]
      BY <1>3, Zenon DEF CiteFact
    <3> QED
      BY <3>1, <3>2 DEF TypeOK
  <2>2. refs' \subseteq FactIds \X Sources \X Texts
    <3>1. dec[s].cite \subseteq FactIds
      BY DEF TypeOK, DecType
    <3>2. \A f \in FactIds : <<f, s, TextOf[f]>> \in FactIds \X Sources \X Texts
      BY TextOfAssumption
    <3>3. refs' = refs \cup {<<f, s, TextOf[f]>> :
                              f \in {g \in dec[s].cite : Live(g)}}
      BY <1>3 DEF CiteFact
    <3> QED
      BY <3>1, <3>2, <3>3 DEF TypeOK
  <2> QED
    BY <1>3, <2>1, <2>2 DEF CiteFact, TypeOK
<1>4. CASE DecomposeFinish(s)
  BY <1>4, <1>k, IdleTypes, QueueTypes DEF DecomposeFinish, TypeOK
<1>5. CASE DecomposeDies(s)
  <2>1. faults' \in 0..MaxFaults
    BY <1>5, FaultType DEF DecomposeDies, TypeOK
  <2> QED
    BY <1>5, <1>k, <2>1, IdleTypes DEF DecomposeDies, TypeOK
<1> QED
  BY <1>1, <1>2, <1>3, <1>4, <1>5 DEF Decompose

LEMMA EmbedType ==
  ASSUME TypeOK, NEW s \in Sources, Embed(s) \/ EmbedDies(s)
  PROVE  TypeOK'
<1>k. "dedup" \in Kinds /\ "embed" \in Kinds
  BY DEF Kinds
<1>1. CASE EmbedStart(s)
  <2>1. ToEmbed(s) \in SUBSET FactIds
    BY DEF ToEmbed
  <2>2. emb' \in [Sources -> EmbType]
    <3> DEFINE r == [pc |-> "listed", facts |-> ToEmbed(s)]
    <3>1. r \in EmbType
      BY <2>1 DEF EmbType
    <3>2. emb' = emb \/ emb' = [emb EXCEPT ![s] = r]
      BY <1>1 DEF EmbedStart
    <3> HIDE DEF r
    <3> QED
      BY <3>1, <3>2 DEF TypeOK
  <2>3. queued' \subseteq Kinds \X Sources
    BY <1>1, <1>k DEF EmbedStart, TypeOK
  <2>4. faults' \in 0..MaxFaults
    BY <1>1, FaultType DEF EmbedStart, TypeOK
  <2> QED
    BY <1>1, <2>2, <2>3, <2>4 DEF EmbedStart, TypeOK
<1>2. CASE EmbedUpsert(s)
  <2>1. emb' \in [Sources -> EmbType]
    BY <1>2 DEF EmbedUpsert, TypeOK, EmbType
  <2> QED
    BY <1>2, <2>1 DEF EmbedUpsert, TypeOK
<1>3. CASE EmbedFinish(s)
  <2>1. emb' \in [Sources -> EmbType]
    BY <1>3, IdleTypes DEF EmbedFinish, TypeOK
  <2>2. embedded' \subseteq FactIds
    BY <1>3 DEF EmbedFinish, TypeOK, EmbType
  <2>3. queued' \subseteq Kinds \X Sources /\ faults' \in 0..MaxFaults
    BY <1>3, <1>k, QueueTypes, FaultType DEF EmbedFinish, TypeOK
  <2> QED
    BY <1>3, <2>1, <2>2, <2>3 DEF EmbedFinish, TypeOK
<1>4. CASE EmbedDies(s)
  BY <1>4, <1>k, IdleTypes, QueueTypes DEF EmbedDies, TypeOK
<1> QED
  BY <1>1, <1>2, <1>3, <1>4 DEF Embed

LEMMA CleanupType ==
  ASSUME TypeOK, NEW s \in Sources, Cleanup(s) \/ CleanupDies(s)
  PROVE  TypeOK'
<1>k. "cleanup" \in Kinds
  BY DEF Kinds
<1>1. CASE CleanupStart(s)
  <2> DEFINE ids == {f \in FactIds : status[f] = "to_delete" /\ <<f, s>> \in links}
  <2>1. cl' = [cl EXCEPT ![s] = IF ids = {} THEN IdleCl
                                ELSE [pc |-> "rows", facts |-> ids]]
    BY <1>1 DEF CleanupStart
  <2>2. cl' \in [Sources -> ClType]
    BY <2>1, IdleTypes DEF TypeOK, ClType
  <2>3. point' \in [FactIds -> {"none", "new", "stable", "to_delete"}]
    BY <1>1 DEF CleanupStart, TypeOK
  <2>4. faults' \in 0..MaxFaults
    BY <1>1, FaultType DEF CleanupStart, TypeOK
  <2> QED
    BY <1>1, <1>k, <2>2, <2>3, <2>4, QueueTypes DEF CleanupStart, TypeOK
<1>2. CASE CleanupFinish(s)
  <2>1. cl' \in [Sources -> ClType]
    BY <1>2, IdleTypes DEF CleanupFinish, TypeOK
  <2>2. PICK gone \in SUBSET cl[s].facts :
          /\ Fault \/ NoFault
          /\ status' = [f \in FactIds |-> IF f \in gone /\ Live(f)
                                            THEN "cleaned" ELSE status[f]]
          /\ embedded' = embedded \ gone
    BY <1>2 DEF CleanupFinish
  <2>3. status' \in [FactIds -> {"none", "new", "stable", "to_delete",
                                "cleaned", "reaped"}]
    BY <2>2 DEF TypeOK
  <2> QED
    BY <1>2, <2>1, <2>2, <2>3, FaultType DEF CleanupFinish, TypeOK
<1>3. CASE CleanupDies(s)
  BY <1>3, <1>k, IdleTypes, QueueTypes DEF CleanupDies, TypeOK
<1> QED
  BY <1>1, <1>2, <1>3 DEF Cleanup

LEMMA CatchupType ==
  ASSUME TypeOK, AgePasses \/ Catchup \/ SweepDies
  PROVE  TypeOK'
<1>1. CASE AgePasses
  BY <1>1 DEF AgePasses, TypeOK
<1>2. CASE SweepSelect
  BY <1>2 DEF SweepSelect, Stale, TypeOK
<1>3. CASE SweepDelete
  <2>1. status' \in [FactIds -> {"none", "new", "stable", "to_delete",
                                "cleaned", "reaped"}]
    BY <1>3 DEF SweepDelete, TypeOK
  <2>2. sweep' \in [pc : {"idle", "rows", "points"}, facts : SUBSET FactIds]
    BY <1>3 DEF SweepDelete, TypeOK
  <2> QED
    BY <1>3, <2>1, <2>2 DEF SweepDelete, TypeOK
<1>4. CASE SweepPoints
  <2>1. faults' \in 0..MaxFaults
    BY <1>4, FaultType DEF SweepPoints, TypeOK
  <2> QED
    BY <1>4, <2>1, IdleTypes DEF SweepPoints, TypeOK
<1>5. CASE SweepDies
  <2>1. faults' \in 0..MaxFaults
    BY <1>5, FaultType DEF SweepDies, TypeOK
  <2> QED
    BY <1>5, <2>1, IdleTypes DEF SweepDies, TypeOK
<1> QED
  BY <1>1, <1>2, <1>3, <1>4, <1>5 DEF Catchup

(* A merge keeps the record of the transaction well formed.                *)
LEMMA MergedType ==
  ASSUME TypeOK, NEW s \in Sources, NEW f \in FactIds, NEW l \in FactIds,
         NEW w \in FactIds
  PROVE  Merged(s, f, l, w) \in DdType
<1>1. dd[s] \in DdType
  BY DEF TypeOK
<1>2. NewLinks(s, l, w) \subseteq FactIds \X Sources
  BY DEF NewLinks, LoserSources, TxSources
<1>3. TxRefs(s) \subseteq FactIds \X Sources \X Texts
  BY <1>1 DEF TxRefs, TypeOK, DdType
<1>4. LoserRefs(s, l) \subseteq FactIds \X Sources \X Texts
  BY <1>3 DEF LoserRefs
<1>5. MovedRefs(s, l, w) \subseteq FactIds \X Sources \X Texts
  BY <1>4 DEF MovedRefs
<1> DEFINE d == dd[s]
           m1 == [d EXCEPT !.todo = (@ \ {f}) \ (IF Live(l) THEN {l} ELSE {})]
           m2 == [m1 EXCEPT !.mark = IF Live(l) THEN @ \cup {l} ELSE @]
           m3 == [m2 EXCEPT !.kept = IF Pins(s, l, w) THEN @ \cup {w} ELSE @]
           m4 == [m3 EXCEPT !.linkAdd = @ \cup NewLinks(s, l, w)]
           m5 == [m4 EXCEPT !.refDel = @ \cup LoserRefs(s, l)]
           m6 == [m5 EXCEPT !.refAdd = (@ \ LoserRefs(s, l))
                                          \cup MovedRefs(s, l, w)]
<1>6. m6 = Merged(s, f, l, w)
  BY DEF Merged
<1>7. m1 \in DdType
  <2> HIDE DEF d
  <2> QED
    BY <1>1 DEF d, DdType
<1> HIDE DEF m1
<1>8. m2 \in DdType
  BY <1>7 DEF DdType
<1> HIDE DEF m2
<1>9. m3 \in DdType
  BY <1>8 DEF DdType
<1> HIDE DEF m3
<1>10. m4 \in DdType
  BY <1>2, <1>9 DEF DdType
<1> HIDE DEF m4
<1>11. m5 \in DdType
  BY <1>4, <1>10 DEF DdType
<1> HIDE DEF m5
<1>12. m6 \in DdType
  BY <1>4, <1>5, <1>11 DEF DdType
<1> QED
  BY <1>6, <1>12

LEMMA DedupType ==
  ASSUME TypeOK, NEW s \in Sources, Dedup(s) \/ DedupDies(s)
  PROVE  TypeOK'
<1>k. "dedup" \in Kinds /\ "cleanup" \in Kinds
  BY DEF Kinds
<1>d. dd[s] \in DdType
  BY DEF TypeOK
<1>1. CASE DedupStart(s)
  <2> DEFINE W == {f \in FactIds : status[f] \in {"new", "stable"} /\ Linked(f)}
             A == [IdleDd EXCEPT !.pc = "scan", !.ws = W,
                     !.stab = {f \in W : status[f] = "stable"},
                     !.todo = {f \in W : status[f] = "new"}]
  <2>1. dd' = [dd EXCEPT ![s] = A]
    BY <1>1 DEF DedupStart
  <2>2. A \in DdType
    BY DEF IdleDd, DdType
  <2>3. dd' \in [Sources -> DdType]
    BY <2>1, <2>2 DEF TypeOK
  <2> QED
    BY <1>1, <1>k, <2>3, QueueTypes DEF DedupStart, TypeOK
<1>2. CASE CompareSkips(s)
  <2>1. PICK f \in dd[s].todo : /\ Fault \/ NoFault
                                /\ dd' = [dd EXCEPT ![s].todo = @ \ {f}]
    BY <1>2 DEF CompareSkips
  <2>2. [dd[s] EXCEPT !.todo = @ \ {f}] \in DdType
    BY <1>d DEF DdType
  <2>3. dd' \in [Sources -> DdType]
    BY <2>1, <2>2 DEF TypeOK
  <2> QED
    BY <1>2, <2>1, <2>3, FaultType DEF CompareSkips, TypeOK
<1>3. CASE CompareMerges(s)
  <2>1. PICK f \in FactIds, h \in FactIds :
          /\ Fault \/ NoFault
          /\ dd' = [dd EXCEPT ![s] = Merged(s, f, Loser(s, f, h), Winner(s, f, h))]
          /\ \/ point' = point
             \/ point' = [point EXCEPT ![Loser(s, f, h)] =
                            IF @ = "none" \/ ~Live(Loser(s, f, h)) THEN @
                                                         ELSE "to_delete"]
    BY <1>3, <1>d DEF CompareMerges, DdType, Nearest, Neighbours
  <2>3. Loser(s, f, h) \in FactIds /\ Winner(s, f, h) \in FactIds
    BY DEF Loser, Winner
  <2>4. Merged(s, f, Loser(s, f, h), Winner(s, f, h)) \in DdType
    BY <2>3, MergedType
  <2>5. dd' \in [Sources -> DdType]
    BY <2>1, <2>4 DEF TypeOK
  <2>6. point' \in [FactIds -> {"none", "new", "stable", "to_delete"}]
    BY <2>1, <2>3 DEF TypeOK
  <2> QED
    BY <1>3, <2>1, <2>5, <2>6, FaultType DEF CompareMerges, TypeOK
<1>4. CASE DedupPromote(s)
  <2> DEFINE P == {f \in FactIds \ dd[s].mark : status[f] = "new" /\ Linked(f)}
             A == [dd[s] EXCEPT !.pc = "promoted"]
             B == [A EXCEPT !.promote = P]
  <2>1. dd' = [dd EXCEPT ![s] = B]
    BY <1>4, <1>d DEF DedupPromote, TypeOK, DdType
  <2>2. A \in DdType
    BY <1>d DEF DdType
  <2>3. B \in DdType
    BY <2>2 DEF DdType
  <2>4. dd' \in [Sources -> DdType]
    BY <2>1, <2>3 DEF TypeOK
  <2>5. point' \in [FactIds -> {"none", "new", "stable", "to_delete"}]
    BY <1>4 DEF DedupPromote, TypeOK
  <2> QED
    BY <1>4, <2>4, <2>5, FaultType DEF DedupPromote, TypeOK
<1>5. CASE DedupCommit(s)
  <2>1. dd' \in [Sources -> DdType]
    BY <1>5, IdleTypes DEF DedupCommit, TypeOK
  <2>2. links' \subseteq FactIds \X Sources
    BY <1>5, <1>d DEF DedupCommit, TypeOK, DdType
  <2>3. refs' \subseteq FactIds \X Sources \X Texts
    BY <1>5, <1>d DEF DedupCommit, TxRefs, TypeOK, DdType
  <2>4. status' \in [FactIds -> {"none", "new", "stable", "to_delete",
                                "cleaned", "reaped"}]
    BY <1>5 DEF DedupCommit, TypeOK
  <2>5. queued' \subseteq Kinds \X Sources /\ faults' \in 0..MaxFaults
    BY <1>5, <1>k, QueueTypes DEF DedupCommit
  <2> QED
    BY <1>5, <2>1, <2>2, <2>3, <2>4, <2>5 DEF DedupCommit, TypeOK
<1>6. CASE DedupRefused(s)
  <2>1. queued' \subseteq Kinds \X Sources
    BY <1>6, <1>k DEF DedupRefused, TypeOK
  <2> QED
    BY <1>6, <2>1, IdleTypes DEF DedupRefused, TypeOK
<1>7. CASE DedupDies(s)
  BY <1>7, <1>k, IdleTypes, QueueTypes DEF DedupDies, TypeOK
<1> QED
  BY <1>1, <1>2, <1>3, <1>4, <1>5, <1>6, <1>7 DEF Dedup

LEMMA InitType == Init => TypeOK
  BY IdleTypes, FaultsAssumption DEF Init, TypeOK, Kinds

LEMMA NextType == TypeOK /\ [Next]_vars => TypeOK'
<1> SUFFICES ASSUME TypeOK, [Next]_vars
             PROVE  TypeOK'
  OBVIOUS
<1>1. CASE UNCHANGED vars
  BY <1>1 DEF vars, TypeOK
<1>2. ASSUME NEW s \in Sources,
             Decompose(s) \/ Embed(s) \/ Dedup(s) \/ Cleanup(s) \/ Dies(s)
      PROVE  TypeOK'
  BY <1>2, DecomposeType, EmbedType, DedupType, CleanupType DEF Dies
<1>3. CASE AgePasses \/ Catchup \/ SweepDies
  BY <1>3, CatchupType
<1> QED
  BY <1>1, <1>2, <1>3 DEF Next

(* The variables of the pipeline keep their types: in particular every job *)
(* works on rows that exist and no bound on faults is exceeded.            *)
THEOREM TypeCorrect == Spec => []TypeOK
  BY InitType, NextType, PTL DEF Spec

-----------------------------------------------------------------------------
(* The invariant of the deduplication                                      *)

(* A row that CreateFact has not made yet has no source.                   *)
FreshUnlinked == \A f \in FactIds : status[f] = "none" => SourcesOf(f) = {}

(* The advisory lock: at most one transaction is open.                     *)
OneTx == \A s, t \in Sources : dd[s].pc # "idle" /\ dd[t].pc # "idle" => s = t

(* What a transaction read at its start stays true, except for the rows    *)
(* that fact_catchup takes.                                                *)
WorkingSet(s) ==
    /\ dd[s].stab \subseteq dd[s].ws
    /\ \A f \in dd[s].ws : Linked(f)
    /\ \A f \in dd[s].stab : status[f] \in {"stable", "reaped"}
    /\ \A f \in dd[s].ws \ dd[s].stab : status[f] \in {"new", "reaped"}

(* What it has written: only new facts are marked, and they stay new for   *)
(* all others, since their rows are locked.                                *)
Writes(s) ==
    /\ dd[s].mark \subseteq dd[s].ws \ dd[s].stab
    /\ dd[s].todo \subseteq (dd[s].ws \ dd[s].stab) \ dd[s].mark
    /\ dd[s].linkAdd \subseteq dd[s].ws \X Sources
    /\ \A f \in dd[s].mark \cup dd[s].promote : status[f] = "new"

(* Every marked fact has a keeper in the working set with all its sources, *)
(* also when its first keeper has lost since: mergeSources reads the links *)
(* the transaction itself has added.                                       *)
Keepers(s) ==
    \A f \in dd[s].mark : \E w \in dd[s].ws \ dd[s].mark :
        TxSources(s, f) \subseteq TxSources(s, w)

(* It links new sources only to live facts, which it thereby pins, and     *)
(* only sources of the facts it has marked.                                *)
Additions(s) ==
    /\ dd[s].kept \subseteq dd[s].ws
    /\ \A f \in dd[s].kept : Live(f)
    /\ \A w \in FactIds, r \in Sources : <<w, r>> \in dd[s].linkAdd =>
          w \in dd[s].kept /\ \E d \in dd[s].mark : r \in SourcesOf(d)

Promotes(s) ==
    dd[s].pc = "promoted" =>
        \A f \in (dd[s].ws \ dd[s].stab) \ dd[s].mark :
            status[f] = "new" => f \in dd[s].promote

TxInv(s) == dd[s].pc # "idle" =>
    WorkingSet(s) /\ Writes(s) /\ Keepers(s) /\ Additions(s) /\ Promotes(s)

(* cleanup_facts holds no fact that is not given up.                       *)
CleanupOnlyDuplicates ==
    \A s \in Sources : \A f \in cl[s].facts :
        status[f] \in {"to_delete", "cleaned", "reaped"}

DedupInv == /\ TypeOK
            /\ FreshUnlinked
            /\ OneTx
            /\ \A s \in Sources : TxInv(s)
            /\ CleanupOnlyDuplicates
            /\ ProvenancePreserved

LEMMA InitInv == Init => DedupInv
<1> SUFFICES ASSUME Init
             PROVE  DedupInv
  OBVIOUS
<1>1. TypeOK
  BY InitType
<1>2. FreshUnlinked
  BY DEF Init, FreshUnlinked, SourcesOf
<1>3. OneTx /\ \A s \in Sources : TxInv(s)
  BY DEF Init, OneTx, TxInv, IdleDd
<1>4. CleanupOnlyDuplicates
  BY DEF Init, CleanupOnlyDuplicates, IdleCl
<1>5. ProvenancePreserved
  BY DEF Init, ProvenancePreserved
<1> QED
  BY <1>1, <1>2, <1>3, <1>4, <1>5 DEF DedupInv

(* Most steps leave alone all that the invariant is about.                 *)
LEMMA Frame ==
  ASSUME DedupInv, TypeOK', UNCHANGED <<status, links, dd, cl>>
  PROVE  DedupInv'
<1>1. FreshUnlinked'
  BY DEF DedupInv, FreshUnlinked, SourcesOf
<1>2. OneTx'
  BY DEF DedupInv, OneTx
<1>3. ASSUME NEW s \in Sources
      PROVE  TxInv(s)'
  <2>1. TxInv(s)
    BY DEF DedupInv
  <2>2. WorkingSet(s)' = WorkingSet(s)
    BY DEF WorkingSet, Linked, SourcesOf
  <2>3. Writes(s)' = Writes(s)
    BY DEF Writes
  <2>4. Keepers(s)' = Keepers(s)
    BY DEF Keepers, TxSources
  <2>5. Promotes(s)' = Promotes(s)
    BY DEF Promotes
  <2>6. Additions(s)' = Additions(s)
    BY DEF Additions, Live, SourcesOf
  <2> QED
    BY <2>1, <2>2, <2>3, <2>4, <2>5, <2>6 DEF TxInv
<1>4. CleanupOnlyDuplicates'
  BY DEF DedupInv, CleanupOnlyDuplicates
<1>5. ProvenancePreserved'
  BY DEF DedupInv, ProvenancePreserved, SourcesOf
<1> QED
  BY <1>1, <1>2, <1>3, <1>4, <1>5 DEF DedupInv

(* A rollback closes the transaction and leaves no trace in Postgres.      *)
LEMMA Rollback ==
  ASSUME DedupInv, TypeOK', NEW s \in Sources,
         dd' = [dd EXCEPT ![s] = IdleDd], UNCHANGED <<status, links, cl>>
  PROVE  DedupInv'
<1>1. FreshUnlinked'
  BY DEF DedupInv, FreshUnlinked, SourcesOf
<1>2. OneTx'
  BY DEF DedupInv, OneTx, TypeOK, IdleDd
<1>3. ASSUME NEW t \in Sources, dd[t].pc # "idle", t # s
      PROVE  TxInv(t)'
  <2>1. TxInv(t) /\ dd'[t] = dd[t]
    BY <1>3 DEF DedupInv, TypeOK
  <2>2. WorkingSet(t)' = WorkingSet(t)
    BY <2>1 DEF WorkingSet, Linked, SourcesOf
  <2>3. Writes(t)' = Writes(t)
    BY <2>1 DEF Writes
  <2>4. Keepers(t)' = Keepers(t)
    BY <2>1 DEF Keepers, TxSources
  <2>5. Promotes(t)' = Promotes(t)
    BY <2>1 DEF Promotes
  <2>6. Additions(t)' = Additions(t)
    BY <2>1 DEF Additions, Live, SourcesOf
  <2> QED
    BY <1>3, <2>1, <2>2, <2>3, <2>4, <2>5, <2>6 DEF TxInv
<1>4. \A t \in Sources : TxInv(t)'
  BY <1>3 DEF TxInv, TypeOK, DedupInv, IdleDd
<1>5. CleanupOnlyDuplicates'
  BY DEF DedupInv, CleanupOnlyDuplicates
<1>6. ProvenancePreserved'
  BY DEF DedupInv, ProvenancePreserved, SourcesOf
<1> QED
  BY <1>1, <1>2, <1>4, <1>5, <1>6 DEF DedupInv

LEMMA PersistInv ==
  ASSUME DedupInv, TypeOK', NEW s \in Sources, PersistFact(s)
  PROVE  DedupInv'
<1>1. PICK f \in FactIds :
        /\ status[f] = "none"
        /\ status' = [status EXCEPT ![f] = "new"]
        /\ links' = links \cup {<<f, s>>} \/ links' = links
  BY DEF PersistFact
<1>2. UNCHANGED <<dd, cl>>
  BY DEF PersistFact
<1>3. \A g \in FactIds : g # f => /\ status'[g] = status[g]
                                  /\ SourcesOf(g)' = SourcesOf(g)
  BY <1>1 DEF DedupInv, TypeOK, SourcesOf
<1>4. status'[f] = "new"
  BY <1>1 DEF DedupInv, TypeOK
<1>5. FreshUnlinked'
  BY <1>3, <1>4 DEF DedupInv, FreshUnlinked
<1>6. OneTx'
  BY <1>2 DEF DedupInv, OneTx
<1>7. ASSUME NEW t \in Sources, dd[t].pc # "idle"
      PROVE  TxInv(t)'
  <2>1. /\ WorkingSet(t) /\ Writes(t) /\ Keepers(t)
        /\ Additions(t) /\ Promotes(t)
    BY <1>7 DEF DedupInv, TxInv
  <2>2. dd[t].ws \subseteq FactIds /\ dd[t].promote \subseteq FactIds
    BY DEF DedupInv, TypeOK, DdType
  <2>3. f \notin dd[t].ws
    BY <1>1, <2>1 DEF WorkingSet
  <2>4. WorkingSet(t)'
    BY <1>2, <1>3, <2>1, <2>2, <2>3 DEF WorkingSet, Linked
  <2>5. Writes(t)'
    <3>1. f \notin dd[t].promote
      BY <1>1, <2>1 DEF Writes
    <3> QED
      BY <1>2, <1>3, <2>1, <2>2, <2>3, <3>1 DEF Writes
  <2>6. Keepers(t)'
    <3>1. \A g \in dd[t].ws : TxSources(t, g)' = TxSources(t, g)
      BY <1>1, <1>2, <2>2, <2>3 DEF TxSources
    <3> QED
      BY <1>2, <2>1, <3>1 DEF Keepers, Writes
  <2>7. Promotes(t)'
    BY <1>2, <1>3, <2>1, <2>2, <2>3 DEF Promotes
  <2>8. Additions(t)'
    <3>1. dd[t].mark \subseteq dd[t].ws
      BY <2>1 DEF Writes
    <3>2. \A g \in dd[t].ws : SourcesOf(g)' = SourcesOf(g) /\ Live(g)' = Live(g)
      BY <1>3, <2>2, <2>3 DEF Live
    <3> QED
      BY <1>2, <2>1, <3>1, <3>2 DEF Additions
  <2> QED
    BY <2>4, <2>5, <2>6, <2>7, <2>8 DEF TxInv
<1>8. \A t \in Sources : TxInv(t)'
  BY <1>2, <1>7 DEF TxInv
<1>9. CleanupOnlyDuplicates'
  <2>1. \A t \in Sources : cl[t].facts \subseteq FactIds
    BY DEF DedupInv, TypeOK, ClType
  <2> QED
    BY <1>1, <1>2, <1>3, <2>1 DEF DedupInv, CleanupOnlyDuplicates
<1>10. ProvenancePreserved'
  BY <1>1, <1>3, <1>4 DEF DedupInv, ProvenancePreserved
<1> QED
  BY <1>5, <1>6, <1>8, <1>9, <1>10 DEF DedupInv

LEMMA StartInv ==
  ASSUME DedupInv, TypeOK', NEW s \in Sources, DedupStart(s)
  PROVE  DedupInv'
<1> DEFINE W == {f \in FactIds : status[f] \in {"new", "stable"} /\ Linked(f)}
           A == [IdleDd EXCEPT !.pc = "scan", !.ws = W,
                   !.stab = {f \in W : status[f] = "stable"},
                   !.todo = {f \in W : status[f] = "new"}]
<1>1. /\ dd' = [dd EXCEPT ![s] = A]
      /\ \A t \in Sources : dd[t].pc = "idle"
      /\ UNCHANGED <<status, links, cl>>
  BY DEF DedupStart, LockFree
<1>2. /\ dd'[s] = A
      /\ \A t \in Sources : t # s => dd'[t].pc = "idle"
  BY <1>1 DEF DedupInv, TypeOK
<1>a. /\ A.ws = W /\ A.stab = {f \in W : status[f] = "stable"}
      /\ A.todo = {f \in W : status[f] = "new"} /\ A.mark = {}
      /\ A.promote = {} /\ A.linkAdd = {} /\ A.kept = {} /\ A.pc = "scan"
  BY DEF IdleDd
<1> HIDE DEF A
<1>3. TxInv(s)'
  <2>1. WorkingSet(s)'
    BY <1>1, <1>2, <1>a DEF WorkingSet, Linked, SourcesOf
  <2>2. Writes(s)'
    BY <1>1, <1>2, <1>a DEF Writes
  <2>3. Keepers(s)' /\ Additions(s)' /\ Promotes(s)'
    BY <1>2, <1>a DEF Keepers, Additions, Promotes
  <2> QED
    BY <2>1, <2>2, <2>3 DEF TxInv
<1>4. \A t \in Sources : TxInv(t)'
  BY <1>2, <1>3 DEF TxInv
<1>5. OneTx'
  BY <1>2 DEF OneTx
<1>6. FreshUnlinked' /\ CleanupOnlyDuplicates' /\ ProvenancePreserved'
  BY <1>1 DEF DedupInv, FreshUnlinked, CleanupOnlyDuplicates,
              ProvenancePreserved, SourcesOf
<1> QED
  BY <1>4, <1>5, <1>6 DEF DedupInv

(* A step of an open transaction that touches nothing but its record keeps *)
(* the invariant, if it keeps the transaction's own part.                  *)
LEMMA TxStep ==
  ASSUME DedupInv, TypeOK', NEW s \in Sources, dd[s].pc # "idle",
         \A t \in Sources : t # s => dd'[t] = dd[t],
         UNCHANGED <<status, links, cl>>, TxInv(s)'
  PROVE  DedupInv'
<1>1. \A t \in Sources : t # s => dd'[t].pc = "idle"
  BY DEF DedupInv, OneTx
<1>2. \A t \in Sources : TxInv(t)'
  BY <1>1 DEF TxInv
<1>3. OneTx'
  BY <1>1 DEF OneTx
<1>4. FreshUnlinked' /\ CleanupOnlyDuplicates' /\ ProvenancePreserved'
  BY DEF DedupInv, FreshUnlinked, CleanupOnlyDuplicates,
         ProvenancePreserved, SourcesOf
<1> QED
  BY <1>2, <1>3, <1>4 DEF DedupInv

LEMMA SkipInv ==
  ASSUME DedupInv, TypeOK', NEW s \in Sources, CompareSkips(s)
  PROVE  DedupInv'
<1>1. PICK f \in dd[s].todo : dd' = [dd EXCEPT ![s].todo = @ \ {f}]
  BY DEF CompareSkips
<1>2. UNCHANGED <<status, links, cl>> /\ dd[s].pc = "scan"
  BY DEF CompareSkips
<1>3. dd[s] \in DdType /\ dd \in [Sources -> DdType]
  BY DEF DedupInv, TypeOK
<1>4. /\ \A t \in Sources : t # s => dd'[t] = dd[t]
      /\ dd'[s].todo = dd[s].todo \ {f} /\ dd'[s].pc = dd[s].pc
      /\ dd'[s].ws = dd[s].ws /\ dd'[s].stab = dd[s].stab
      /\ dd'[s].mark = dd[s].mark /\ dd'[s].promote = dd[s].promote
      /\ dd'[s].linkAdd = dd[s].linkAdd /\ dd'[s].kept = dd[s].kept
  BY <1>1, <1>3 DEF DdType
<1>5. TxInv(s)'
  <2>1. WorkingSet(s) /\ Writes(s) /\ Keepers(s) /\ Additions(s)
    BY <1>2 DEF DedupInv, TxInv
  <2>2. WorkingSet(s)'
    BY <1>2, <1>4, <2>1 DEF WorkingSet, Linked, SourcesOf
  <2>3. Writes(s)'
    BY <1>2, <1>4, <2>1 DEF Writes
  <2>4. Keepers(s)'
    BY <1>2, <1>4, <2>1 DEF Keepers, TxSources
  <2>5. Promotes(s)'
    BY <1>2, <1>4 DEF Promotes
  <2>6. Additions(s)'
    BY <1>2, <1>4, <2>1 DEF Additions, Live, SourcesOf
  <2> QED
    BY <2>2, <2>3, <2>4, <2>5, <2>6 DEF TxInv
<1> QED
  BY <1>2, <1>4, <1>5, TxStep

LEMMA PromoteInv ==
  ASSUME DedupInv, TypeOK', NEW s \in Sources, DedupPromote(s)
  PROVE  DedupInv'
<1> DEFINE P == {f \in FactIds \ dd[s].mark : status[f] = "new" /\ Linked(f)}
<1>1. /\ dd' = [dd EXCEPT ![s].pc = "promoted", ![s].promote = P]
      /\ UNCHANGED <<status, links, cl>> /\ dd[s].pc = "scan"
  BY DEF DedupPromote
<1>2. dd[s] \in DdType /\ dd \in [Sources -> DdType]
  BY DEF DedupInv, TypeOK
<1>p. P = {f \in FactIds \ dd[s].mark : status[f] = "new" /\ Linked(f)}
  OBVIOUS
<1> HIDE DEF P
<1>3. /\ \A t \in Sources : t # s => dd'[t] = dd[t]
      /\ dd'[s].todo = dd[s].todo /\ dd'[s].pc = "promoted"
      /\ dd'[s].ws = dd[s].ws /\ dd'[s].stab = dd[s].stab
      /\ dd'[s].mark = dd[s].mark /\ dd'[s].promote = P
      /\ dd'[s].linkAdd = dd[s].linkAdd /\ dd'[s].kept = dd[s].kept
  BY <1>1, <1>2 DEF DdType
<1>4. TxInv(s)'
  <2>1. WorkingSet(s) /\ Writes(s) /\ Keepers(s) /\ Additions(s)
    BY <1>1 DEF DedupInv, TxInv
  <2>2. WorkingSet(s)'
    BY <1>1, <1>3, <2>1 DEF WorkingSet, Linked, SourcesOf
  <2>3. Writes(s)'
    BY <1>1, <1>3, <1>p, <2>1 DEF Writes
  <2>4. Keepers(s)'
    BY <1>1, <1>3, <2>1 DEF Keepers, TxSources
  <2>5. Promotes(s)'
    BY <1>1, <1>2, <1>3, <1>p, <2>1 DEF Promotes, WorkingSet, DdType
  <2>6. Additions(s)'
    BY <1>1, <1>3, <2>1 DEF Additions, Live, SourcesOf
  <2> QED
    BY <2>2, <2>3, <2>4, <2>5, <2>6 DEF TxInv
<1> QED
  BY <1>1, <1>3, <1>4, TxStep

(* After a merge the winner has every source of the loser, and no fact has *)
(* lost one; a keeper that loses hands the facts it kept on to its winner. *)
LEMMA MergeKeeps ==
  ASSUME TypeOK, NEW s \in Sources,
         WorkingSet(s), Writes(s), Keepers(s), Additions(s),
         NEW f \in dd[s].todo, NEW l \in dd[s].ws, NEW w \in dd[s].ws,
         l \notin dd[s].mark \cup dd[s].stab, w \notin dd[s].mark, l # w,
         ~MergeRefused(s, l, w),
         dd' = [dd EXCEPT ![s] = Merged(s, f, l, w)],
         UNCHANGED <<status, links>>
  PROVE  WorkingSet(s)' /\ Writes(s)' /\ Keepers(s)' /\ Additions(s)'
<1> DEFINE M == IF Live(l) THEN {l} ELSE {}
<1>1. dd[s] \in DdType /\ dd \in [Sources -> DdType]
  BY DEF TypeOK
<1>2. /\ dd'[s].ws = dd[s].ws /\ dd'[s].stab = dd[s].stab
      /\ dd'[s].pc = dd[s].pc /\ dd'[s].promote = dd[s].promote
      /\ dd'[s].todo = (dd[s].todo \ {f}) \ M
      /\ dd'[s].mark = dd[s].mark \cup M
      /\ dd'[s].linkAdd = dd[s].linkAdd \cup NewLinks(s, l, w)
      /\ dd'[s].kept = IF Pins(s, l, w) THEN dd[s].kept \cup {w} ELSE dd[s].kept
  BY <1>1 DEF Merged, DdType
<1>3. Live(l) => status[l] = "new"
  BY DEF WorkingSet, Live
<1>4. NewLinks(s, l, w) \subseteq {w} \X Sources
  BY DEF NewLinks, LoserSources, TxSources
<1>5. M \subseteq {l} /\ (M # {} => status[l] = "new")
  BY <1>3
<1>m. l \in M <=> Live(l)
  OBVIOUS
<1> HIDE DEF M
<1>6. WorkingSet(s)'
  BY <1>2 DEF WorkingSet, Linked, SourcesOf
<1>7. Writes(s)'
  <2>1. \A g \in dd[s].mark \cup M : status[g] = "new"
    BY <1>5 DEF Writes
  <2>2. dd'[s].mark \subseteq dd[s].ws \ dd[s].stab
    BY <1>2, <1>5 DEF Writes
  <2>3. dd'[s].todo \subseteq (dd[s].ws \ dd[s].stab) \ dd'[s].mark
    BY <1>2 DEF Writes
  <2>4. dd'[s].linkAdd \subseteq dd[s].ws \X Sources
    BY <1>2, <1>4 DEF Writes
  <2> QED
    BY <1>2, <2>1, <2>2, <2>3, <2>4 DEF Writes
<1>8. \A g \in dd[s].ws : TxSources(s, g) \subseteq TxSources(s, g)'
  BY <1>2 DEF TxSources
<1>9. \A g \in dd[s].ws : g # w => TxSources(s, g)' = TxSources(s, g)
  BY <1>2, <1>4 DEF TxSources
<1>10. Live(l) => TxSources(s, l) \subseteq TxSources(s, w)'
  <2> SUFFICES ASSUME Live(l), NEW r \in TxSources(s, l)
               PROVE  r \in TxSources(s, w)'
    OBVIOUS
  <2>1. r \in Sources /\ r \in LoserSources(s, l)
    BY DEF LoserSources, TxSources
  <2>2. <<w, r>> \in NewLinks(s, l, w) \cup (links \cup dd[s].linkAdd)
    BY <2>1 DEF NewLinks
  <2> QED
    BY <1>2, <2>1, <2>2 DEF TxSources
<1>11. Keepers(s)'
  <2> SUFFICES ASSUME NEW g \in dd[s].mark \cup M
               PROVE  \E k \in dd[s].ws \ (dd[s].mark \cup M) :
                          TxSources(s, g)' \subseteq TxSources(s, k)'
    BY <1>2 DEF Keepers
  <2>w. w \in dd[s].ws \ (dd[s].mark \cup M)
    BY <1>5
  <2>1. CASE g \in dd[s].mark
    <3>1. PICK k \in dd[s].ws \ dd[s].mark :
            TxSources(s, g) \subseteq TxSources(s, k)
      BY <2>1 DEF Keepers
    <3>2. g \in dd[s].ws /\ g # w
      BY <2>1 DEF Writes
    <3>3. TxSources(s, g)' = TxSources(s, g)
      BY <1>9, <3>2
    <3>4. CASE k \in M
      <4>1. k = l /\ Live(l)
        BY <1>5, <1>m, <3>4
      <4> QED
        BY <1>10, <2>w, <3>1, <3>3, <4>1
    <3>5. CASE k \notin M
      BY <1>8, <3>1, <3>3, <3>5
    <3> QED
      BY <3>4, <3>5
  <2>2. CASE g \in M
    <3>1. g = l /\ Live(l)
      BY <1>5, <1>m, <2>2
    <3>2. TxSources(s, l)' = TxSources(s, l)
      BY <1>9
    <3> QED
      BY <1>10, <2>w, <3>1, <3>2
  <2> QED
    BY <2>1, <2>2
<1>12. Additions(s)'
  <2>1. /\ dd'[s].kept \subseteq dd[s].ws
        /\ \A g \in dd'[s].kept : Live(g)
    BY <1>2 DEF Additions, MergeRefused
  <2>2. ASSUME NEW v \in FactIds, NEW r \in Sources,
               <<v, r>> \in dd'[s].linkAdd
        PROVE  /\ v \in dd'[s].kept
               /\ \E d \in dd'[s].mark : r \in SourcesOf(d)
    <3>1. CASE <<v, r>> \in dd[s].linkAdd
      BY <1>2, <3>1 DEF Additions
    <3>2. CASE <<v, r>> \in NewLinks(s, l, w)
      <4>1. v = w /\ Pins(s, l, w)
        BY <1>4, <3>2 DEF Pins
      <4>2. Live(l) /\ r \in TxSources(s, l)
        BY <3>2 DEF NewLinks, LoserSources
      <4>3. r \in SourcesOf(l) \/ <<l, r>> \in dd[s].linkAdd
        BY <4>2 DEF TxSources, SourcesOf
      <4>4. l \in FactIds
        BY <1>1 DEF DdType
      <4>5. \E d \in dd'[s].mark : r \in SourcesOf(d)
        BY <1>2, <1>m, <4>2, <4>3, <4>4 DEF Additions
      <4> QED
        BY <1>2, <4>1, <4>5
    <3> QED
      BY <1>2, <2>2, <3>1, <3>2
  <2>3. \A g \in FactIds : SourcesOf(g)' = SourcesOf(g) /\ Live(g)' = Live(g)
    BY DEF SourcesOf, Live
  <2>4. dd'[s].kept \subseteq FactIds /\ dd'[s].mark \subseteq FactIds
    BY <1>1, <1>2, <1>5, <2>1 DEF DdType
  <2> QED
    BY <1>2, <2>1, <2>2, <2>3, <2>4 DEF Additions
<1> QED
  BY <1>6, <1>7, <1>11, <1>12

LEMMA MergeInv ==
  ASSUME DedupInv, TypeOK', NEW s \in Sources, CompareMerges(s)
  PROVE  DedupInv'
<1>1. PICK f \in dd[s].todo : \E h \in Nearest(f) :
        /\ h \in dd[s].ws \ dd[s].mark
        /\ ~MergeRefused(s, Loser(s, f, h), Winner(s, f, h))
        /\ dd' = [dd EXCEPT ![s] = Merged(s, f, Loser(s, f, h), Winner(s, f, h))]
  BY DEF CompareMerges
<1>2. PICK h \in Nearest(f) :
        /\ h \in dd[s].ws \ dd[s].mark
        /\ ~MergeRefused(s, Loser(s, f, h), Winner(s, f, h))
        /\ dd' = [dd EXCEPT ![s] = Merged(s, f, Loser(s, f, h), Winner(s, f, h))]
  BY <1>1
<1>3. UNCHANGED <<status, links, cl>> /\ dd[s].pc = "scan"
  BY DEF CompareMerges
<1>4. WorkingSet(s) /\ Writes(s) /\ Keepers(s) /\ Additions(s)
  BY <1>3 DEF DedupInv, TxInv
<1>5. h # f
  BY DEF Nearest, Neighbours
<1>6. f \in dd[s].ws /\ f \notin dd[s].mark \cup dd[s].stab
  BY <1>4 DEF Writes
<1> DEFINE l == Loser(s, f, h)
           w == Winner(s, f, h)
<1>7. /\ l \in dd[s].ws /\ w \in dd[s].ws /\ l # w
      /\ l \notin dd[s].mark \cup dd[s].stab /\ w \notin dd[s].mark
  BY <1>2, <1>5, <1>6 DEF Loser, Winner
<1>8. TypeOK
  BY DEF DedupInv
<1>9. dd' = [dd EXCEPT ![s] = Merged(s, f, l, w)] /\ ~MergeRefused(s, l, w)
  BY <1>2
<1> HIDE DEF l, w
<1>10. WorkingSet(s)' /\ Writes(s)' /\ Keepers(s)' /\ Additions(s)'
  BY <1>3, <1>4, <1>7, <1>8, <1>9, MergeKeeps
<1>11. /\ \A t \in Sources : t # s => dd'[t] = dd[t]
       /\ dd'[s].pc = dd[s].pc
  BY <1>8, <1>9 DEF TypeOK, Merged, DdType
<1>12. TxInv(s)'
  BY <1>3, <1>10, <1>11 DEF TxInv, Promotes
<1> QED
  BY <1>3, <1>11, <1>12, TxStep

LEMMA CommitInv ==
  ASSUME DedupInv, TypeOK', NEW s \in Sources, DedupCommit(s)
  PROVE  DedupInv'
<1>1. /\ status' = [f \in FactIds |->
                      IF f \in dd[s].mark THEN "to_delete"
                      ELSE IF f \in dd[s].promote THEN "stable" ELSE status[f]]
      /\ links' = links \cup dd[s].linkAdd
      /\ dd' = [dd EXCEPT ![s] = IdleDd]
      /\ cl' = cl /\ dd[s].pc = "promoted"
  BY DEF DedupCommit
<1>2. dd[s] \in DdType /\ dd \in [Sources -> DdType] /\ TypeOK
  BY DEF DedupInv, TypeOK
<1>3. WorkingSet(s) /\ Writes(s) /\ Keepers(s) /\ Promotes(s)
  BY <1>1 DEF DedupInv, TxInv
<1>ws. /\ dd[s].ws \subseteq FactIds /\ dd[s].mark \subseteq FactIds
       /\ dd[s].promote \subseteq FactIds
  BY <1>2 DEF DdType
<1>4. \A t \in Sources : dd'[t].pc = "idle"
  BY <1>1, <1>2 DEF DedupInv, OneTx, IdleDd
<1>5. \A f \in FactIds :
        /\ status[f] # "new" => status'[f] = status[f]
        /\ f \in dd[s].mark => status'[f] = "to_delete"
        /\ f \notin dd[s].mark => status'[f] \in {status[f], "stable"}
  BY <1>1, <1>3 DEF Writes
<1>6. \A f \in FactIds : SourcesOf(f)' = TxSources(s, f)
  BY <1>1 DEF SourcesOf, TxSources
<1>7. \A f \in FactIds : f \notin dd[s].ws => SourcesOf(f)' = SourcesOf(f)
  BY <1>1, <1>3 DEF SourcesOf, Writes
<1>8. \A f \in FactIds : SourcesOf(f) \subseteq SourcesOf(f)'
  BY <1>1 DEF SourcesOf
<1>9. FreshUnlinked'
  <2> SUFFICES ASSUME NEW f \in FactIds, status'[f] = "none"
               PROVE  SourcesOf(f)' = {}
    BY DEF FreshUnlinked
  <2>1. status[f] = "none"
    BY <1>5
  <2>2. f \notin dd[s].ws
    BY <1>3, <2>1 DEF WorkingSet
  <2> QED
    BY <1>7, <2>1, <2>2 DEF DedupInv, FreshUnlinked
<1>10. OneTx' /\ \A t \in Sources : TxInv(t)'
  BY <1>4 DEF OneTx, TxInv
<1>11. CleanupOnlyDuplicates'
  <2>1. \A t \in Sources : cl[t].facts \subseteq FactIds
    BY <1>2 DEF TypeOK, ClType
  <2> QED
    BY <1>1, <1>5, <2>1 DEF DedupInv, CleanupOnlyDuplicates
<1>12. ProvenancePreserved'
  <2> SUFFICES ASSUME NEW f \in FactIds, status'[f] \in {"to_delete", "cleaned"}
               PROVE  \E w \in FactIds : /\ status'[w] \in {"stable", "reaped"}
                                         /\ SourcesOf(f)' \subseteq SourcesOf(w)'
    BY DEF ProvenancePreserved
  <2>1. CASE f \in dd[s].mark
    <3>1. PICK w \in dd[s].ws \ dd[s].mark :
            TxSources(s, f) \subseteq TxSources(s, w)
      BY <1>3, <2>1 DEF Keepers
    <3>2. status'[w] \in {"stable", "reaped"}
      <4>1. CASE w \in dd[s].stab
        BY <1>3, <1>5, <1>ws, <3>1, <4>1 DEF WorkingSet
      <4>2. CASE w \notin dd[s].stab /\ status[w] = "new"
        <5>1. w \in dd[s].promote
          BY <1>1, <1>3, <3>1, <4>2 DEF Promotes
        <5> QED
          BY <1>1, <1>ws, <3>1, <5>1
      <4>3. CASE w \notin dd[s].stab /\ status[w] # "new"
        BY <1>3, <1>5, <1>ws, <3>1, <4>3 DEF WorkingSet
      <4> QED
        BY <4>1, <4>2, <4>3
    <3> QED
      BY <1>6, <1>ws, <3>1, <3>2
  <2>2. CASE f \notin dd[s].mark
    <3>1. status[f] \in {"to_delete", "cleaned"}
      BY <1>5, <2>2
    <3>2. PICK w \in FactIds : /\ status[w] \in {"stable", "reaped"}
                               /\ SourcesOf(f) \subseteq SourcesOf(w)
      BY <3>1 DEF DedupInv, ProvenancePreserved
    <3>3. f \notin dd[s].ws
      BY <1>3, <3>1 DEF WorkingSet
    <3> QED
      BY <1>5, <1>7, <1>8, <3>2, <3>3
  <2> QED
    BY <2>1, <2>2
<1> QED
  BY <1>9, <1>10, <1>11, <1>12 DEF DedupInv

(* What cleanup_facts and fact_catchup do to a row no transaction has      *)
(* written: an open transaction does not notice, and a duplicate keeps its *)
(* keeper.                                                                 *)
LEMMA RemoveInv ==
  ASSUME DedupInv, TypeOK', UNCHANGED <<links, dd>>,
         \A f \in FactIds : /\ status[f] \in {"new", "stable"} =>
                                 status'[f] \in {status[f], "reaped"}
                            /\ status[f] = "to_delete" =>
                                 status'[f] \in {"to_delete", "cleaned", "reaped"}
                            /\ ~Live(f) => status'[f] = status[f]
                            /\ f \in Locked => status'[f] = status[f],
         CleanupOnlyDuplicates'
  PROVE  DedupInv'
<1>1. TypeOK
  BY DEF DedupInv
<1>2. \A f \in FactIds : SourcesOf(f)' = SourcesOf(f)
  BY DEF SourcesOf
<1>3. \A f \in FactIds :
        /\ status'[f] = "none" => status[f] = "none"
        /\ status'[f] \in {"to_delete", "cleaned"} =>
             status[f] \in {"to_delete", "cleaned"}
        /\ status[f] \in {"stable", "reaped"} =>
             status'[f] \in {"stable", "reaped"}
        /\ status'[f] = "new" => status[f] = "new"
  BY <1>1 DEF TypeOK, Live
<1>4. FreshUnlinked'
  BY <1>2, <1>3 DEF DedupInv, FreshUnlinked
<1>5. OneTx'
  BY DEF DedupInv, OneTx
<1>6. ASSUME NEW s \in Sources, dd[s].pc # "idle"
      PROVE  TxInv(s)'
  <2>1. /\ WorkingSet(s) /\ Writes(s) /\ Keepers(s)
        /\ Additions(s) /\ Promotes(s)
    BY <1>6 DEF DedupInv, TxInv
  <2>2. /\ dd[s].ws \subseteq FactIds /\ dd[s].mark \subseteq FactIds
        /\ dd[s].promote \subseteq FactIds /\ dd[s].stab \subseteq FactIds
    BY <1>1 DEF TypeOK, DdType
  <2>3. WorkingSet(s)'
    <3>1. \A f \in dd[s].ws : Linked(f)'
      BY <1>2, <2>1, <2>2 DEF WorkingSet, Linked
    <3>2. \A f \in dd[s].stab : status'[f] \in {"stable", "reaped"}
      BY <1>3, <2>1, <2>2 DEF WorkingSet
    <3>3. \A f \in dd[s].ws \ dd[s].stab : status'[f] \in {"new", "reaped"}
      <4> SUFFICES ASSUME NEW f \in dd[s].ws \ dd[s].stab
                   PROVE  status'[f] \in {"new", "reaped"}
        OBVIOUS
      <4>1. f \in FactIds /\ status[f] \in {"new", "reaped"}
        BY <2>1, <2>2 DEF WorkingSet
      <4> QED
        BY <4>1 DEF Live
    <3> QED
      BY <2>1, <3>1, <3>2, <3>3 DEF WorkingSet
  <2>4. Writes(s)'
    <3>1. dd[s].mark \cup dd[s].promote \subseteq Locked
      BY DEF Locked, LockedBy
    <3>2. \A f \in dd[s].mark \cup dd[s].promote : status'[f] = "new"
      BY <2>1, <2>2, <3>1 DEF Writes
    <3> QED
      BY <2>1, <3>2 DEF Writes
  <2>5. Keepers(s)'
    BY <2>1 DEF Keepers, TxSources
  <2>6. Promotes(s)'
    BY <1>3, <2>1, <2>2 DEF Promotes
  <2>7. Additions(s)'
    <3>1. dd[s].kept \subseteq Locked
      BY DEF Locked, LockedBy
    <3>2. \A f \in dd[s].kept : Live(f)'
      BY <2>1, <2>2, <3>1 DEF Additions, Live
    <3> QED
      BY <1>2, <2>1, <2>2, <3>2 DEF Additions
  <2> QED
    BY <2>3, <2>4, <2>5, <2>6, <2>7 DEF TxInv
<1>7. \A s \in Sources : TxInv(s)'
  BY <1>6 DEF TxInv
<1>8. ProvenancePreserved'
  BY <1>2, <1>3 DEF DedupInv, ProvenancePreserved
<1> QED
  BY <1>4, <1>5, <1>7, <1>8 DEF DedupInv

LEMMA CleanupInv ==
  ASSUME DedupInv, TypeOK', NEW s \in Sources, Cleanup(s) \/ CleanupDies(s)
  PROVE  DedupInv'
<1>1. TypeOK /\ cl \in [Sources -> ClType]
  BY DEF DedupInv, TypeOK
<1>2. CASE CleanupStart(s)
  <2> DEFINE ids == {f \in FactIds : status[f] = "to_delete" /\ <<f, s>> \in links}
  <2>1. /\ cl' = [cl EXCEPT ![s] = IF ids = {} THEN IdleCl
                                   ELSE [pc |-> "rows", facts |-> ids]]
        /\ UNCHANGED <<status, links, dd>>
    BY <1>2 DEF CleanupStart
  <2>2. cl'[s].facts = ids /\ \A t \in Sources : t # s => cl'[t] = cl[t]
    BY <1>1, <2>1 DEF IdleCl
  <2>3. CleanupOnlyDuplicates'
    BY <2>1, <2>2 DEF DedupInv, CleanupOnlyDuplicates
  <2> QED
    BY <2>1, <2>3, RemoveInv DEF Live
<1>3. CASE CleanupFinish(s)
  <2>1. PICK gone \in SUBSET cl[s].facts :
          /\ gone \cap Locked = {}
          /\ status' = [f \in FactIds |-> IF f \in gone /\ Live(f)
                                            THEN "cleaned" ELSE status[f]]
    BY <1>3 DEF CleanupFinish
  <2>2. UNCHANGED <<links, dd>> /\ cl' = [cl EXCEPT ![s] = IdleCl]
    BY <1>3 DEF CleanupFinish
  <2>3. \A f \in gone : status[f] \in {"to_delete", "cleaned", "reaped"}
    BY DEF DedupInv, CleanupOnlyDuplicates
  <2>4. \A f \in FactIds : status'[f] = status[f] \/
                           /\ f \in gone /\ Live(f) /\ f \notin Locked
                           /\ status[f] = "to_delete" /\ status'[f] = "cleaned"
    BY <2>1, <2>3 DEF Live
  <2>5. CleanupOnlyDuplicates'
    <3>1. \A t \in Sources : cl'[t].facts \subseteq cl[t].facts
      BY <1>1, <2>2 DEF IdleCl
    <3>2. \A t \in Sources : cl[t].facts \subseteq FactIds
      BY <1>1 DEF ClType
    <3> QED
      BY <2>4, <3>1, <3>2 DEF DedupInv, CleanupOnlyDuplicates
  <2> QED
    BY <2>2, <2>4, <2>5, RemoveInv
<1>4. CASE CleanupDies(s)
  <2>1. UNCHANGED <<status, links, dd>> /\ cl' = [cl EXCEPT ![s] = IdleCl]
    BY <1>4 DEF CleanupDies
  <2>2. CleanupOnlyDuplicates'
    BY <1>1, <2>1 DEF DedupInv, CleanupOnlyDuplicates, IdleCl
  <2> QED
    BY <2>1, <2>2, RemoveInv DEF Live
<1> QED
  BY <1>2, <1>3, <1>4 DEF Cleanup

LEMMA SweepInv ==
  ASSUME DedupInv, TypeOK', SweepDelete
  PROVE  DedupInv'
<1>1. /\ sweep.facts \cap Locked = {} /\ UNCHANGED <<links, dd, cl>>
      /\ status' = [f \in FactIds |-> IF f \in sweep.facts /\ Live(f)
                                        THEN "reaped" ELSE status[f]]
  BY DEF SweepDelete
<1>2. \A f \in FactIds : status'[f] = status[f] \/
                         /\ f \notin Locked /\ Live(f) /\ status'[f] = "reaped"
  BY <1>1
<1>3. CleanupOnlyDuplicates'
  <2>1. \A t \in Sources : cl[t].facts \subseteq FactIds
    BY DEF DedupInv, TypeOK, ClType
  <2> QED
    BY <1>1, <1>2, <2>1 DEF DedupInv, CleanupOnlyDuplicates
<1> QED
  BY <1>1, <1>2, <1>3, RemoveInv

LEMMA NextInv == DedupInv /\ [Next]_vars => DedupInv'
<1> SUFFICES ASSUME DedupInv, [Next]_vars
             PROVE  DedupInv'
  OBVIOUS
<1>t. TypeOK'
  BY NextType DEF DedupInv
<1>1. CASE UNCHANGED vars
  BY <1>1, <1>t, Frame DEF vars
<1>2. ASSUME NEW s \in Sources, Decompose(s) \/ DecomposeDies(s)
      PROVE  DedupInv'
  <2>1. CASE PersistFact(s)
    BY <1>t, <2>1, PersistInv
  <2>2. CASE DecomposeStart(s) \/ CiteFact(s)
    BY <1>t, <2>2, Frame DEF DecomposeStart, CiteFact
  <2>3. CASE DecomposeFinish(s) \/ DecomposeDies(s)
    BY <1>t, <2>3, Frame DEF DecomposeFinish, DecomposeDies
  <2> QED
    BY <1>2, <2>1, <2>2, <2>3 DEF Decompose
<1>3. ASSUME NEW s \in Sources, Embed(s) \/ EmbedDies(s)
      PROVE  DedupInv'
  BY <1>t, <1>3, Frame
  DEF Embed, EmbedStart, EmbedUpsert, EmbedFinish, EmbedDies
<1>4. ASSUME NEW s \in Sources, Dedup(s) \/ DedupDies(s)
      PROVE  DedupInv'
  <2>1. CASE DedupRefused(s) \/ DedupDies(s)
    BY <1>t, <2>1, Rollback DEF DedupRefused, DedupDies
  <2> QED
    BY <1>4, <1>t, <2>1, StartInv, SkipInv, MergeInv, PromoteInv, CommitInv
    DEF Dedup
<1>5. ASSUME NEW s \in Sources, Cleanup(s) \/ CleanupDies(s)
      PROVE  DedupInv'
  BY <1>t, <1>5, CleanupInv
<1>6. CASE SweepDelete
  BY <1>t, <1>6, SweepInv
<1>7. CASE AgePasses \/ SweepSelect \/ SweepPoints \/ SweepDies
  BY <1>t, <1>7, Frame DEF AgePasses, SweepSelect, SweepPoints, SweepDies
<1> QED
  BY <1>1, <1>2, <1>3, <1>4, <1>5, <1>6, <1>7 DEF Next, Dies, Catchup

(* The deduplication never loses a source: whatever the interleaving of    *)
(* the jobs of all sources, the failures and the rollbacks, a fact given   *)
(* up as a duplicate has a keeper linked to all its sources.               *)
THEOREM ProvenanceTheorem == Spec => []ProvenancePreserved
<1>1. DedupInv => ProvenancePreserved
  BY DEF DedupInv
<1> QED
  BY <1>1, InitInv, NextInv, PTL DEF Spec

(* A stable fact is never marked as a duplicate nor cleaned: the marks of  *)
(* a transaction are on rows that are new, and cleanup_facts holds only    *)
(* duplicates, however old its list is.                                    *)
THEOREM StableTheorem == Spec => StableIsFinal
<1>1. ASSUME DedupInv, [Next]_vars
      PROVE  [\A f \in FactIds : status[f] = "stable"
                => status'[f] \in {"stable", "reaped"}]_vars
  <2> SUFFICES ASSUME Next, NEW f \in FactIds, status[f] = "stable"
               PROVE  status'[f] \in {"stable", "reaped"}
    BY <1>1
  <2>t. TypeOK
    BY <1>1 DEF DedupInv
  <2>1. CASE UNCHANGED status
    BY <2>1
  <2>2. ASSUME NEW s \in Sources, PersistFact(s)
        PROVE  status'[f] = "stable"
    BY <2>2, <2>t DEF PersistFact, TypeOK
  <2>3. ASSUME NEW s \in Sources, DedupCommit(s)
        PROVE  status'[f] = "stable"
    <3>1. Writes(s)
      BY <1>1, <2>3 DEF DedupInv, TxInv, DedupCommit
    <3>2. f \notin dd[s].mark
      BY <3>1 DEF Writes
    <3> QED
      BY <2>3, <3>2 DEF DedupCommit
  <2>4. ASSUME NEW s \in Sources, CleanupFinish(s)
        PROVE  status'[f] = "stable"
    <3>1. f \notin cl[s].facts
      BY <1>1 DEF DedupInv, CleanupOnlyDuplicates
    <3> QED
      BY <2>4, <3>1 DEF CleanupFinish
  <2>5. CASE SweepDelete
    BY <2>5 DEF SweepDelete
  <2>6. ASSUME NEW s \in Sources, Decompose(s) \/ DecomposeDies(s),
               ~PersistFact(s)
        PROVE  UNCHANGED status
    BY <2>6 DEF Decompose, DecomposeStart, CiteFact, DecomposeFinish,
                DecomposeDies
  <2>7. ASSUME NEW s \in Sources, Embed(s) \/ EmbedDies(s)
        PROVE  UNCHANGED status
    BY <2>7 DEF Embed, EmbedStart, EmbedUpsert, EmbedFinish, EmbedDies
  <2>8. ASSUME NEW s \in Sources, Dedup(s) \/ DedupDies(s), ~DedupCommit(s)
        PROVE  UNCHANGED status
    BY <2>8 DEF Dedup, DedupStart, CompareSkips, CompareMerges, DedupPromote,
                DedupRefused, DedupDies
  <2>9. ASSUME NEW s \in Sources, Cleanup(s) \/ CleanupDies(s),
               ~CleanupFinish(s)
        PROVE  UNCHANGED status
    BY <2>9 DEF Cleanup, CleanupStart, CleanupDies
  <2>10. CASE AgePasses \/ SweepSelect \/ SweepPoints \/ SweepDies
    BY <2>1, <2>10 DEF AgePasses, SweepSelect, SweepPoints, SweepDies
  <2> QED
    BY <2>1, <2>2, <2>3, <2>4, <2>5, <2>6, <2>7, <2>8, <2>9, <2>10
    DEF Next, Dies, Catchup
<1> QED
  BY <1>1, InitInv, NextInv, PTL DEF Spec, StableIsFinal

-----------------------------------------------------------------------------
(* The pipeline implements FactLifecycle                                   *)

LEMMA PersistCreates ==
  ASSUME DedupInv, NEW s \in Sources, PersistFact(s)
  PROVE  \E f \in FactIds : Lifecycle!Create(f)
<1>1. PICK f \in FactIds :
        /\ status[f] = "none"
        /\ status' = [status EXCEPT ![f] = "new"]
        /\ links' = links \cup {<<f, s>>} \/ links' = links
  BY DEF PersistFact
<1> DEFINE src == [g \in FactIds |-> SourcesOf(g)]
<1>2. status' = [g \in FactIds |-> IF g \in {f} THEN "new" ELSE status[g]]
  BY <1>1 DEF DedupInv, TypeOK
<1>3. CASE links' = links
  <2>1. src' = src
    BY <1>3 DEF SourcesOf
  <2> QED
    BY <1>1, <1>2, <2>1 DEF Lifecycle!Create, Lifecycle!Become
<1>4. CASE links' = links \cup {<<f, s>>}
  <2>1. SourcesOf(f) = {}
    BY <1>1 DEF DedupInv, FreshUnlinked
  <2>2. SourcesOf(f)' = {s}
    BY <1>4, <2>1 DEF SourcesOf
  <2>3. \A g \in FactIds : g # f => SourcesOf(g)' = SourcesOf(g)
    BY <1>4 DEF SourcesOf
  <2>4. src' = [src EXCEPT ![f] = {s}]
    BY <2>2, <2>3
  <2> QED
    BY <1>1, <1>2, <2>4 DEF Lifecycle!Create, Lifecycle!Become
<1> QED
  BY <1>1, <1>3, <1>4

(* What the commit does to the sources of the facts.                       *)
LEMMA CommitSources ==
  ASSUME DedupInv, NEW s \in Sources, DedupCommit(s), NEW f \in FactIds
  PROVE  /\ SourcesOf(f) \subseteq SourcesOf(f)'
         /\ SourcesOf(f)' # SourcesOf(f) => status[f] \in {"new", "stable"}
         /\ \A r \in SourcesOf(f)' :
               r \in SourcesOf(f) \/ \E d \in dd[s].mark : r \in SourcesOf(d)
<1>1. WorkingSet(s) /\ Additions(s)
  BY DEF DedupInv, TxInv, DedupCommit
<1>2. links' = links \cup dd[s].linkAdd
  BY DEF DedupCommit
<1>3. ASSUME NEW r \in SourcesOf(f)', r \notin SourcesOf(f)
      PROVE  f \in dd[s].kept /\ \E d \in dd[s].mark : r \in SourcesOf(d)
  <2>1. r \in Sources /\ <<f, r>> \in dd[s].linkAdd
    BY <1>2, <1>3 DEF SourcesOf
  <2> QED
    BY <1>1, <2>1 DEF Additions
<1>4. f \in dd[s].kept => status[f] \in {"new", "stable"}
  BY <1>1 DEF Additions, WorkingSet, Live
<1>5. SourcesOf(f) \subseteq SourcesOf(f)'
  BY <1>2 DEF SourcesOf
<1> QED
  BY <1>3, <1>4, <1>5

LEMMA CommitDecides ==
  ASSUME DedupInv, DedupInv', NEW s \in Sources, DedupCommit(s)
  PROVE  Lifecycle!Decide
<1> DEFINE D == dd[s].mark
           P == dd[s].promote \ dd[s].mark
           src == [g \in FactIds |-> SourcesOf(g)]
<1>1. Writes(s)
  BY DEF DedupInv, TxInv, DedupCommit
<1>2. D \subseteq FactIds /\ P \subseteq FactIds
  BY DEF DedupInv, TypeOK, DdType
<1>3. D \in SUBSET Lifecycle!Those("new") /\ P \in SUBSET Lifecycle!Those("new")
  BY <1>1, <1>2 DEF Writes, Lifecycle!Those
<1>4. status' = [f \in FactIds |-> IF f \in D THEN "to_delete"
                                   ELSE IF f \in P THEN "stable"
                                   ELSE status[f]]
  BY DEF DedupCommit
<1>5. \A f \in FactIds :
        /\ src[f] \subseteq src'[f]
        /\ src'[f] # src[f] =>
              /\ status[f] \in {"new", "stable"}
              /\ src'[f] \subseteq src[f] \cup UNION {src[d] : d \in D}
  <2> SUFFICES ASSUME NEW f \in FactIds
               PROVE  /\ SourcesOf(f) \subseteq SourcesOf(f)'
                      /\ SourcesOf(f)' # SourcesOf(f) =>
                           status[f] \in {"new", "stable"}
                      /\ \A r \in SourcesOf(f)' :
                           r \in SourcesOf(f) \cup UNION {src[d] : d \in D}
    OBVIOUS
  <2>1. \A d \in D : src[d] = SourcesOf(d)
    BY <1>2
  <2>2. \A r \in SourcesOf(f)' :
          r \in SourcesOf(f) \/ \E d \in D : r \in SourcesOf(d)
    BY CommitSources
  <2>3. \A r \in SourcesOf(f)' :
          r \in SourcesOf(f) \cup UNION {src[d] : d \in D}
    BY <2>1, <2>2
  <2> QED
    BY <2>3, CommitSources
<1>6. \A d \in D : \E w \in FactIds : /\ status'[w] \in {"stable", "reaped"}
                                      /\ src'[d] \subseteq src'[w]
  <2> SUFFICES ASSUME NEW d \in D
               PROVE  \E w \in FactIds : /\ status'[w] \in {"stable", "reaped"}
                                         /\ SourcesOf(d)' \subseteq SourcesOf(w)'
    BY <1>2
  <2>1. d \in FactIds /\ status'[d] = "to_delete"
    BY <1>2, <1>4
  <2> QED
    BY <2>1 DEF DedupInv, ProvenancePreserved
<1>7. D \cap P = {}
  OBVIOUS
<1>8. \E X, Y \in SUBSET Lifecycle!Those("new") :
        /\ X \cap Y = {}
        /\ status' = [f \in FactIds |-> IF f \in X THEN "to_delete"
                                        ELSE IF f \in Y THEN "stable"
                                        ELSE status[f]]
        /\ \A f \in FactIds :
              /\ src[f] \subseteq src'[f]
              /\ src'[f] # src[f] =>
                    /\ status[f] \in {"new", "stable"}
                    /\ src'[f] \subseteq src[f] \cup UNION {src[d] : d \in X}
        /\ \A d \in X : \E w \in FactIds :
              /\ status'[w] \in {"stable", "reaped"}
              /\ src'[d] \subseteq src'[w]
  <2> HIDE DEF src, D, P
  <2> USE <1>3
  <2> WITNESS D \in SUBSET Lifecycle!Those("new"),
              P \in SUBSET Lifecycle!Those("new")
  <2> QED
    BY <1>4, <1>5, <1>6, <1>7, Zenon
<1> QED
  BY <1>8, Zenon DEF Lifecycle!Decide

(* Whatever leaves status and links alone is invisible to FactLifecycle.   *)
LEMMA InvisibleStep ==
  ASSUME UNCHANGED <<status, links>>
  PROVE  UNCHANGED Lifecycle!lifecycle
<1>1. [f \in FactIds |-> SourcesOf(f)]' = [f \in FactIds |-> SourcesOf(f)]
  BY DEF SourcesOf
<1> QED
  BY <1>1 DEF Lifecycle!lifecycle

LEMMA RemovalSteps ==
  ASSUME DedupInv, (\E s \in Sources : CleanupFinish(s)) \/ SweepDelete
  PROVE  Lifecycle!Clean \/ Lifecycle!Reap
<1>1. links' = links
  BY DEF CleanupFinish, SweepDelete
<1>2. [f \in FactIds |-> SourcesOf(f)]' = [f \in FactIds |-> SourcesOf(f)]
  BY <1>1 DEF SourcesOf
<1>3. ASSUME NEW s \in Sources, CleanupFinish(s)
      PROVE  Lifecycle!Clean
  <2>1. PICK gone \in SUBSET cl[s].facts :
          status' = [f \in FactIds |-> IF f \in gone /\ Live(f)
                                         THEN "cleaned" ELSE status[f]]
    BY <1>3 DEF CleanupFinish
  <2> DEFINE D == {f \in FactIds : f \in gone /\ Live(f)}
  <2>2. \A f \in D : status[f] = "to_delete"
    BY DEF DedupInv, CleanupOnlyDuplicates, Live
  <2>3. D \in SUBSET Lifecycle!Those("to_delete")
    BY <2>2 DEF Lifecycle!Those
  <2>4. status' = [f \in FactIds |-> IF f \in D THEN "cleaned" ELSE status[f]]
    BY <2>1
  <2> QED
    BY <1>2, <2>3, <2>4 DEF Lifecycle!Clean, Lifecycle!Become
<1>4. CASE SweepDelete
  <2> DEFINE D == {f \in FactIds : f \in sweep.facts /\ Live(f)}
  <2>1. status' = [f \in FactIds |-> IF f \in D THEN "reaped" ELSE status[f]]
    BY <1>4 DEF SweepDelete
  <2>2. D \in SUBSET UNION {Lifecycle!Those(st) :
                             st \in {"new", "stable", "to_delete"}}
    BY DEF Live, Lifecycle!Those
  <2> QED
    BY <1>2, <2>1, <2>2 DEF Lifecycle!Reap, Lifecycle!Become
<1> QED
  BY <1>3, <1>4

(* Each step of the pipeline that another reader of Postgres can see is a  *)
(* step of the life cycle.                                                 *)
LEMMA StepRefines ==
  ASSUME DedupInv, DedupInv', [Next]_vars
  PROVE  [Lifecycle!Next]_(Lifecycle!lifecycle)
<1>1. CASE UNCHANGED <<status, links>>
  BY <1>1, InvisibleStep
<1>2. ASSUME NEW s \in Sources, PersistFact(s)
      PROVE  Lifecycle!Next
  BY <1>2, PersistCreates DEF Lifecycle!Next
<1>3. ASSUME NEW s \in Sources, DedupCommit(s)
      PROVE  Lifecycle!Next
  BY <1>3, CommitDecides DEF Lifecycle!Next
<1>4. ASSUME (\E s \in Sources : CleanupFinish(s)) \/ SweepDelete
      PROVE  Lifecycle!Next
  BY <1>4, RemovalSteps DEF Lifecycle!Next
<1>5. ASSUME NEW s \in Sources, ~PersistFact(s), Decompose(s) \/ DecomposeDies(s)
      PROVE  UNCHANGED <<status, links>>
  BY <1>5 DEF Decompose, DecomposeStart, CiteFact, DecomposeFinish,
              DecomposeDies
<1>6. ASSUME NEW s \in Sources, Embed(s) \/ EmbedDies(s)
      PROVE  UNCHANGED <<status, links>>
  BY <1>6 DEF Embed, EmbedStart, EmbedUpsert, EmbedFinish, EmbedDies
<1>7. ASSUME NEW s \in Sources, ~DedupCommit(s), Dedup(s) \/ DedupDies(s)
      PROVE  UNCHANGED <<status, links>>
  BY <1>7 DEF Dedup, DedupStart, CompareSkips, CompareMerges, DedupPromote,
              DedupRefused, DedupDies
<1>8. ASSUME NEW s \in Sources, ~CleanupFinish(s), Cleanup(s) \/ CleanupDies(s)
      PROVE  UNCHANGED <<status, links>>
  BY <1>8 DEF Cleanup, CleanupStart, CleanupDies
<1>9. CASE AgePasses \/ SweepSelect \/ SweepPoints \/ SweepDies
  BY <1>1, <1>9 DEF AgePasses, SweepSelect, SweepPoints, SweepDies
<1>10. CASE UNCHANGED vars
  BY <1>1, <1>10 DEF vars
<1> QED
  BY <1>1, <1>2, <1>3, <1>4, <1>5, <1>6, <1>7, <1>8, <1>9, <1>10
  DEF Next, Dies, Catchup

(* Refinement: as far as status and provenance in Postgres go, the jobs of *)
(* all the sources, their transactions, failures and retries, and the race *)
(* of fact_catchup, behave as the atomic decisions of FactLifecycle.       *)
THEOREM LifecycleTheorem == Spec => LifecycleSpec
<1>1. Init => Lifecycle!Init
  BY DEF Init, Lifecycle!Init, SourcesOf
<1> QED
  BY <1>1, InitInv, NextInv, StepRefines, PTL
  DEF Spec, LifecycleSpec, Lifecycle!Spec

-----------------------------------------------------------------------------
(* Vectors                                                                 *)

(* The rows that nobody has given up, those not made yet included: a row   *)
(* that leaves them never comes back.                                      *)
Kept(f) == status[f] \in {"none", "new", "stable"}

(* embedded_at is set after the upsert, and points are only removed under  *)
(* rows that are given up.                                                 *)
VectorInv ==
  /\ \A f \in embedded : Kept(f) => point[f] # "none"
  /\ \A s \in Sources : emb[s].pc = "upserted" =>
       \A f \in emb[s].facts : Kept(f) => point[f] # "none"
  /\ sweep.pc = "points" => \A f \in sweep.facts : ~Kept(f)

(* Rows are given up for good.                                             *)
LEMMA GivenUp ==
  ASSUME DedupInv, [Next]_vars, NEW f \in FactIds, Kept(f)'
  PROVE  Kept(f)
<1>t. TypeOK
  BY DEF DedupInv
<1>1. CASE UNCHANGED status
  BY <1>1 DEF Kept
<1>2. ASSUME NEW s \in Sources, PersistFact(s)
      PROVE  Kept(f)
  BY <1>2, <1>t DEF PersistFact, TypeOK, Kept
<1>3. ASSUME NEW s \in Sources, DedupCommit(s)
      PROVE  Kept(f)
  <2>1. Writes(s)
    BY <1>3 DEF DedupInv, TxInv, DedupCommit
  <2> QED
    BY <1>3, <2>1 DEF Writes, DedupCommit, Kept
<1>4. ASSUME NEW s \in Sources, CleanupFinish(s)
      PROVE  Kept(f)
  BY <1>4 DEF CleanupFinish, Kept
<1>5. CASE SweepDelete
  BY <1>5 DEF SweepDelete, Kept
<1>6. ASSUME NEW s \in Sources, Decompose(s) \/ DecomposeDies(s),
             ~PersistFact(s)
      PROVE  UNCHANGED status
  BY <1>6 DEF Decompose, DecomposeStart, CiteFact, DecomposeFinish,
              DecomposeDies
<1>7. ASSUME NEW s \in Sources, Embed(s) \/ EmbedDies(s)
      PROVE  UNCHANGED status
  BY <1>7 DEF Embed, EmbedStart, EmbedUpsert, EmbedFinish, EmbedDies
<1>8. ASSUME NEW s \in Sources, Dedup(s) \/ DedupDies(s), ~DedupCommit(s)
      PROVE  UNCHANGED status
  BY <1>8 DEF Dedup, DedupStart, CompareSkips, CompareMerges, DedupPromote,
              DedupRefused, DedupDies
<1>9. ASSUME NEW s \in Sources, Cleanup(s) \/ CleanupDies(s), ~CleanupFinish(s)
      PROVE  UNCHANGED status
  BY <1>9 DEF Cleanup, CleanupStart, CleanupDies
<1>10. CASE AgePasses \/ SweepSelect \/ SweepPoints \/ SweepDies
  BY <1>1, <1>10 DEF AgePasses, SweepSelect, SweepPoints, SweepDies
<1>11. CASE UNCHANGED vars
  BY <1>1, <1>11 DEF vars
<1> QED
  BY <1>1, <1>2, <1>3, <1>4, <1>5, <1>6, <1>7, <1>8, <1>9, <1>10, <1>11
  DEF Next, Dies, Catchup

(* What is left to show of a step: which points and marks it changes.      *)
LEMMA VectorStep ==
  ASSUME DedupInv, VectorInv, [Next]_vars, TypeOK',
         \A f \in FactIds : Kept(f) /\ point[f] # "none" => point'[f] # "none",
         \A f \in embedded' \ embedded : Kept(f) => point'[f] # "none",
         \A s \in Sources : emb'[s].pc = "upserted" =>
            \/ emb'[s] = emb[s]
            \/ \A f \in emb'[s].facts : point'[f] # "none",
         sweep' = sweep \/ (sweep'.pc = "points" =>
                              \A f \in sweep'.facts : ~Kept(f)')
  PROVE  VectorInv'
<1>1. \A f \in FactIds : Kept(f)' => Kept(f)
  BY GivenUp
<1>2. /\ embedded' \subseteq FactIds
      /\ \A s \in Sources : emb'[s].facts \subseteq FactIds
      /\ sweep'.facts \subseteq FactIds
  BY DEF TypeOK, EmbType
<1>3. ASSUME NEW f \in embedded', Kept(f)'
      PROVE  point'[f] # "none"
  BY <1>1, <1>2, <1>3 DEF VectorInv
<1>4. ASSUME NEW s \in Sources, emb'[s].pc = "upserted",
             NEW f \in emb'[s].facts, Kept(f)'
      PROVE  point'[f] # "none"
  BY <1>1, <1>2, <1>4 DEF VectorInv
<1>5. ASSUME sweep'.pc = "points", NEW f \in sweep'.facts
      PROVE  ~Kept(f)'
  BY <1>1, <1>2, <1>5 DEF VectorInv
<1> QED
  BY <1>3, <1>4, <1>5 DEF VectorInv

LEMMA VectorEmbed ==
  ASSUME DedupInv, VectorInv, [Next]_vars, TypeOK', NEW s \in Sources,
         Embed(s) \/ EmbedDies(s)
  PROVE  VectorInv'
<1>1. TypeOK /\ emb \in [Sources -> EmbType]
  BY DEF DedupInv, TypeOK
<1>2. CASE EmbedStart(s)
  <2>1. /\ UNCHANGED <<point, embedded, sweep>>
        /\ \A r \in Sources : \/ emb'[r] = emb[r] \/ emb'[r].pc = "listed"
    BY <1>1, <1>2 DEF EmbedStart
  <2> QED
    BY <2>1, VectorStep
<1>3. CASE EmbedUpsert(s)
  <2>1. /\ UNCHANGED <<embedded, sweep>>
        /\ \A r \in Sources : r # s => emb'[r] = emb[r]
        /\ emb'[s].facts = emb[s].facts
    BY <1>1, <1>3 DEF EmbedUpsert, EmbType
  <2>2. /\ \A f \in emb[s].facts : point'[f] = "new"
        /\ \A f \in FactIds : point[f] # "none" => point'[f] # "none"
    BY <1>1, <1>3 DEF EmbedUpsert, EmbType
  <2> QED
    BY <2>1, <2>2, VectorStep
<1>4. CASE EmbedFinish(s)
  <2>1. /\ UNCHANGED <<point, sweep>>
        /\ \A r \in Sources : emb'[r] = emb[r] \/ emb'[r].pc # "upserted"
        /\ embedded' \subseteq embedded \cup emb[s].facts
        /\ emb[s].pc = "upserted"
    BY <1>1, <1>4 DEF EmbedFinish, IdleEmb
  <2>2. \A f \in embedded' \ embedded : Kept(f) => point'[f] # "none"
    BY <2>1 DEF VectorInv
  <2> QED
    BY <2>1, <2>2, VectorStep
<1>5. CASE EmbedDies(s)
  <2>1. /\ UNCHANGED <<point, sweep, embedded>>
        /\ \A r \in Sources : emb'[r] = emb[r] \/ emb'[r].pc # "upserted"
    BY <1>1, <1>5 DEF EmbedDies, IdleEmb
  <2> QED
    BY <2>1, VectorStep
<1> QED
  BY <1>2, <1>3, <1>4, <1>5 DEF Embed

LEMMA VectorPoints ==
  ASSUME DedupInv, NEW f \in FactIds, Kept(f), point[f] # "none",
         NEW s \in Sources,
         Decompose(s) \/ Dedup(s) \/ Cleanup(s) \/ DecomposeDies(s)
           \/ DedupDies(s) \/ CleanupDies(s)
  PROVE  point'[f] # "none"
<1>t. TypeOK
  BY DEF DedupInv
<1>1. CASE Decompose(s) \/ DecomposeDies(s)
  BY <1>1 DEF Decompose, DecomposeStart, PersistFact, CiteFact,
              DecomposeFinish, DecomposeDies
<1>2. CASE CompareMerges(s)
  BY <1>2, <1>t DEF CompareMerges, TypeOK
<1>3. CASE DedupPromote(s)
  BY <1>3 DEF DedupPromote
<1>4. CASE DedupStart(s) \/ CompareSkips(s) \/ DedupCommit(s)
             \/ DedupRefused(s) \/ DedupDies(s)
  BY <1>4 DEF DedupStart, CompareSkips, DedupCommit, DedupRefused, DedupDies
<1>5. CASE CleanupStart(s)
  BY <1>5 DEF CleanupStart, Kept
<1>6. CASE CleanupFinish(s) \/ CleanupDies(s)
  BY <1>6 DEF CleanupFinish, CleanupDies
<1> QED
  BY <1>1, <1>2, <1>3, <1>4, <1>5, <1>6 DEF Dedup, Cleanup

LEMMA VectorCatchup ==
  ASSUME DedupInv, VectorInv, [Next]_vars, TypeOK',
         AgePasses \/ Catchup \/ SweepDies
  PROVE  VectorInv'
<1>1. CASE AgePasses
  BY <1>1, VectorStep DEF AgePasses
<1>2. CASE SweepSelect
  <2>1. UNCHANGED <<point, embedded, emb>> /\ sweep'.pc = "rows"
    BY <1>2 DEF SweepSelect
  <2> QED
    BY <2>1, VectorStep
<1>3. CASE SweepDelete
  <2>1. /\ UNCHANGED <<point, emb>> /\ embedded' \subseteq embedded
        /\ \A f \in sweep'.facts : ~Kept(f)'
    BY <1>3 DEF SweepDelete, Kept, DedupInv, TypeOK
  <2> QED
    BY <2>1, VectorStep
<1>4. CASE SweepPoints
  <2>1. /\ UNCHANGED <<embedded, emb>> /\ sweep'.pc = "idle"
        /\ sweep.pc = "points"
    BY <1>4 DEF SweepPoints, IdleSweep
  <2>2. \A f \in FactIds : Kept(f) => point'[f] = point[f]
    BY <1>4, <2>1 DEF SweepPoints, VectorInv
  <2> QED
    BY <2>1, <2>2, VectorStep
<1>5. CASE SweepDies
  <2>1. UNCHANGED <<point, embedded, emb>> /\ sweep'.pc = "idle"
    BY <1>5 DEF SweepDies, IdleSweep
  <2> QED
    BY <2>1, VectorStep
<1> QED
  BY <1>1, <1>2, <1>3, <1>4, <1>5 DEF Catchup

(* A fact whose embedded_at is set, and that is not given up, has its      *)
(* vector, whatever cleanup_facts, fact_catchup, the retries of            *)
(* embed_facts and any number of faults do.                                *)
THEOREM VectorTheorem == Spec => []EmbeddedHasVector
<1>1. Init => VectorInv
  BY DEF Init, VectorInv, IdleEmb, IdleSweep
<1>2. DedupInv /\ VectorInv /\ [Next]_vars => VectorInv'
  <2> SUFFICES ASSUME DedupInv, VectorInv, [Next]_vars
               PROVE  VectorInv'
    OBVIOUS
  <2>t. TypeOK'
    BY NextType DEF DedupInv
  <2>1. CASE UNCHANGED vars
    BY <2>1 DEF vars, VectorInv, Kept
  <2>2. ASSUME NEW s \in Sources, Embed(s) \/ EmbedDies(s)
        PROVE  VectorInv'
    BY <2>2, <2>t, VectorEmbed
  <2>3. ASSUME NEW s \in Sources,
               Decompose(s) \/ Dedup(s) \/ Cleanup(s) \/ DecomposeDies(s)
                 \/ DedupDies(s) \/ CleanupDies(s)
        PROVE  VectorInv'
    <3>1. UNCHANGED <<emb, sweep>> /\ embedded' \subseteq embedded
      <4>1. CASE Decompose(s) \/ DecomposeDies(s)
        BY <4>1 DEF Decompose, DecomposeStart, PersistFact, CiteFact,
                    DecomposeFinish, DecomposeDies
      <4>2. CASE Dedup(s) \/ DedupDies(s)
        BY <4>2 DEF Dedup, DedupStart, CompareSkips, CompareMerges,
                    DedupPromote, DedupCommit, DedupRefused, DedupDies
      <4>3. CASE Cleanup(s) \/ CleanupDies(s)
        BY <4>3 DEF Cleanup, CleanupStart, CleanupFinish, CleanupDies
      <4> QED
        BY <2>3, <4>1, <4>2, <4>3
    <3>2. \A f \in FactIds :
             Kept(f) /\ point[f] # "none" => point'[f] # "none"
      BY <2>3, VectorPoints
    <3> QED
      BY <2>t, <3>1, <3>2, VectorStep
  <2>4. CASE AgePasses \/ Catchup \/ SweepDies
    BY <2>4, <2>t, VectorCatchup
  <2> QED
    BY <2>1, <2>2, <2>3, <2>4 DEF Next, Dies
<1>3. VectorInv => EmbeddedHasVector
  BY DEF VectorInv, EmbeddedHasVector, Kept
<1> QED
  BY <1>1, <1>2, <1>3, InitInv, NextInv, PTL DEF Spec

-----------------------------------------------------------------------------
(* The pipeline while no call has failed                                   *)

Open(r) == dd[r].pc # "idle"

(* A source before the first point of its facts is written.                *)
Early(s) == \/ <<"decompose", s>> \in queued \/ dec[s].pc # "idle"
            \/ <<"embed", s>> \in queued \/ emb[s].pc = "listed"

(* One job of the first two kinds per source, and in their order: each is  *)
(* inserted once, by the one before it.                                    *)
Stages == \A s \in Sources :
  /\ <<"decompose", s>> \in queued =>
       dec[s].pc = "idle" /\ <<"embed", s>> \notin queued /\ emb[s].pc = "idle"
  /\ dec[s].pc # "idle" => <<"embed", s>> \notin queued /\ emb[s].pc = "idle"
  /\ <<"embed", s>> \in queued => emb[s].pc = "idle"

(* What the two jobs have in hand are facts of their source.               *)
Holdings == \A s \in Sources :
  /\ \A f \in dec[s].cite : dec[s].pc # "idle" /\ <<f, s>> \in links
  /\ \A f \in emb[s].facts : emb[s].pc # "idle" /\ <<f, s>> \in links

(* A fact without a vector is compared with none: it neither loses nor     *)
(* wins, and has the one source it was made for.                           *)
Bare(f, s) ==
  /\ point[f] = "none" /\ status[f] \in {"new", "stable", "reaped"}
  /\ SourcesOf(f) = {s}
  /\ \A r \in Sources : Open(r) =>
        f \notin dd[r].mark /\ \A x \in Sources : <<f, x>> \notin dd[r].linkAdd

AllBare(s) ==
  /\ \A f \in FactIds : <<f, s>> \in links => Bare(f, s)
  /\ \A r \in Sources, f \in FactIds : Open(r) => <<f, s>> \notin dd[r].linkAdd

Untouched == \A s \in Sources : Early(s) => AllBare(s)

Born == \A f \in FactIds : status[f] = "none" => point[f] = "none"

(* A citation leaves a fact in the transaction that marks it, for another  *)
(* one of the working set.                                                 *)
RefsMoved ==
  /\ CitationsOnKeepers
  /\ \A s \in Sources : Open(s) =>
       /\ \A r \in TxRefs(s) : r[1] \notin dd[s].mark
       /\ \A r \in dd[s].refAdd : r[1] \in dd[s].ws

(* A source whose deduplicate_facts job is still to come.                  *)
Before(s) == \/ dec[s].pc = "persist" /\ (dec[s].made \/ dec[s].cite # {})
             \/ <<"embed", s>> \in queued \/ emb[s].pc # "idle"
             \/ <<"dedup", s>> \in queued

(* Some source of a new fact has its pass before it, and some source of a  *)
(* duplicate its cleanup.                                                  *)
ToDecide(f, s) ==
  \/ Before(s) \/ dd[s].pc = "scan"
  \/ dd[s].pc = "promoted" /\ f \in dd[s].mark \cup dd[s].promote
ToRemove(f, s) ==
  \/ Before(s) \/ Open(s) \/ <<"cleanup", s>> \in queued
  \/ f \in cl[s].facts

OnTheWay == \A f \in FactIds :
  /\ status[f] = "new" => \E s \in SourcesOf(f) : ToDecide(f, s)
  /\ status[f] = "to_delete" => \E s \in SourcesOf(f) : ToRemove(f, s)

PointsGone ==
  /\ \A f \in FactIds : status[f] = "cleaned" => point[f] = "none"
  /\ \A s \in Sources : \A f \in cl[s].facts :
       cl[s].pc # "idle" /\ (point[f] = "none" \/ status[f] = "reaped")

CleanRun == /\ Stages /\ Holdings /\ Untouched /\ Born
            /\ RefsMoved /\ OnTheWay /\ PointsGone

LEMMA FaultFree ==
  ASSUME TypeOK, [Next]_vars, faults' = 0
  PROVE  faults = 0 /\ ~Fault
<1>1. faults \in Nat
  BY FaultsAssumption DEF TypeOK
<1>2. ~Fault
  BY <1>1 DEF Fault
<1>3. UNCHANGED faults \/ Fault
  <2>1. CASE UNCHANGED vars
    BY <2>1 DEF vars
  <2>2. ASSUME NEW s \in Sources, Decompose(s) \/ DecomposeDies(s)
        PROVE  UNCHANGED faults \/ Fault
    BY <2>2 DEF Decompose, DecomposeStart, PersistFact, CiteFact,
         DecomposeFinish, DecomposeDies, NoFault, CompleteAndChain,
         RetryOrDiscard
  <2>3. ASSUME NEW s \in Sources, Embed(s) \/ EmbedDies(s)
        PROVE  UNCHANGED faults \/ Fault
    BY <2>3 DEF Embed, EmbedStart, EmbedUpsert, EmbedFinish, EmbedDies,
         NoFault, CompleteAndChain, RetryOrDiscard
  <2>4. ASSUME NEW s \in Sources, Dedup(s) \/ DedupDies(s)
        PROVE  UNCHANGED faults \/ Fault
    BY <2>4 DEF Dedup, DedupStart, CompareSkips, CompareMerges, DedupPromote,
         DedupCommit, DedupRefused, DedupDies, NoFault, CompleteAndChain,
         RetryOrDiscard
  <2>5. ASSUME NEW s \in Sources, Cleanup(s) \/ CleanupDies(s)
        PROVE  UNCHANGED faults \/ Fault
    BY <2>5 DEF Cleanup, CleanupStart, CleanupFinish, CleanupDies, NoFault,
         RetryOrDiscard
  <2>6. CASE AgePasses \/ Catchup \/ SweepDies
    BY <2>6 DEF AgePasses, Catchup, SweepSelect, SweepDelete, SweepPoints,
         SweepDies, NoFault
  <2> QED
    BY <2>1, <2>2, <2>3, <2>4, <2>5, <2>6 DEF Next, Dies
<1> QED
  BY <1>2, <1>3

(* The steps of source_decomposition, when no call fails.                  *)
LEMMA DecSteps ==
  ASSUME TypeOK, NEW s \in Sources, Decompose(s), ~Fault
  PROVE  /\ UNCHANGED <<embedded, point, aged, emb, dd, cl, sweep>>
         /\ \A r \in Sources : r # s => dec'[r] = dec[r]
         /\ \/ /\ <<"decompose", s>> \in queued
               /\ queued' = queued \ {<<"decompose", s>>}
               /\ dec[s].pc = "idle" /\ dec'[s].pc = "persist"
               /\ dec'[s].cite = {} /\ ~dec'[s].made
               /\ UNCHANGED <<status, links, refs>>
            \/ /\ dec[s].pc = "persist" /\ dec'[s].pc = "persist"
               /\ UNCHANGED <<queued, refs>>
               /\ \E f \in FactIds :
                    /\ dec'[s].cite = {f}
                    /\ status[f] = "none" /\ status' = [status EXCEPT ![f] = "new"]
                    /\ links' = links \cup {<<f, s>>}
            \/ /\ dec[s].cite # {} /\ dec'[s].cite = {} /\ dec'[s].made
               /\ dec'[s].pc = dec[s].pc
               /\ refs' = refs \cup {<<f, s, TextOf[f]>> :
                                       f \in {g \in dec[s].cite : Live(g)}}
               /\ UNCHANGED <<status, links, queued>>
            \/ /\ dec[s].pc = "persist" /\ dec[s].cite = {}
               /\ dec'[s] = IdleDec /\ UNCHANGED <<status, links, refs>>
               /\ queued' = IF dec[s].made THEN queued \cup {<<"embed", s>>}
                                           ELSE queued
<1>1. dec \in [Sources -> DecType] /\ dec[s] \in DecType
  BY DEF TypeOK
<1>2. CASE DecomposeStart(s)
  BY <1>1, <1>2 DEF DecomposeStart, Take
<1>3. CASE PersistFact(s)
  <2>1. PICK t \in dec[s].todo, f \in FactIds :
          /\ status[f] = "none" /\ status' = [status EXCEPT ![f] = "new"]
          /\ links' = links \cup {<<f, s>>}
          /\ dec' = [dec EXCEPT ![s].todo = @ \ {t}, ![s].cite = {f}]
    BY <1>3 DEF PersistFact
  <2> DEFINE a == [dec[s] EXCEPT !.todo = @ \ {t}]
             b == [a EXCEPT !.cite = {f}]
  <2>2. a \in DecType /\ a.pc = dec[s].pc
    BY <1>1 DEF DecType
  <2>3. dec' = [dec EXCEPT ![s] = b]
    BY <1>1, <2>1
  <2> HIDE DEF a
  <2>4. b.pc = dec[s].pc /\ b.cite = {f}
    BY <2>2 DEF DecType
  <2> HIDE DEF b
  <2>5. dec'[s] = b /\ \A r \in Sources : r # s => dec'[r] = dec[r]
    BY <1>1, <2>3
  <2> QED
    BY <1>3, <2>1, <2>4, <2>5 DEF PersistFact
<1>4. CASE CiteFact(s)
  <2> DEFINE a == [dec[s] EXCEPT !.cite = {}]
             b == [a EXCEPT !.made = TRUE]
  <2>2. a \in DecType /\ a.pc = dec[s].pc /\ a.cite = {}
    BY <1>1 DEF DecType
  <2>3. dec' = [dec EXCEPT ![s] = b]
    BY <1>1, <1>4 DEF CiteFact
  <2> HIDE DEF a
  <2>4. b.pc = dec[s].pc /\ b.cite = {} /\ b.made
    BY <2>2 DEF DecType
  <2> HIDE DEF b
  <2>5. dec'[s] = b /\ \A r \in Sources : r # s => dec'[r] = dec[r]
    BY <1>1, <2>3
  <2> QED
    BY <1>4, <2>4, <2>5 DEF CiteFact
<1>5. CASE DecomposeFinish(s)
  BY <1>1, <1>5 DEF DecomposeFinish, CompleteAndChain, RetryOrDiscard
<1> QED
  BY <1>2, <1>3, <1>4, <1>5 DEF Decompose

(* ... those of embed_facts,                                               *)
LEMMA EmbSteps ==
  ASSUME TypeOK, NEW s \in Sources, Embed(s), ~Fault
  PROVE  /\ UNCHANGED <<status, links, refs, aged, dec, dd, cl, sweep>>
         /\ \A r \in Sources : r # s => emb'[r] = emb[r]
         /\ \/ /\ emb[s].pc = "idle" /\ <<"embed", s>> \in queued
               /\ emb' = emb /\ point' = point
               /\ queued' = (queued \ {<<"embed", s>>}) \cup {<<"dedup", s>>}
            \/ /\ emb[s].pc = "idle" /\ <<"embed", s>> \in queued
               /\ queued' = queued \ {<<"embed", s>>} /\ point' = point
               /\ emb'[s].pc = "listed" /\ emb'[s].facts = ToEmbed(s)
            \/ /\ emb[s].pc = "listed" /\ queued' = queued
               /\ emb'[s].pc = "upserted" /\ emb'[s].facts = emb[s].facts
               /\ point' = [f \in FactIds |-> IF f \in emb[s].facts
                                                THEN "new" ELSE point[f]]
            \/ /\ emb[s].pc = "upserted" /\ emb'[s] = IdleEmb /\ point' = point
               /\ queued' = queued \cup {<<"dedup", s>>}
<1>1. emb \in [Sources -> EmbType] /\ emb[s] \in EmbType
  BY DEF TypeOK
<1>2. CASE EmbedStart(s)
  BY <1>1, <1>2 DEF EmbedStart, NoFault
<1>3. CASE EmbedUpsert(s)
  BY <1>1, <1>3 DEF EmbedUpsert, EmbType
<1>4. CASE EmbedFinish(s)
  BY <1>1, <1>4 DEF EmbedFinish, CompleteAndChain
<1> QED
  BY <1>2, <1>3, <1>4 DEF Embed

(* ... those of deduplicate_facts, but for the merges,                     *)
LEMMA DedupSteps ==
  ASSUME TypeOK, NEW s \in Sources, Dedup(s), ~CompareMerges(s), ~Fault
  PROVE  /\ UNCHANGED <<embedded, aged, dec, emb, cl, sweep>>
         /\ \A r \in Sources : r # s => dd'[r] = dd[r]
         /\ \A f \in FactIds : point[f] = "none" => point'[f] = "none"
         /\ \/ /\ LockFree /\ UNCHANGED <<status, links, refs>>
               /\ queued' = queued \ {<<"dedup", s>>}
               /\ dd'[s].pc = "scan" /\ dd'[s].mark = {} /\ dd'[s].linkAdd = {}
               /\ dd'[s].refDel = {} /\ dd'[s].refAdd = {}
            \/ /\ dd[s].pc = "scan" /\ dd'[s].pc \in {"scan", "promoted"}
               /\ UNCHANGED <<status, links, refs, queued>>
               /\ dd'[s].mark = dd[s].mark /\ dd'[s].linkAdd = dd[s].linkAdd
               /\ dd'[s].refDel = dd[s].refDel /\ dd'[s].refAdd = dd[s].refAdd
               /\ dd'[s].ws = dd[s].ws
               /\ dd'[s].pc = "promoted" =>
                    dd'[s].promote = {f \in FactIds \ dd[s].mark :
                                        status[f] = "new" /\ Linked(f)}
            \/ /\ dd[s].pc = "promoted" /\ dd'[s] = IdleDd
               /\ queued' = queued \cup {<<"cleanup", s>>}
               /\ status' = [f \in FactIds |->
                     IF f \in dd[s].mark THEN "to_delete"
                     ELSE IF f \in dd[s].promote THEN "stable" ELSE status[f]]
               /\ links' = links \cup dd[s].linkAdd /\ refs' = TxRefs(s)
            \/ /\ dd[s].pc = "scan" /\ dd'[s] = IdleDd
               /\ queued' = queued \cup {<<"dedup", s>>}
               /\ UNCHANGED <<status, links, refs>>
<1>1. dd \in [Sources -> DdType] /\ dd[s] \in DdType
  BY DEF TypeOK
<1>2. CASE DedupStart(s)
  <2> DEFINE W == {f \in FactIds : status[f] \in {"new", "stable"} /\ Linked(f)}
             A == [IdleDd EXCEPT !.pc = "scan", !.ws = W,
                     !.stab = {f \in W : status[f] = "stable"},
                     !.todo = {f \in W : status[f] = "new"}]
  <2>1. dd' = [dd EXCEPT ![s] = A]
    BY <1>2 DEF DedupStart
  <2>2. /\ A.pc = "scan" /\ A.mark = {} /\ A.linkAdd = {}
        /\ A.refDel = {} /\ A.refAdd = {}
    BY DEF IdleDd
  <2> HIDE DEF A
  <2>3. dd'[s] = A /\ \A r \in Sources : r # s => dd'[r] = dd[r]
    BY <1>1, <2>1
  <2> QED
    BY <1>2, <2>2, <2>3 DEF DedupStart, Take
<1>3. CASE CompareSkips(s)
  <2>1. PICK f \in dd[s].todo : dd' = [dd EXCEPT ![s].todo = @ \ {f}]
    BY <1>3 DEF CompareSkips
  <2>2. /\ dd'[s].pc = dd[s].pc /\ dd'[s].mark = dd[s].mark
        /\ dd'[s].linkAdd = dd[s].linkAdd /\ dd'[s].refDel = dd[s].refDel
        /\ dd'[s].refAdd = dd[s].refAdd /\ dd'[s].ws = dd[s].ws
        /\ \A r \in Sources : r # s => dd'[r] = dd[r]
    BY <1>1, <2>1 DEF DdType
  <2> QED
    BY <1>3, <2>2 DEF CompareSkips
<1>4. CASE DedupPromote(s)
  <2> DEFINE P == {f \in FactIds \ dd[s].mark : status[f] = "new" /\ Linked(f)}
             A == [dd[s] EXCEPT !.pc = "promoted"]
             B == [A EXCEPT !.promote = P]
  <2>1. dd' = [dd EXCEPT ![s] = B]
    BY <1>1, <1>4 DEF DedupPromote
  <2>2. /\ A \in DdType /\ A.pc = "promoted" /\ A.mark = dd[s].mark
        /\ A.linkAdd = dd[s].linkAdd /\ A.refDel = dd[s].refDel
        /\ A.refAdd = dd[s].refAdd /\ A.ws = dd[s].ws
    BY <1>1 DEF DdType
  <2> HIDE DEF A
  <2>3. /\ B.pc = "promoted" /\ B.mark = dd[s].mark
        /\ B.linkAdd = dd[s].linkAdd /\ B.refDel = dd[s].refDel
        /\ B.refAdd = dd[s].refAdd /\ B.ws = dd[s].ws /\ B.promote = P
    BY <2>2 DEF DdType
  <2> HIDE DEF B
  <2>4. dd'[s] = B /\ \A r \in Sources : r # s => dd'[r] = dd[r]
    BY <1>1, <2>1
  <2>5. \A f \in FactIds : point[f] = "none" => point'[f] = "none"
    BY <1>4 DEF DedupPromote
  <2> QED
    BY <1>4, <2>3, <2>4, <2>5 DEF DedupPromote
<1>5. CASE DedupCommit(s)
  BY <1>1, <1>5 DEF DedupCommit, CompleteAndChain
<1>6. CASE DedupRefused(s)
  BY <1>1, <1>6 DEF DedupRefused
<1> QED
  BY <1>2, <1>3, <1>4, <1>5, <1>6 DEF Dedup

(* ... a merge, whose two facts both have a vector,                        *)
LEMMA MergeSteps ==
  ASSUME DedupInv, NEW s \in Sources, CompareMerges(s)
  PROVE  /\ UNCHANGED <<status, links, refs, embedded, aged, dec, emb, cl,
                        sweep, queued>>
         /\ \A r \in Sources : r # s => dd'[r] = dd[r]
         /\ \A f \in FactIds : point[f] = "none" => point'[f] = "none"
         /\ dd[s].pc = "scan" /\ dd'[s].pc = "scan" /\ dd'[s].ws = dd[s].ws
         /\ \E l, w \in dd[s].ws :
              /\ point[l] # "none" /\ point[w] # "none" /\ l # w
              /\ w \notin dd[s].mark
              /\ dd'[s].mark = IF Live(l) THEN dd[s].mark \cup {l} ELSE dd[s].mark
              /\ dd'[s].linkAdd = dd[s].linkAdd \cup NewLinks(s, l, w)
              /\ dd'[s].refDel = dd[s].refDel \cup LoserRefs(s, l)
              /\ dd'[s].refAdd = (dd[s].refAdd \ LoserRefs(s, l))
                                    \cup MovedRefs(s, l, w)
<1>1. dd \in [Sources -> DdType] /\ dd[s] \in DdType /\ TypeOK
  BY DEF DedupInv, TypeOK
<1>f. PICK f \in dd[s].todo : \E h \in Nearest(f) :
        /\ point[f] # "none" /\ h \in dd[s].ws \ dd[s].mark
        /\ dd' = [dd EXCEPT ![s] = Merged(s, f, Loser(s, f, h), Winner(s, f, h))]
        /\ \/ point' = point
           \/ point' = [point EXCEPT ![Loser(s, f, h)] =
                          IF @ = "none" \/ ~Live(Loser(s, f, h)) THEN @
                                                       ELSE "to_delete"]
  BY DEF CompareMerges
<1>2. PICK h \in Nearest(f) :
        /\ point[f] # "none" /\ h \in dd[s].ws \ dd[s].mark
        /\ dd' = [dd EXCEPT ![s] = Merged(s, f, Loser(s, f, h), Winner(s, f, h))]
        /\ \/ point' = point
           \/ point' = [point EXCEPT ![Loser(s, f, h)] =
                          IF @ = "none" \/ ~Live(Loser(s, f, h)) THEN @
                                                       ELSE "to_delete"]
  BY <1>f
<1>3. dd[s].pc = "scan" /\ Writes(s)
  BY DEF CompareMerges, DedupInv, TxInv
<1>4. h # f /\ point[h] # "none" /\ f \in dd[s].ws \ dd[s].mark
  BY <1>2, <1>3 DEF Nearest, Neighbours, Writes
<1> DEFINE l == Loser(s, f, h)
           w == Winner(s, f, h)
<1>5. /\ l \in dd[s].ws /\ w \in dd[s].ws /\ l # w /\ w \notin dd[s].mark
      /\ point[l] # "none" /\ point[w] # "none"
  BY <1>2, <1>4 DEF Loser, Winner
<1>6. \A g \in FactIds : point[g] = "none" => point'[g] = "none"
  BY <1>1, <1>2, <1>5 DEF TypeOK
<1>7. dd' = [dd EXCEPT ![s] = Merged(s, f, l, w)]
  BY <1>2
<1> HIDE DEF l, w
<1>8. /\ \A r \in Sources : r # s => dd'[r] = dd[r]
      /\ dd'[s] = Merged(s, f, l, w)
  BY <1>1, <1>7
<1>9. /\ Merged(s, f, l, w).pc = dd[s].pc /\ Merged(s, f, l, w).ws = dd[s].ws
      /\ Merged(s, f, l, w).mark =
           IF Live(l) THEN dd[s].mark \cup {l} ELSE dd[s].mark
      /\ Merged(s, f, l, w).linkAdd = dd[s].linkAdd \cup NewLinks(s, l, w)
      /\ Merged(s, f, l, w).refDel = dd[s].refDel \cup LoserRefs(s, l)
      /\ Merged(s, f, l, w).refAdd =
           (dd[s].refAdd \ LoserRefs(s, l)) \cup MovedRefs(s, l, w)
  BY <1>1 DEF Merged, DdType
<1>10. UNCHANGED <<status, links, refs, embedded, aged, dec, emb, cl,
                   sweep, queued>>
  BY DEF CompareMerges
<1>11. /\ dd'[s].pc = "scan" /\ dd'[s].ws = dd[s].ws
       /\ point[l] # "none" /\ point[w] # "none" /\ l # w
       /\ w \notin dd[s].mark
       /\ dd'[s].mark = IF Live(l) THEN dd[s].mark \cup {l} ELSE dd[s].mark
       /\ dd'[s].linkAdd = dd[s].linkAdd \cup NewLinks(s, l, w)
       /\ dd'[s].refDel = dd[s].refDel \cup LoserRefs(s, l)
       /\ dd'[s].refAdd = (dd[s].refAdd \ LoserRefs(s, l))
                             \cup MovedRefs(s, l, w)
  BY <1>3, <1>5, <1>8, <1>9
<1>12. l \in dd[s].ws /\ w \in dd[s].ws
  BY <1>5
<1> QED
  BY <1>3, <1>6, <1>8, <1>10, <1>11, <1>12

(* ... those of cleanup_facts,                                             *)
LEMMA CleanupSteps ==
  ASSUME DedupInv, NEW s \in Sources, Cleanup(s), ~Fault
  PROVE  /\ UNCHANGED <<links, refs, aged, dec, emb, dd, sweep>>
         /\ \A r \in Sources : r # s => cl'[r] = cl[r]
         /\ \A f \in FactIds : point[f] = "none" => point'[f] = "none"
         /\ \/ /\ cl[s].pc = "idle" /\ status' = status
               /\ queued' = queued \ {<<"cleanup", s>>}
               /\ \A f \in FactIds :
                    f \in cl'[s].facts <=>
                      status[f] = "to_delete" /\ <<f, s>> \in links
               /\ \A f \in cl'[s].facts : point'[f] = "none"
               /\ cl'[s].facts # {} => cl'[s].pc # "idle"
            \/ /\ cl[s].pc = "rows" /\ queued' = queued /\ point' = point
               /\ cl'[s] = IdleCl
               /\ status' = [f \in FactIds |-> IF f \in cl[s].facts /\ Live(f)
                                                 THEN "cleaned" ELSE status[f]]
<1>1. cl \in [Sources -> ClType] /\ TypeOK
  BY DEF DedupInv, TypeOK
<1>2. CASE CleanupStart(s)
  <2> DEFINE ids == {f \in FactIds : status[f] = "to_delete" /\ <<f, s>> \in links}
             new == IF ids = {} THEN IdleCl ELSE [pc |-> "rows", facts |-> ids]
  <2>1. /\ cl' = [cl EXCEPT ![s] = new] /\ cl[s].pc = "idle"
        /\ point' = [f \in FactIds |-> IF f \in ids THEN "none" ELSE point[f]]
        /\ UNCHANGED <<status, links, refs, aged, dec, emb, dd, sweep>>
        /\ queued' = queued \ {<<"cleanup", s>>}
    BY <1>2 DEF CleanupStart, Take
  <2>2. new.facts = ids /\ (ids # {} => new.pc # "idle")
    BY DEF IdleCl
  <2> HIDE DEF new
  <2>3. cl'[s] = new /\ \A r \in Sources : r # s => cl'[r] = cl[r]
    BY <1>1, <2>1
  <2> QED
    BY <2>1, <2>2, <2>3
<1>3. CASE CleanupFinish(s)
  BY <1>1, <1>3 DEF CleanupFinish
<1> QED
  BY <1>2, <1>3 DEF Cleanup

(* ... and those of fact_catchup.                                          *)
LEMMA CatchupSteps ==
  ASSUME TypeOK, AgePasses \/ Catchup \/ SweepDies
  PROVE  /\ UNCHANGED <<links, refs, dec, emb, dd, cl, queued>>
         /\ \A f \in FactIds : point[f] = "none" => point'[f] = "none"
         /\ \A f \in FactIds : \/ status'[f] = status[f]
                               \/ Live(f) /\ status'[f] = "reaped"
<1>1. CASE AgePasses \/ SweepSelect \/ SweepDies
  BY <1>1 DEF AgePasses, SweepSelect, SweepDies
<1>2. CASE SweepDelete
  BY <1>2 DEF SweepDelete
<1>3. CASE SweepPoints
  BY <1>3 DEF SweepPoints
<1> QED
  BY <1>1, <1>2, <1>3 DEF Catchup

(* Without a failing call nothing dies.                                    *)
LEMMA NoneDies ==
  ASSUME NEW s \in Sources, Dies(s) PROVE Fault
BY DEF Dies, DecomposeDies, EmbedDies, DedupDies, CleanupDies, RetryOrDiscard

-----------------------------------------------------------------------------
(* Bare facts, whatever fails                                              *)

(* The facts of a source stay bare in a step that marks none of them and   *)
(* writes none of their points.                                            *)
LEMMA BareFrame ==
  ASSUME NEW s \in Sources, AllBare(s), NEW t \in Sources,
         \/ links' = links
         \/ Open(t) /\ links' = links \cup dd[t].linkAdd,
         \A f \in FactIds : Bare(f, s) =>
            point'[f] = "none" /\ status'[f] \in {"new", "stable", "reaped"},
         \A r \in Sources : Open(r)' =>
            \/ dd'[r].mark = {} /\ dd'[r].linkAdd = {}
            \/ Open(r) /\ dd'[r].mark = dd[r].mark
                       /\ dd'[r].linkAdd = dd[r].linkAdd
  PROVE  AllBare(s)'
<1>1. /\ \A f \in FactIds : <<f, s>> \in links => Bare(f, s)
      /\ \A r \in Sources, f \in FactIds : Open(r) => <<f, s>> \notin dd[r].linkAdd
  BY DEF AllBare
<1>2. ASSUME NEW f \in FactIds, <<f, s>> \in links'
      PROVE  Bare(f, s)'
  <2>1. <<f, s>> \in links
    BY <1>1, <1>2
  <2>2. Bare(f, s)
    BY <1>1, <2>1
  <2>3. \A x \in Sources : <<f, x>> \in links' <=> <<f, x>> \in links
    BY <2>2 DEF Bare
  <2>4. SourcesOf(f)' = {s}
    BY <2>2, <2>3 DEF Bare, SourcesOf
  <2>5. \A r \in Sources : Open(r)' =>
          f \notin dd'[r].mark /\ \A x \in Sources : <<f, x>> \notin dd'[r].linkAdd
    BY <2>2 DEF Bare
  <2> QED
    BY <2>2, <2>4, <2>5 DEF Bare
<1>3. \A r \in Sources, f \in FactIds :
        Open(r)' => <<f, s>> \notin dd'[r].linkAdd
  BY <1>1
<1> QED
  BY <1>2, <1>3 DEF AllBare

LEMMA BarePersist ==
  ASSUME DedupInv, Born, NEW x \in Sources, PersistFact(x),
         NEW s \in Sources, AllBare(s)
  PROVE  AllBare(s)'
<1>1. PICK f \in FactIds :
         /\ status[f] = "none" /\ status' = [status EXCEPT ![f] = "new"]
         /\ links' = links \cup {<<f, x>>} \/ links' = links
  BY DEF PersistFact
<1>2. UNCHANGED <<point, dd>>
  BY DEF PersistFact
<1>3. \A y \in Sources : <<f, y>> \notin links
  BY <1>1 DEF DedupInv, FreshUnlinked, SourcesOf
<1>4. \A r \in Sources : Open(r) =>
         f \notin dd[r].mark /\ \A y \in Sources : <<f, y>> \notin dd[r].linkAdd
  <2> SUFFICES ASSUME NEW r \in Sources, Open(r)
               PROVE  /\ f \notin dd[r].mark
                      /\ \A y \in Sources : <<f, y>> \notin dd[r].linkAdd
    OBVIOUS
  <2>1. WorkingSet(r) /\ Writes(r)
    BY DEF DedupInv, TxInv, Open
  <2>2. f \notin dd[r].ws
    BY <1>3, <2>1 DEF WorkingSet, Linked, SourcesOf
  <2> QED
    BY <2>1, <2>2 DEF Writes
<1>5. ASSUME NEW g \in FactIds, <<g, s>> \in links'
      PROVE  Bare(g, s)'
  <2>1. CASE g = f
    <3>1. x = s /\ links' = links \cup {<<f, s>>}
      BY <1>1, <1>3, <1>5, <2>1
    <3>2. point'[f] = "none" /\ status'[f] = "new"
      BY <1>1, <1>2 DEF Born, DedupInv, TypeOK
    <3>3. SourcesOf(f)' = {s}
      BY <1>3, <3>1 DEF SourcesOf
    <3>4. \A r \in Sources : Open(r)' =>
           f \notin dd'[r].mark /\ \A y \in Sources : <<f, y>> \notin dd'[r].linkAdd
      BY <1>2, <1>4 DEF Open
    <3> QED
      BY <2>1, <3>2, <3>3, <3>4 DEF Bare
  <2>2. CASE g # f
    <3>1. Bare(g, s)
      BY <1>1, <1>5, <2>2 DEF AllBare
    <3>2. SourcesOf(g)' = SourcesOf(g) /\ status'[g] = status[g]
      BY <1>1, <2>2 DEF SourcesOf, DedupInv, TypeOK
    <3> QED
      BY <1>2, <3>1, <3>2 DEF Bare, Open
  <2> QED
    BY <2>1, <2>2
<1>6. \A r \in Sources, g \in FactIds : Open(r)' => <<g, s>> \notin dd'[r].linkAdd
  BY <1>2 DEF AllBare, Open
<1> QED
  BY <1>5, <1>6 DEF AllBare

LEMMA BareMerge ==
  ASSUME DedupInv, NEW x \in Sources, CompareMerges(x),
         NEW s \in Sources, AllBare(s)
  PROVE  AllBare(s)'
<1>1. /\ UNCHANGED <<status, links>>
      /\ \A r \in Sources : r # x => dd'[r] = dd[r]
      /\ \A f \in FactIds : point[f] = "none" => point'[f] = "none"
      /\ dd[x].pc = "scan" /\ dd'[x].pc = "scan"
  BY MergeSteps
<1>3. PICK l \in dd[x].ws, w \in dd[x].ws :
        /\ point[l] # "none" /\ point[w] # "none" /\ l # w
        /\ w \notin dd[x].mark
        /\ dd'[x].mark = IF Live(l) THEN dd[x].mark \cup {l} ELSE dd[x].mark
        /\ dd'[x].linkAdd = dd[x].linkAdd \cup NewLinks(x, l, w)
        /\ dd'[x].refDel = dd[x].refDel \cup LoserRefs(x, l)
        /\ dd'[x].refAdd = (dd[x].refAdd \ LoserRefs(x, l))
                              \cup MovedRefs(x, l, w)
  BY MergeSteps
<1>4. l \in FactIds
  BY DEF DedupInv, TypeOK, DdType
<1>5. \A r \in Sources : Open(r)' <=> Open(r)
  BY <1>1 DEF Open
<1>6. \A f \in FactIds, y \in Sources : <<f, y>> \in NewLinks(x, l, w) =>
         f = w /\ <<l, y>> \in links \cup dd[x].linkAdd
  BY DEF NewLinks, LoserSources, TxSources
<1>7. <<l, s>> \notin links \cup dd[x].linkAdd
  BY <1>1, <1>3, <1>4 DEF AllBare, Bare, Open
<1>8. \A r \in Sources, f \in FactIds : Open(r)' => <<f, s>> \notin dd'[r].linkAdd
  BY <1>1, <1>3, <1>5, <1>6, <1>7 DEF AllBare
<1>9. ASSUME NEW f \in FactIds, <<f, s>> \in links'
      PROVE  Bare(f, s)'
  <2>1. Bare(f, s)
    BY <1>1, <1>9 DEF AllBare
  <2>2. f # l /\ f # w
    BY <1>3, <2>1 DEF Bare
  <2>3. f \notin dd'[x].mark /\ \A y \in Sources : <<f, y>> \notin dd'[x].linkAdd
    <3>1. f \notin dd[x].mark /\ \A y \in Sources : <<f, y>> \notin dd[x].linkAdd
      BY <1>1, <2>1 DEF Bare, Open
    <3>2. \A y \in Sources : <<f, y>> \notin NewLinks(x, l, w)
      BY <1>6, <2>2
    <3> QED
      BY <1>3, <2>2, <3>1, <3>2
  <2>4. \A r \in Sources : Open(r)' =>
          f \notin dd'[r].mark /\ \A y \in Sources : <<f, y>> \notin dd'[r].linkAdd
    BY <1>1, <1>5, <2>1, <2>3 DEF Bare
  <2>5. /\ point'[f] = "none" /\ status'[f] \in {"new", "stable", "reaped"}
        /\ SourcesOf(f)' = {s}
    BY <1>1, <2>1 DEF Bare, SourcesOf
  <2> QED
    BY <2>4, <2>5 DEF Bare
<1> QED
  BY <1>8, <1>9 DEF AllBare

(* The steps of source_decomposition but PersistFact, and of embed_facts   *)
(* but EmbedUpsert, touch no fact, point or transaction.                   *)
LEMMA FactsAlone ==
  ASSUME NEW x \in Sources,
         \/ DecomposeStart(x) \/ CiteFact(x) \/ DecomposeFinish(x)
         \/ DecomposeDies(x) \/ EmbedStart(x) \/ EmbedFinish(x) \/ EmbedDies(x)
  PROVE  UNCHANGED <<status, links, point, dd>>
BY DEF DecomposeStart, CiteFact, DecomposeFinish, DecomposeDies, EmbedStart,
       EmbedFinish, EmbedDies

(* A step of a transaction that merges nothing.                            *)
LEMMA PassSteps ==
  ASSUME DedupInv, NEW x \in Sources,
         \/ DedupStart(x) \/ CompareSkips(x) \/ DedupPromote(x)
         \/ DedupCommit(x) \/ DedupRefused(x) \/ DedupDies(x)
  PROVE  /\ \A r \in Sources : r # x => dd'[r] = dd[r]
         /\ \A f \in FactIds : point[f] = "none" => point'[f] = "none"
         /\ \/ dd'[x] = IdleDd
            \/ /\ dd'[x].mark = {} /\ dd'[x].linkAdd = {} /\ dd'[x].refAdd = {}
               /\ UNCHANGED <<status, links, refs>>
            \/ /\ Open(x) /\ dd'[x].mark = dd[x].mark /\ dd'[x].ws = dd[x].ws
               /\ dd'[x].linkAdd = dd[x].linkAdd
               /\ dd'[x].refDel = dd[x].refDel /\ dd'[x].refAdd = dd[x].refAdd
               /\ UNCHANGED <<status, links, refs>>
         /\ \/ UNCHANGED <<status, links, refs>>
            \/ /\ Open(x) /\ dd'[x] = IdleDd
               /\ status' = [f \in FactIds |->
                     IF f \in dd[x].mark THEN "to_delete"
                     ELSE IF f \in dd[x].promote THEN "stable" ELSE status[f]]
               /\ links' = links \cup dd[x].linkAdd /\ refs' = TxRefs(x)
<1>1. dd \in [Sources -> DdType] /\ dd[x] \in DdType
  BY DEF DedupInv, TypeOK
<1>2. CASE DedupStart(x)
  <2> DEFINE ws == {f \in FactIds : status[f] \in {"new", "stable"} /\ Linked(f)}
             new == [IdleDd EXCEPT !.pc = "scan", !.ws = ws,
                        !.stab = {f \in ws : status[f] = "stable"},
                        !.todo = {f \in ws : status[f] = "new"}]
  <2>1. dd' = [dd EXCEPT ![x] = new] /\ UNCHANGED <<status, links, refs, point>>
    BY <1>2 DEF DedupStart
  <2>2. new.mark = {} /\ new.linkAdd = {} /\ new.refAdd = {}
    BY DEF IdleDd
  <2> HIDE DEF new
  <2> QED
    BY <1>1, <2>1, <2>2
<1>3. CASE CompareSkips(x)
  BY <1>1, <1>3 DEF CompareSkips, Open, DdType
<1>4. CASE DedupPromote(x)
  <2>1. PICK P : dd' = [dd EXCEPT ![x].pc = "promoted", ![x].promote = P]
    BY <1>4 DEF DedupPromote
  <2>2. \A f \in FactIds : point[f] = "none" => point'[f] = "none"
    BY <1>4 DEF DedupPromote
  <2> QED
    BY <1>1, <1>4, <2>1, <2>2 DEF DedupPromote, Open, DdType
<1>5. CASE DedupCommit(x)
  BY <1>1, <1>5 DEF DedupCommit, Open
<1>6. CASE DedupRefused(x) \/ DedupDies(x)
  BY <1>1, <1>6 DEF DedupRefused, DedupDies
<1> QED
  BY <1>2, <1>3, <1>4, <1>5, <1>6

(* cleanup_facts and fact_catchup take rows that are given up, or make     *)
(* them reaped, and write no point.                                        *)
LEMMA RemovalsTake ==
  ASSUME DedupInv,
         \/ \E x \in Sources : Cleanup(x) \/ CleanupDies(x)
         \/ AgePasses \/ Catchup \/ SweepDies
  PROVE  /\ UNCHANGED <<links, refs, dec, emb, dd>>
         /\ \A f \in FactIds : point[f] = "none" => point'[f] = "none"
         /\ \A f \in FactIds : \/ status'[f] = status[f]
                               \/ status[f] = "to_delete"
                               \/ Live(f) /\ status'[f] = "reaped"
<1>1. TypeOK
  BY DEF DedupInv
<1>2. ASSUME NEW x \in Sources, Cleanup(x) \/ CleanupDies(x)
      PROVE  /\ UNCHANGED <<links, refs, dec, emb, dd>>
             /\ \A f \in FactIds : point[f] = "none" => point'[f] = "none"
             /\ \A f \in FactIds : \/ status'[f] = status[f]
                                   \/ f \in cl[x].facts /\ Live(f)
  <2>1. CASE CleanupStart(x) \/ CleanupDies(x)
    BY <2>1 DEF CleanupStart, CleanupDies
  <2>2. CASE CleanupFinish(x)
    <3>1. PICK gone \in SUBSET cl[x].facts :
             status' = [f \in FactIds |-> IF f \in gone /\ Live(f)
                                            THEN "cleaned" ELSE status[f]]
      BY <2>2 DEF CleanupFinish
    <3>2. UNCHANGED <<links, refs, dec, emb, dd, point>>
      BY <2>2 DEF CleanupFinish
    <3> QED
      BY <3>1, <3>2
  <2> QED
    BY <1>2, <2>1, <2>2 DEF Cleanup
<1>3. \A x \in Sources, f \in FactIds :
         f \in cl[x].facts /\ Live(f) => status[f] = "to_delete"
  BY DEF DedupInv, CleanupOnlyDuplicates, Live
<1> QED
  BY <1>1, <1>2, <1>3, CatchupSteps

(* Only the upsert of embed_facts of the source itself gives its facts     *)
(* points, and without them they are neither marked nor linked anew.       *)
LEMMA BareHolds ==
  ASSUME DedupInv, Holdings, Born, [Next]_vars, NEW s \in Sources, AllBare(s),
         ~EmbedUpsert(s)
  PROVE  AllBare(s)'
<1>1. CASE UNCHANGED <<status, links, point, dd>>
  BY <1>1, BareFrame DEF Bare, Open
<1>2. ASSUME NEW x \in Sources, EmbedUpsert(x)
      PROVE  AllBare(s)'
  <2>1. UNCHANGED <<status, links, dd>> /\ x # s
    BY <1>2 DEF EmbedUpsert
  <2>2. \A f \in FactIds : f \notin emb[x].facts => point'[f] = point[f]
    BY <1>2 DEF EmbedUpsert
  <2>3. \A f \in FactIds : Bare(f, s) => f \notin emb[x].facts
    BY <2>1 DEF Bare, Holdings, SourcesOf
  <2>4. \A f \in FactIds : Bare(f, s) =>
          point'[f] = "none" /\ status'[f] \in {"new", "stable", "reaped"}
    BY <2>1, <2>2, <2>3 DEF Bare
  <2> QED
    BY <2>1, <2>4, BareFrame DEF Open
<1>3. ASSUME NEW x \in Sources,
             \/ DedupStart(x) \/ CompareSkips(x) \/ DedupPromote(x)
             \/ DedupCommit(x) \/ DedupRefused(x) \/ DedupDies(x)
      PROVE  AllBare(s)'
  <2>1. \/ links' = links
        \/ Open(x) /\ links' = links \cup dd[x].linkAdd
    BY <1>3, PassSteps
  <2>2. \A f \in FactIds : Bare(f, s) =>
          point'[f] = "none" /\ status'[f] \in {"new", "stable", "reaped"}
    BY <1>3, PassSteps DEF Bare
  <2>3. \A r \in Sources : Open(r)' =>
            \/ dd'[r].mark = {} /\ dd'[r].linkAdd = {}
            \/ Open(r) /\ dd'[r].mark = dd[r].mark
                       /\ dd'[r].linkAdd = dd[r].linkAdd
    <3>1. IdleDd.pc = "idle"
      BY DEF IdleDd
    <3> QED
      BY <1>3, <3>1, PassSteps DEF Open
  <2> QED
    BY <2>1, <2>2, <2>3, BareFrame
<1>4. CASE \/ \E x \in Sources : Cleanup(x) \/ CleanupDies(x)
           \/ AgePasses \/ Catchup \/ SweepDies
  <2>1. UNCHANGED <<links, dd>>
    BY <1>4, RemovalsTake
  <2>2. \A f \in FactIds : Bare(f, s) =>
          point'[f] = "none" /\ status'[f] \in {"new", "stable", "reaped"}
    BY <1>4, RemovalsTake DEF Bare
  <2> QED
    BY <2>1, <2>2, BareFrame DEF Open
<1>5. ASSUME NEW x \in Sources, Decompose(x) \/ DecomposeDies(x)
      PROVE  AllBare(s)'
  BY <1>1, <1>5, BarePersist, FactsAlone DEF Decompose
<1>6. ASSUME NEW x \in Sources, Embed(x) \/ EmbedDies(x)
      PROVE  AllBare(s)'
  BY <1>1, <1>2, <1>6, FactsAlone DEF Embed
<1>7. ASSUME NEW x \in Sources, Dedup(x) \/ DedupDies(x)
      PROVE  AllBare(s)'
  BY <1>3, <1>7, BareMerge DEF Dedup
<1>8. CASE UNCHANGED vars
  BY <1>1, <1>8 DEF vars
<1> QED
  BY <1>4, <1>5, <1>6, <1>7, <1>8 DEF Next, Dies

LEMMA BornHolds ==
  ASSUME DedupInv, Holdings, Born, [Next]_vars
  PROVE  Born'
<1>1. CASE UNCHANGED <<status, links, point, dd>>
  BY <1>1 DEF Born
<1>2. ASSUME NEW x \in Sources, PersistFact(x)
      PROVE  Born'
  <2>1. point' = point /\ \A f \in FactIds : status'[f] \in {status[f], "new"}
    BY <1>2 DEF PersistFact, DedupInv, TypeOK
  <2> QED
    BY <2>1 DEF Born
<1>3. ASSUME NEW x \in Sources, EmbedUpsert(x)
      PROVE  Born'
  <2>1. \A f \in FactIds : status[f] = "none" => f \notin emb[x].facts
    BY DEF Holdings, DedupInv, FreshUnlinked, SourcesOf
  <2> QED
    BY <1>3, <2>1 DEF EmbedUpsert, Born
<1>4. ASSUME NEW x \in Sources, Dedup(x) \/ DedupDies(x)
      PROVE  Born'
  <2>1. \A f \in FactIds : point[f] = "none" => point'[f] = "none"
    BY <1>4, MergeSteps, PassSteps DEF Dedup
  <2>2. \A f \in FactIds : status'[f] = "none" => status[f] = "none"
    BY <1>4, MergeSteps, PassSteps DEF Dedup
  <2> QED
    BY <2>1, <2>2 DEF Born
<1>5. CASE \/ \E x \in Sources : Cleanup(x) \/ CleanupDies(x)
           \/ AgePasses \/ Catchup \/ SweepDies
  <2>1. \A f \in FactIds : status[f] = "to_delete" => status'[f] # "none"
    <3>1. \/ status' = status
          \/ \A f \in FactIds : status'[f] \in {status[f], "cleaned", "reaped"}
      BY <1>5 DEF Cleanup, CleanupStart, CleanupFinish, CleanupDies, AgePasses,
           Catchup, SweepSelect, SweepDelete, SweepPoints, SweepDies
    <3> QED
      BY <3>1
  <2> QED
    BY <1>5, <2>1, RemovalsTake DEF Born
<1>6. CASE UNCHANGED vars
  BY <1>1, <1>6 DEF vars
<1> QED
  BY <1>1, <1>2, <1>3, <1>4, <1>5, <1>6, FactsAlone
  DEF Next, Dies, Decompose, Embed

(* Whatever ends a job clears what it had in hand, and links only grow.    *)
LEMMA HoldingsHold ==
  ASSUME DedupInv, Holdings, [Next]_vars
  PROVE  Holdings'
<1>1. /\ dec \in [Sources -> DecType] /\ emb \in [Sources -> EmbType]
      /\ IdleDec.cite = {} /\ IdleEmb.facts = {}
  BY DEF DedupInv, TypeOK, IdleDec, IdleEmb
<1>2. CASE UNCHANGED <<dec, emb>> /\ links \subseteq links'
  BY <1>2 DEF Holdings
<1>3. ASSUME NEW x \in Sources, Decompose(x) \/ DecomposeDies(x)
      PROVE  Holdings'
  <2>1. /\ emb' = emb /\ links \subseteq links'
        /\ \A r \in Sources : r # x => dec'[r] = dec[r]
    BY <1>1, <1>3 DEF Decompose, DecomposeStart, PersistFact, CiteFact,
         DecomposeFinish, DecomposeDies
  <2>2. \A f \in dec'[x].cite : dec'[x].pc # "idle" /\ <<f, x>> \in links'
    <3>1. CASE DecomposeStart(x)
      <4>1. PICK got : dec' = [dec EXCEPT ![x] = [pc |-> "persist", todo |-> got,
                        lost |-> got # Yields[x], made |-> FALSE, cite |-> {}]]
        BY <3>1 DEF DecomposeStart
      <4> QED
        BY <1>1, <4>1
    <3>2. CASE PersistFact(x)
      <4>1. dec[x].pc = "persist" /\ dec[x].cite = {} /\ dec[x] \in DecType
        BY <1>1, <3>2 DEF PersistFact
      <4>2. PICK t \in dec[x].todo, f \in FactIds :
               \/ /\ links' = links \cup {<<f, x>>}
                  /\ dec' = [dec EXCEPT ![x].todo = @ \ {t}, ![x].cite = {f}]
               \/ dec' = [dec EXCEPT ![x].todo = @ \ {t}]
        BY <3>2 DEF PersistFact
      <4> QED
        BY <1>1, <4>1, <4>2 DEF DecType
    <3>3. CASE CiteFact(x)
      BY <1>1, <3>3 DEF CiteFact, DecType
    <3>4. CASE DecomposeFinish(x) \/ DecomposeDies(x)
      BY <1>1, <3>4 DEF DecomposeFinish, DecomposeDies
    <3> QED
      BY <1>3, <3>1, <3>2, <3>3, <3>4 DEF Decompose
  <2> QED
    BY <2>1, <2>2 DEF Holdings
<1>4. ASSUME NEW x \in Sources, Embed(x) \/ EmbedDies(x)
      PROVE  Holdings'
  <2>1. /\ dec' = dec /\ links' = links
        /\ \A r \in Sources : r # x => emb'[r] = emb[r]
    BY <1>1, <1>4 DEF Embed, EmbedStart, EmbedUpsert, EmbedFinish, EmbedDies
  <2>2. \A f \in emb'[x].facts : emb'[x].pc # "idle" /\ <<f, x>> \in links
    <3>1. CASE EmbedStart(x)
      <4>1. \/ emb' = emb
            \/ emb' = [emb EXCEPT ![x] = [pc |-> "listed", facts |-> ToEmbed(x)]]
        BY <3>1 DEF EmbedStart
      <4> QED
        BY <1>1, <4>1 DEF Holdings, ToEmbed
    <3>2. CASE EmbedUpsert(x)
      <4>1. emb'[x].facts = emb[x].facts /\ emb'[x].pc = "upserted"
        BY <1>1, <3>2 DEF EmbedUpsert, EmbType
      <4> QED
        BY <4>1 DEF Holdings
    <3>3. CASE EmbedFinish(x) \/ EmbedDies(x)
      BY <1>1, <3>3 DEF EmbedFinish, EmbedDies
    <3> QED
      BY <1>4, <3>1, <3>2, <3>3 DEF Embed
  <2> QED
    BY <2>1, <2>2 DEF Holdings
<1>5. ASSUME NEW x \in Sources, Dedup(x) \/ DedupDies(x)
      PROVE  UNCHANGED <<dec, emb>> /\ links \subseteq links'
  BY <1>5 DEF Dedup, DedupStart, CompareSkips, CompareMerges, DedupPromote,
       DedupCommit, DedupRefused, DedupDies
<1>6. CASE \/ \E x \in Sources : Cleanup(x) \/ CleanupDies(x)
           \/ AgePasses \/ Catchup \/ SweepDies
  BY <1>2, <1>6, RemovalsTake
<1>7. CASE UNCHANGED vars
  BY <1>2, <1>7 DEF vars
<1> QED
  BY <1>2, <1>3, <1>4, <1>5, <1>6, <1>7 DEF Next, Dies

-----------------------------------------------------------------------------
LEMMA StagesHold ==
  ASSUME DedupInv, Stages, Holdings, ~Fault, NEW s \in Sources,
         Decompose(s) \/ Embed(s) \/ Dedup(s) \/ Cleanup(s)
  PROVE  Stages' /\ Holdings'
<1>1. TypeOK /\ dec \in [Sources -> DecType] /\ emb \in [Sources -> EmbType]
  BY DEF DedupInv, TypeOK
<1>2. CASE Decompose(s)
  <2>a. /\ emb' = emb /\ links \subseteq links'
        /\ \A r \in Sources : r # s => dec'[r] = dec[r]
    BY <1>1, <1>2, DecSteps
  <2>b. queued' \subseteq queued \cup {<<"embed", s>>}
    BY <1>1, <1>2, DecSteps
  <2>1. /\ emb' = emb /\ links \subseteq links'
        /\ \A r \in Sources : r # s => dec'[r] = dec[r]
        /\ \A r \in Sources : r # s =>
             /\ <<"decompose", r>> \in queued' => <<"decompose", r>> \in queued
             /\ <<"embed", r>> \in queued' => <<"embed", r>> \in queued
    BY <2>a, <2>b
  <2>2. \/ /\ <<"decompose", s>> \in queued
           /\ queued' = queued \ {<<"decompose", s>>}
           /\ dec'[s].cite = {}
        \/ /\ dec[s].pc # "idle" /\ queued' = queued
           /\ \A f \in dec'[s].cite : dec'[s].pc # "idle" /\ <<f, s>> \in links'
        \/ /\ dec[s].pc # "idle" /\ dec'[s].pc = "idle"
           /\ queued' \subseteq queued \cup {<<"embed", s>>}
           /\ dec'[s].cite = {}
    <3>1. \A f \in dec[s].cite : dec[s].pc # "idle"
      BY DEF Holdings
    <3> QED
      BY <1>1, <1>2, <3>1, DecSteps DEF IdleDec
  <2>3. Stages'
    BY <2>1, <2>2 DEF Stages
  <2>4. Holdings'
    BY <2>1, <2>2 DEF Holdings
  <2> QED
    BY <2>3, <2>4
<1>3. CASE Embed(s)
  <2>a. /\ UNCHANGED <<dec, links>>
        /\ \A r \in Sources : r # s => emb'[r] = emb[r]
    BY <1>1, <1>3, EmbSteps
  <2>b. queued' \subseteq queued \cup {<<"dedup", s>>}
    BY <1>1, <1>3, EmbSteps
  <2>1. /\ UNCHANGED <<dec, links>>
        /\ \A r \in Sources : r # s => emb'[r] = emb[r]
        /\ \A r \in Sources :
             /\ <<"decompose", r>> \in queued' => <<"decompose", r>> \in queued
             /\ <<"embed", r>> \in queued' => <<"embed", r>> \in queued
    BY <2>a, <2>b
  <2>2. /\ <<"embed", s>> \in queued =>
             <<"embed", s>> \notin queued'
               \/ emb[s].pc # "idle"
        /\ emb[s].pc # "idle" \/ <<"embed", s>> \in queued
        /\ \A f \in emb'[s].facts : emb'[s].pc # "idle" /\ <<f, s>> \in links
    BY <1>1, <1>3, EmbSteps DEF Holdings, ToEmbed, IdleEmb
  <2>3. Stages'
    BY <2>1, <2>2 DEF Stages
  <2>4. Holdings'
    BY <2>1, <2>2 DEF Holdings
  <2> QED
    BY <2>3, <2>4
<1>4. CASE Dedup(s) \/ Cleanup(s)
  <2>1. /\ UNCHANGED <<dec, emb>> /\ links \subseteq links'
        /\ \A r \in Sources :
             /\ <<"decompose", r>> \in queued' => <<"decompose", r>> \in queued
             /\ <<"embed", r>> \in queued' => <<"embed", r>> \in queued
    BY <1>1, <1>4, DedupSteps, MergeSteps, CleanupSteps
  <2>2. Stages'
    BY <2>1 DEF Stages
  <2>3. Holdings'
    BY <2>1 DEF Holdings
  <2> QED
    BY <2>2, <2>3
<1> QED
  BY <1>2, <1>3, <1>4

(* A source is early once: what makes it so is done one after the other.   *)
LEMMA UntouchedHolds ==
  ASSUME DedupInv, CleanRun, ~Fault, NEW s \in Sources,
         \/ Decompose(s) \/ Embed(s) \/ Dedup(s) \/ Cleanup(s)
         \/ AgePasses \/ Catchup \/ SweepDies
  PROVE  Untouched'
<1>1. TypeOK /\ Untouched /\ Born /\ Stages /\ Holdings /\ [Next]_vars
  BY DEF DedupInv, CleanRun, Next
<1>k. IdleDec.pc = "idle" /\ IdleEmb.pc = "idle"
  BY DEF IdleDec, IdleEmb
<1>2. \A r \in Sources : Early(r)' => Early(r)
  <2>1. CASE Decompose(s)
    <3>1. emb' = emb /\ \A r \in Sources : r # s => dec'[r] = dec[r]
      BY <1>1, <2>1, DecSteps
    <3>2. \/ /\ <<"decompose", s>> \in queued
             /\ queued' = queued \ {<<"decompose", s>>}
          \/ dec'[s].pc = dec[s].pc /\ queued' = queued
          \/ /\ dec[s].pc = "persist"
             /\ queued' \subseteq queued \cup {<<"embed", s>>}
      BY <1>1, <2>1, DecSteps
    <3> QED
      BY <3>1, <3>2 DEF Early
  <2>2. CASE Embed(s)
    <3>1. dec' = dec /\ \A r \in Sources : r # s => emb'[r] = emb[r]
      BY <1>1, <2>2, EmbSteps
    <3>2. queued' \subseteq queued \cup {<<"dedup", s>>}
      BY <1>1, <2>2, EmbSteps
    <3>3. Early(s) \/ emb'[s].pc \in {"idle", "upserted"}
      BY <1>1, <1>k, <2>2, EmbSteps DEF Early
    <3> QED
      BY <3>1, <3>2, <3>3 DEF Early
  <2>3. CASE Dedup(s)
    <3>1. UNCHANGED <<dec, emb>>
      BY <1>1, <2>3, DedupSteps, MergeSteps
    <3>2. queued' \subseteq queued \cup {<<"cleanup", s>>, <<"dedup", s>>}
      BY <1>1, <2>3, DedupSteps, MergeSteps
    <3> QED
      BY <3>1, <3>2 DEF Early
  <2>4. CASE Cleanup(s)
    <3>1. UNCHANGED <<dec, emb>> /\ queued' \subseteq queued
      BY <2>4, CleanupSteps
    <3> QED
      BY <3>1 DEF Early
  <2>5. CASE AgePasses \/ Catchup \/ SweepDies
    BY <1>1, <2>5, CatchupSteps DEF Early
  <2> QED
    BY <2>1, <2>2, <2>3, <2>4, <2>5
<1>3. ASSUME NEW r \in Sources, Early(r)'
      PROVE  ~EmbedUpsert(r)
  <2> SUFFICES ASSUME EmbedUpsert(r)
               PROVE  FALSE
    OBVIOUS
  <2>1. emb[r].pc = "listed" /\ UNCHANGED <<dec, queued>>
    BY DEF EmbedUpsert
  <2>2. emb'[r].pc = "upserted"
    BY <1>1 DEF EmbedUpsert, TypeOK, EmbType
  <2> QED
    BY <1>1, <1>3, <2>1, <2>2 DEF Early, Stages
<1> QED
  BY <1>1, <1>2, <1>3, BareHolds DEF Untouched

LEMMA PointsGoneHolds ==
  ASSUME DedupInv, CleanRun, ~Fault, NEW s \in Sources,
         \/ Decompose(s) \/ Embed(s) \/ Dedup(s) \/ Cleanup(s)
         \/ AgePasses \/ Catchup \/ SweepDies
  PROVE  PointsGone'
<1>1. /\ TypeOK /\ Untouched /\ Holdings /\ PointsGone /\ Stages
      /\ CleanupOnlyDuplicates /\ OneTx /\ TxInv(s)
  BY DEF DedupInv, CleanRun
<1>2. CASE Decompose(s)
  <2>1. /\ UNCHANGED <<point, cl>>
        /\ \A f \in FactIds : \/ status'[f] = status[f]
                              \/ status[f] = "none" /\ status'[f] = "new"
    BY <1>1, <1>2, DecSteps DEF TypeOK
  <2>2. \A r \in Sources : \A f \in cl[r].facts : f \in FactIds
    BY <1>1 DEF TypeOK, ClType
  <2> QED
    BY <1>1, <2>1, <2>2 DEF PointsGone
<1>3. CASE Embed(s)
  <2>1. UNCHANGED <<status, cl>>
    BY <1>1, <1>3, EmbSteps
  <2>2. CASE point' = point
    BY <1>1, <2>1, <2>2 DEF PointsGone
  <2>3. CASE /\ emb[s].pc = "listed"
             /\ point' = [f \in FactIds |-> IF f \in emb[s].facts
                                              THEN "new" ELSE point[f]]
    <3>1. \A f \in emb[s].facts : f \in FactIds =>
             status[f] \in {"new", "stable", "reaped"}
      BY <1>1, <2>3 DEF Holdings, Untouched, AllBare, Early, Bare
    <3>2. \A r \in Sources : \A f \in cl[r].facts : f \in FactIds
      BY <1>1 DEF TypeOK, ClType
    <3>3. \A r \in Sources : \A f \in cl[r].facts :
             status[f] \in {"to_delete", "cleaned", "reaped"}
      BY <1>1 DEF CleanupOnlyDuplicates
    <3> QED
      BY <1>1, <2>1, <2>3, <3>1, <3>2, <3>3 DEF PointsGone
  <2> QED
    BY <1>1, <1>3, <2>2, <2>3, EmbSteps
<1>4. CASE Dedup(s)
  <2>1. /\ cl' = cl
        /\ \A f \in FactIds : point[f] = "none" => point'[f] = "none"
    BY <1>1, <1>4, DedupSteps, MergeSteps
  <2>2. \A f \in FactIds : \/ status'[f] = status[f]
                           \/ status[f] = "new" /\ status'[f] # "cleaned"
    <3>1. \/ status' = status
          \/ /\ dd[s].pc # "idle"
             /\ status' = [f \in FactIds |->
                     IF f \in dd[s].mark THEN "to_delete"
                     ELSE IF f \in dd[s].promote THEN "stable" ELSE status[f]]
      BY <1>1, <1>4, DedupSteps, MergeSteps
    <3> QED
      BY <1>1, <3>1 DEF TxInv, Writes
  <2>3. \A r \in Sources : \A f \in cl[r].facts : f \in FactIds
    BY <1>1 DEF TypeOK, ClType
  <2> QED
    BY <1>1, <2>1, <2>2, <2>3 DEF PointsGone
<1>5. CASE Cleanup(s)
  <2>1. /\ \A r \in Sources : r # s => cl'[r] = cl[r]
        /\ \A f \in FactIds : point[f] = "none" => point'[f] = "none"
    BY <1>5, CleanupSteps
  <2>2. \A r \in Sources : \A f \in cl[r].facts : f \in FactIds
    BY <1>1 DEF TypeOK, ClType
  <2>3. CASE /\ status' = status
             /\ \A f \in cl'[s].facts : point'[f] = "none"
             /\ cl'[s].facts # {} => cl'[s].pc # "idle"
    BY <1>1, <2>1, <2>2, <2>3 DEF PointsGone
  <2>4. CASE /\ cl'[s] = IdleCl
             /\ status' = [f \in FactIds |-> IF f \in cl[s].facts /\ Live(f)
                                                 THEN "cleaned" ELSE status[f]]
    <3>1. \A f \in cl[s].facts : Live(f) => point[f] = "none"
      BY <1>1 DEF PointsGone, Live
    <3>2. \A f \in FactIds : status[f] = "reaped" => status'[f] = "reaped"
      BY <2>4 DEF Live
    <3>3. cl'[s].facts = {}
      BY <2>4 DEF IdleCl
    <3> QED
      BY <1>1, <2>1, <2>2, <2>4, <3>1, <3>2, <3>3 DEF PointsGone
  <2> QED
    BY <1>5, <2>3, <2>4, CleanupSteps
<1>6. CASE AgePasses \/ Catchup \/ SweepDies
  <2>1. \A r \in Sources : \A f \in cl[r].facts : f \in FactIds
    BY <1>1 DEF TypeOK, ClType
  <2>2. /\ cl' = cl
        /\ \A f \in FactIds : point[f] = "none" => point'[f] = "none"
        /\ \A f \in FactIds : status'[f] = status[f] \/ status'[f] = "reaped"
    BY <1>1, <1>6, CatchupSteps
  <2> QED
    BY <1>1, <2>1, <2>2 DEF PointsGone
<1> QED
  BY <1>2, <1>3, <1>4, <1>5, <1>6

(* A step that writes no citation and gives up no fact that has one.       *)
LEMMA RefsFrame ==
  ASSUME TypeOK, RefsMoved, refs' = refs,
         \A f \in FactIds : \/ status'[f] \notin {"to_delete", "cleaned"}
                            \/ status[f] \in {"to_delete", "cleaned"},
         \A r \in Sources : Open(r)' =>
            \/ dd'[r].mark = {} /\ dd'[r].refAdd = {}
            \/ /\ Open(r) /\ dd'[r].mark = dd[r].mark /\ dd'[r].ws = dd[r].ws
               /\ dd'[r].refDel = dd[r].refDel /\ dd'[r].refAdd = dd[r].refAdd
  PROVE  RefsMoved'
<1>1. CitationsOnKeepers'
  BY DEF RefsMoved, CitationsOnKeepers, TypeOK
<1>2. ASSUME NEW r \in Sources, Open(r)'
      PROVE  /\ \A q \in TxRefs(r)' : q[1] \notin dd'[r].mark
             /\ \A q \in dd'[r].refAdd : q[1] \in dd'[r].ws
  BY <1>2 DEF RefsMoved, TxRefs
<1> QED
  BY <1>1, <1>2 DEF RefsMoved

(* A citation is added to a fact that nobody can have marked yet.          *)
LEMMA RefsCite ==
  ASSUME DedupInv, RefsMoved, NEW s \in Sources, AllBare(s),
         NEW C \in SUBSET FactIds, \A f \in C : <<f, s>> \in links,
         refs' = refs \cup {<<f, s, TextOf[f]>> : f \in C},
         UNCHANGED <<status, dd>>
  PROVE  RefsMoved'
<1>1. \A f \in C : Bare(f, s)
  BY DEF AllBare
<1>2. \A q \in refs' : q \in refs \/ \E f \in C : q = <<f, s, TextOf[f]>>
  OBVIOUS
<1>3. CitationsOnKeepers'
  <2>1. \A f \in C : status[f] \notin {"to_delete", "cleaned"}
    BY <1>1 DEF Bare
  <2> QED
    BY <1>2, <2>1 DEF RefsMoved, CitationsOnKeepers
<1>4. ASSUME NEW r \in Sources, Open(r)
      PROVE  /\ \A q \in TxRefs(r)' : q[1] \notin dd[r].mark
             /\ \A q \in dd[r].refAdd : q[1] \in dd[r].ws
  <2>1. \A f \in C : f \notin dd[r].mark
    BY <1>1, <1>4 DEF Bare
  <2>2. \A q \in TxRefs(r)' : q \in TxRefs(r) \/ \E f \in C : q = <<f, s, TextOf[f]>>
    BY <1>2 DEF TxRefs
  <2> QED
    BY <1>4, <2>1, <2>2 DEF RefsMoved
<1> QED
  BY <1>3, <1>4 DEF RefsMoved, Open

LEMMA RefsMerge ==
  ASSUME DedupInv, RefsMoved, NEW s \in Sources, CompareMerges(s)
  PROVE  RefsMoved'
<1>1. /\ UNCHANGED <<status, refs>> /\ dd[s].pc = "scan" /\ dd'[s].pc = "scan"
      /\ dd'[s].ws = dd[s].ws /\ \A r \in Sources : r # s => dd'[r] = dd[r]
  BY MergeSteps
<1>3. PICK l \in dd[s].ws, w \in dd[s].ws :
        /\ point[l] # "none" /\ point[w] # "none" /\ l # w
        /\ w \notin dd[s].mark
        /\ dd'[s].mark = IF Live(l) THEN dd[s].mark \cup {l} ELSE dd[s].mark
        /\ dd'[s].linkAdd = dd[s].linkAdd \cup NewLinks(s, l, w)
        /\ dd'[s].refDel = dd[s].refDel \cup LoserRefs(s, l)
        /\ dd'[s].refAdd = (dd[s].refAdd \ LoserRefs(s, l))
                              \cup MovedRefs(s, l, w)
  BY MergeSteps
<1>4. \A q \in MovedRefs(s, l, w) : q[1] = w
  BY DEF MovedRefs
<1>5. \A q \in TxRefs(s)' : \/ q \in TxRefs(s) \ LoserRefs(s, l)
                            \/ q \in MovedRefs(s, l, w)
  BY <1>1, <1>3 DEF TxRefs
<1>6. /\ \A q \in TxRefs(s) : q[1] \notin dd[s].mark
      /\ \A q \in dd[s].refAdd : q[1] \in dd[s].ws
  BY <1>1 DEF RefsMoved, Open
<1>7. \A q \in TxRefs(s)' : q[1] \notin dd'[s].mark
  <2>1. ASSUME NEW q \in TxRefs(s)', q \in TxRefs(s), q \notin LoserRefs(s, l)
        PROVE  q[1] \notin dd'[s].mark
    BY <1>3, <1>6, <2>1 DEF LoserRefs
  <2>2. ASSUME NEW q \in MovedRefs(s, l, w)
        PROVE  q[1] \notin dd'[s].mark
    BY <1>3, <1>4, <2>2
  <2> QED
    BY <1>5, <2>1, <2>2
<1>8. \A q \in dd'[s].refAdd : q[1] \in dd'[s].ws
  BY <1>1, <1>3, <1>4, <1>6
<1>9. ASSUME NEW r \in Sources, r # s, Open(r)'
      PROVE  /\ \A q \in TxRefs(r)' : q[1] \notin dd'[r].mark
             /\ \A q \in dd'[r].refAdd : q[1] \in dd'[r].ws
  BY <1>1, <1>9 DEF RefsMoved, Open, TxRefs
<1>10. CitationsOnKeepers'
  BY <1>1 DEF RefsMoved, CitationsOnKeepers
<1> QED
  BY <1>7, <1>8, <1>9, <1>10 DEF RefsMoved

(* The commit: what it leaves cited is a keeper.                           *)
LEMMA RefsCommit ==
  ASSUME DedupInv, RefsMoved, NEW s \in Sources, Open(s), refs' = TxRefs(s),
         status' = [f \in FactIds |->
                     IF f \in dd[s].mark THEN "to_delete"
                     ELSE IF f \in dd[s].promote THEN "stable" ELSE status[f]],
         dd'[s] = IdleDd, \A r \in Sources : r # s => dd'[r] = dd[r]
  PROVE  RefsMoved'
<1>1. TypeOK /\ WorkingSet(s) /\ OneTx
  BY DEF DedupInv, TxInv, Open
<1>2. \A r \in Sources : ~Open(r)'
  BY <1>1 DEF Open, OneTx, IdleDd
<1>3. \A f \in dd[s].ws : status[f] \in {"new", "stable", "reaped"}
  BY <1>1 DEF WorkingSet
<1>4. TxRefs(s) \subseteq FactIds \X Sources \X Texts
  BY <1>1 DEF TxRefs, TypeOK, DdType
<1>5. ASSUME NEW q \in TxRefs(s)
      PROVE  status'[q[1]] \notin {"to_delete", "cleaned"}
  <2>1. q[1] \in FactIds /\ q[1] \notin dd[s].mark
    BY <1>4 DEF RefsMoved
  <2>2. status[q[1]] \notin {"to_delete", "cleaned"}
    BY <1>3 DEF RefsMoved, CitationsOnKeepers, TxRefs
  <2> QED
    BY <2>1, <2>2
<1>6. CitationsOnKeepers'
  BY <1>5 DEF CitationsOnKeepers
<1> QED
  BY <1>2, <1>6 DEF RefsMoved

(* Whatever step writes a citation writes it on a bare fact: then none is  *)
(* left on a duplicate.                                                    *)
LEMMA RefsMovedHolds ==
  ASSUME DedupInv, Holdings, RefsMoved, [Next]_vars,
         \A s \in Sources : CiteFact(s) => AllBare(s)
  PROVE  RefsMoved'
<1>1. TypeOK
  BY DEF DedupInv
<1>2. CASE UNCHANGED <<status, refs, dd>>
  BY <1>1, <1>2, RefsFrame DEF Open
<1>3. ASSUME NEW s \in Sources, PersistFact(s)
      PROVE  RefsMoved'
  <2>1. UNCHANGED <<refs, dd>> /\ \A f \in FactIds : status'[f] \in {status[f], "new"}
    BY <1>1, <1>3 DEF PersistFact, TypeOK
  <2> QED
    BY <1>1, <2>1, RefsFrame DEF Open
<1>4. ASSUME NEW s \in Sources, CiteFact(s)
      PROVE  RefsMoved'
  <2> DEFINE C == {g \in dec[s].cite : Live(g)}
  <2>1. /\ UNCHANGED <<status, dd>>
        /\ refs' = refs \cup {<<f, s, TextOf[f]>> : f \in C}
    BY <1>4 DEF CiteFact
  <2>2. C \in SUBSET FactIds /\ \A f \in C : <<f, s>> \in links
    BY <1>1 DEF TypeOK, DecType, Holdings
  <2>3. AllBare(s)
    BY <1>4
  <2> HIDE DEF C
  <2> QED
    BY <2>1, <2>2, <2>3, RefsCite
<1>5. ASSUME NEW s \in Sources,
             \/ DedupStart(s) \/ CompareSkips(s) \/ DedupPromote(s)
             \/ DedupCommit(s) \/ DedupRefused(s) \/ DedupDies(s)
      PROVE  RefsMoved'
  <2>1. \A r \in Sources : r # s => dd'[r] = dd[r]
    BY <1>5, PassSteps
  <2>2. CASE UNCHANGED <<status, refs>>
    <3>1. \/ dd'[s].pc = "idle"
          \/ dd'[s].mark = {} /\ dd'[s].refAdd = {}
          \/ /\ Open(s) /\ dd'[s].mark = dd[s].mark /\ dd'[s].ws = dd[s].ws
             /\ dd'[s].refDel = dd[s].refDel /\ dd'[s].refAdd = dd[s].refAdd
      BY <1>5, PassSteps DEF IdleDd
    <3>2. \A r \in Sources : Open(r)' =>
            \/ dd'[r].mark = {} /\ dd'[r].refAdd = {}
            \/ /\ Open(r) /\ dd'[r].mark = dd[r].mark /\ dd'[r].ws = dd[r].ws
               /\ dd'[r].refDel = dd[r].refDel /\ dd'[r].refAdd = dd[r].refAdd
      BY <2>1, <3>1 DEF Open
    <3> QED
      BY <1>1, <2>2, <3>2, RefsFrame
  <2>3. CASE /\ Open(s) /\ dd'[s] = IdleDd
             /\ status' = [f \in FactIds |->
                     IF f \in dd[s].mark THEN "to_delete"
                     ELSE IF f \in dd[s].promote THEN "stable" ELSE status[f]]
             /\ refs' = TxRefs(s)
    BY <2>1, <2>3, RefsCommit
  <2> QED
    BY <1>5, <2>2, <2>3, PassSteps
<1>6. CASE \/ \E x \in Sources : Cleanup(x) \/ CleanupDies(x)
           \/ AgePasses \/ Catchup \/ SweepDies
  <2>1. /\ UNCHANGED <<refs, dd>>
        /\ \A f \in FactIds : \/ status'[f] \notin {"to_delete", "cleaned"}
                              \/ status[f] \in {"to_delete", "cleaned"}
    BY <1>6, RemovalsTake
  <2> QED
    BY <1>1, <2>1, RefsFrame DEF Open
<1>7. ASSUME NEW s \in Sources, Decompose(s) \/ DecomposeDies(s)
      PROVE  RefsMoved'
  <2>1. CASE DecomposeStart(s) \/ DecomposeFinish(s) \/ DecomposeDies(s)
    BY <1>2, <2>1 DEF DecomposeStart, DecomposeFinish, DecomposeDies
  <2> QED
    BY <1>3, <1>4, <1>7, <2>1 DEF Decompose
<1>8. ASSUME NEW s \in Sources, Embed(s) \/ EmbedDies(s)
      PROVE  RefsMoved'
  BY <1>2, <1>8 DEF Embed, EmbedStart, EmbedUpsert, EmbedFinish, EmbedDies
<1>9. ASSUME NEW s \in Sources, Dedup(s) \/ DedupDies(s)
      PROVE  RefsMoved'
  BY <1>5, <1>9, RefsMerge DEF Dedup
<1>10. CASE UNCHANGED vars
  BY <1>2, <1>10 DEF vars
<1> QED
  BY <1>6, <1>7, <1>8, <1>9, <1>10 DEF Next, Dies

-----------------------------------------------------------------------------
(* Citations, whatever fails                                               *)

(* A source_decomposition job waits beside the embed_facts job of the same *)
(* source: its first attempt died between its chain insert and its         *)
(* completion, and will be repeated while its chain runs.                  *)
Overrun == \E s \in Sources :
              <<"decompose", s>> \in queued /\ <<"embed", s>> \in queued

Decomposing(s) == <<"decompose", s>> \in queued \/ dec[s].pc # "idle"

(* No embed_facts job of a source before its decomposition is through, so  *)
(* that its facts are bare until then.                                     *)
Once == \A s \in Sources :
           Decomposing(s) => <<"embed", s>> \notin queued /\ emb[s].pc = "idle"
BareTillThen == \A s \in Sources : Decomposing(s) => AllBare(s)

CiteInv == Holdings /\ Born /\ Once /\ BareTillThen /\ RefsMoved

(* Nothing puts a source back to its decomposition but an attempt that is  *)
(* still under way.                                                        *)
LEMMA DecomposingBefore ==
  ASSUME DedupInv, [Next]_vars, NEW s \in Sources, Decomposing(s)'
  PROVE  /\ Decomposing(s)
         /\ emb'[s] # emb[s] => Embed(s) \/ EmbedDies(s)
         /\ <<"embed", s>> \in queued' =>
               \/ <<"embed", s>> \in queued \/ EmbedDies(s)
               \/ <<"decompose", s>> \in queued'
<1>1. /\ dec \in [Sources -> DecType] /\ emb \in [Sources -> EmbType]
      /\ IdleDec.pc = "idle"
  BY DEF DedupInv, TypeOK, IdleDec
<1>2. CASE UNCHANGED <<dec, emb, queued>>
  BY <1>2 DEF Decomposing
<1>3. ASSUME NEW x \in Sources, Decompose(x) \/ DecomposeDies(x)
      PROVE  /\ Decomposing(s) /\ emb' = emb
             /\ <<"embed", s>> \in queued' =>
                   \/ <<"embed", s>> \in queued \/ <<"decompose", s>> \in queued'
  <2>1. emb' = emb /\ \A r \in Sources : r # x => dec'[r] = dec[r]
    BY <1>1, <1>3 DEF Decompose, DecomposeStart, PersistFact, CiteFact,
         DecomposeFinish, DecomposeDies
  <2>2. queued' \subseteq queued \cup {<<"decompose", x>>, <<"embed", x>>}
    BY <1>3 DEF Decompose, DecomposeStart, PersistFact, CiteFact,
         DecomposeFinish, DecomposeDies, Take, CompleteAndChain, RetryOrDiscard
  <2>3. CASE x # s
    BY <2>1, <2>2, <2>3 DEF Decomposing
  <2>4. CASE x = s
    <3>1. CASE DecomposeStart(s)
      <4>1. <<"decompose", s>> \in queued /\ queued' \subseteq queued
        BY <3>1 DEF DecomposeStart, Take
      <4> QED
        BY <2>1, <4>1 DEF Decomposing
    <3>2. CASE PersistFact(s) \/ CiteFact(s)
      <4>1. queued' = queued /\ dec'[s].pc = dec[s].pc
        <5>1. CASE PersistFact(s)
          <6>1. PICK t, f :
                  \/ dec' = [dec EXCEPT ![s].todo = @ \ {t}, ![s].cite = {f}]
                  \/ dec' = [dec EXCEPT ![s].todo = @ \ {t}]
            BY <5>1 DEF PersistFact
          <6> QED
            BY <1>1, <5>1, <6>1 DEF PersistFact, DecType
        <5>2. CASE CiteFact(s)
          BY <1>1, <5>2 DEF CiteFact, DecType
        <5> QED
          BY <3>2, <5>1, <5>2
      <4> QED
        BY <2>1, <4>1 DEF Decomposing
    <3>3. CASE DecomposeFinish(s)
      <4>1. dec[s].pc = "persist" /\ dec'[s].pc = "idle"
        BY <1>1, <3>3 DEF DecomposeFinish
      <4> QED
        BY <2>1, <4>1 DEF Decomposing
    <3>4. CASE DecomposeDies(s)
      <4>1. dec[s].pc = "persist" /\ dec'[s].pc = "idle"
        BY <1>1, <3>4 DEF DecomposeDies
      <4> QED
        BY <2>1, <4>1 DEF Decomposing
    <3> QED
      BY <1>3, <2>4, <3>1, <3>2, <3>3, <3>4 DEF Decompose
  <2> QED
    BY <2>1, <2>3, <2>4
<1>4. ASSUME NEW x \in Sources, Embed(x) \/ EmbedDies(x)
      PROVE  /\ dec' = dec
             /\ emb'[s] # emb[s] => x = s
             /\ queued' \subseteq queued \cup {<<"dedup", x>>, <<"embed", x>>}
             /\ <<"embed", s>> \in queued' =>
                   <<"embed", s>> \in queued \/ EmbedDies(s)
  <2>1. dec' = dec /\ \A r \in Sources : r # x => emb'[r] = emb[r]
    BY <1>1, <1>4 DEF Embed, EmbedStart, EmbedUpsert, EmbedFinish, EmbedDies
  <2>2. CASE Embed(x)
    <3>1. queued' \subseteq queued \cup {<<"dedup", x>>}
      BY <2>2 DEF Embed, EmbedStart, EmbedUpsert, EmbedFinish, CompleteAndChain
    <3> QED
      BY <2>1, <3>1
  <2>3. CASE EmbedDies(x)
    <3>1. queued' \subseteq queued \cup {<<"embed", x>>}
      BY <2>3 DEF EmbedDies, RetryOrDiscard
    <3> QED
      BY <2>1, <2>3, <3>1
  <2> QED
    BY <1>4, <2>2, <2>3
<1>5. ASSUME \/ \E x \in Sources : Dedup(x) \/ DedupDies(x)
             \/ \E x \in Sources : Cleanup(x) \/ CleanupDies(x)
             \/ AgePasses \/ Catchup \/ SweepDies
      PROVE  /\ UNCHANGED <<dec, emb>>
             /\ <<"decompose", s>> \in queued' => <<"decompose", s>> \in queued
             /\ <<"embed", s>> \in queued' => <<"embed", s>> \in queued
  <2>1. ASSUME NEW x \in Sources, Dedup(x) \/ DedupDies(x)
        PROVE  /\ UNCHANGED <<dec, emb>>
               /\ queued' \subseteq queued \cup {<<"cleanup", x>>, <<"dedup", x>>}
    BY <2>1 DEF Dedup, DedupStart, CompareSkips, CompareMerges, DedupPromote,
         DedupCommit, DedupRefused, DedupDies, Take, CompleteAndChain,
         RetryOrDiscard
  <2>2. ASSUME NEW x \in Sources, Cleanup(x) \/ CleanupDies(x)
        PROVE  /\ UNCHANGED <<dec, emb>>
               /\ queued' \subseteq queued \cup {<<"cleanup", x>>}
    BY <2>2 DEF Cleanup, CleanupStart, CleanupFinish, CleanupDies, Take,
         RetryOrDiscard
  <2>3. CASE AgePasses \/ Catchup \/ SweepDies
    BY <2>3, CatchupSteps DEF DedupInv
  <2>4. ASSUME NEW x \in Sources, Dedup(x) \/ DedupDies(x)
        PROVE  /\ UNCHANGED <<dec, emb>>
               /\ <<"decompose", s>> \in queued' => <<"decompose", s>> \in queued
               /\ <<"embed", s>> \in queued' => <<"embed", s>> \in queued
    BY <2>1, <2>4
  <2>5. ASSUME NEW x \in Sources, Cleanup(x) \/ CleanupDies(x)
        PROVE  /\ UNCHANGED <<dec, emb>>
               /\ <<"decompose", s>> \in queued' => <<"decompose", s>> \in queued
               /\ <<"embed", s>> \in queued' => <<"embed", s>> \in queued
    BY <2>2, <2>5
  <2> QED
    BY <1>5, <2>3, <2>4, <2>5
<1>6. ASSUME NEW x \in Sources, Decompose(x) \/ DecomposeDies(x)
      PROVE  /\ Decomposing(s)
             /\ emb'[s] # emb[s] => Embed(s) \/ EmbedDies(s)
             /\ <<"embed", s>> \in queued' =>
                   \/ <<"embed", s>> \in queued \/ EmbedDies(s)
                   \/ <<"decompose", s>> \in queued'
  BY <1>3, <1>6
<1>7. ASSUME NEW x \in Sources, Embed(x) \/ EmbedDies(x)
      PROVE  /\ Decomposing(s)
             /\ emb'[s] # emb[s] => Embed(s) \/ EmbedDies(s)
             /\ <<"embed", s>> \in queued' =>
                   \/ <<"embed", s>> \in queued \/ EmbedDies(s)
                   \/ <<"decompose", s>> \in queued'
  <2>1. <<"decompose", s>> \in queued' => <<"decompose", s>> \in queued
    BY <1>4, <1>7
  <2> QED
    <3>1. /\ dec' = dec
          /\ emb'[s] # emb[s] => x = s
          /\ <<"embed", s>> \in queued' => <<"embed", s>> \in queued \/ EmbedDies(s)
      BY <1>4, <1>7
    <3>2. CASE x = s
      BY <1>7, <2>1, <3>1, <3>2 DEF Decomposing
    <3>3. CASE x # s
      BY <2>1, <3>1, <3>3 DEF Decomposing
    <3> QED
      BY <3>2, <3>3
<1>8. ASSUME \/ \E x \in Sources : Dedup(x) \/ DedupDies(x)
             \/ \E x \in Sources : Cleanup(x) \/ CleanupDies(x)
             \/ AgePasses \/ Catchup \/ SweepDies
      PROVE  /\ Decomposing(s)
             /\ emb'[s] # emb[s] => Embed(s) \/ EmbedDies(s)
             /\ <<"embed", s>> \in queued' =>
                   \/ <<"embed", s>> \in queued \/ EmbedDies(s)
                   \/ <<"decompose", s>> \in queued'
  <2>1. /\ UNCHANGED <<dec, emb>>
        /\ <<"decompose", s>> \in queued' => <<"decompose", s>> \in queued
        /\ <<"embed", s>> \in queued' => <<"embed", s>> \in queued
    BY <1>5, <1>8
  <2> QED
    BY <2>1 DEF Decomposing
<1>9. CASE UNCHANGED vars
  BY <1>2, <1>9 DEF vars
<1> QED
  BY <1>6, <1>7, <1>8, <1>9 DEF Next, Dies

LEMMA CiteNext ==
  ASSUME DedupInv, CiteInv, [Next]_vars, ~Overrun'
  PROVE  CiteInv'
<1>1. Holdings /\ Born /\ Once /\ BareTillThen /\ RefsMoved /\ TypeOK
  BY DEF CiteInv, DedupInv
<1>2. Holdings' /\ Born'
  BY <1>1, HoldingsHold, BornHolds
<1>3. ASSUME NEW s \in Sources, Decomposing(s)'
      PROVE  /\ <<"embed", s>> \notin queued' /\ emb'[s].pc = "idle"
             /\ AllBare(s)'
  <2>1. Decomposing(s)
    BY <1>3, DecomposingBefore
  <2>2. <<"embed", s>> \notin queued /\ emb[s].pc = "idle" /\ AllBare(s)
    BY <1>1, <2>1 DEF Once, BareTillThen
  <2>3. ~Embed(s) /\ ~EmbedDies(s)
    BY <2>2 DEF Embed, EmbedStart, EmbedUpsert, EmbedFinish, EmbedDies
  <2>4. emb'[s] = emb[s]
    BY <1>3, <2>3, DecomposingBefore
  <2>5. <<"embed", s>> \notin queued'
    BY <1>3, <2>2, <2>3, DecomposingBefore DEF Overrun
  <2>6. AllBare(s)'
    BY <1>1, <2>2, <2>3, BareHolds DEF Embed
  <2> QED
    BY <2>2, <2>4, <2>5, <2>6
<1>4. Once' /\ BareTillThen'
  BY <1>3 DEF Once, BareTillThen
<1>5. ASSUME NEW s \in Sources, CiteFact(s)
      PROVE  AllBare(s)
  BY <1>1, <1>5 DEF CiteFact, Holdings, Decomposing, BareTillThen
<1>6. RefsMoved'
  BY <1>1, <1>5, RefsMovedHolds
<1> QED
  BY <1>2, <1>4, <1>6 DEF CiteInv

LEMMA CiteInit == Init => CiteInv
<1> SUFFICES ASSUME Init
             PROVE  CiteInv
  OBVIOUS
<1>1. /\ \A s \in Sources : /\ dec[s] = IdleDec /\ emb[s] = IdleEmb
                            /\ dd[s] = IdleDd
      /\ links = {} /\ refs = {}
      /\ \A f \in FactIds : status[f] = "none" /\ point[f] = "none"
      /\ \A s \in Sources : <<"embed", s>> \notin queued
  BY DEF Init
<1>2. Holdings /\ Born /\ Once
  BY <1>1 DEF Holdings, Born, Once, IdleDec, IdleEmb
<1>3. BareTillThen /\ RefsMoved
  BY <1>1 DEF BareTillThen, AllBare, RefsMoved, CitationsOnKeepers, Open, IdleDd
<1> QED
  BY <1>2, <1>3 DEF CiteInv

(* No citation is left on a duplicate, whatever calls fail, whichever jobs *)
(* die, are repeated or are given up, as long as no source_decomposition   *)
(* job dies between its chain insert and its completion and is repeated    *)
(* (CompleteAndChain, and the rescue of the task manager): until that job  *)
(* is through, its facts have no vector, and no pass can mark them.        *)
THEOREM CitationsUnlessOverrun ==
  Spec /\ [](~Overrun) => []CitationsOnKeepers
<1>1. Init => DedupInv /\ CiteInv
  BY InitInv, CiteInit
<1>2. DedupInv /\ CiteInv /\ [Next]_vars /\ ~Overrun /\ (~Overrun)'
        => (DedupInv /\ CiteInv)'
  BY NextInv, CiteNext
<1>3. CiteInv => CitationsOnKeepers
  BY DEF CiteInv, RefsMoved
<1> QED
  BY <1>1, <1>2, <1>3, PTL DEF Spec

-----------------------------------------------------------------------------
(* A step that makes no fact undecided and no duplicate, and takes no job  *)
(* away from one.                                                          *)
LEMMA OnTheWayFrame ==
  ASSUME OnTheWay, links \subseteq links',
         \A f \in FactIds : status'[f] = "new" =>
            \/ \E x \in Sources : <<f, x>> \in links' /\ Before(x)'
            \/ /\ status[f] = "new"
               /\ \A x \in SourcesOf(f) : ToDecide(f, x) => ToDecide(f, x)',
         \A f \in FactIds : status'[f] = "to_delete" =>
            /\ status[f] = "to_delete"
            /\ \A x \in SourcesOf(f) : ToRemove(f, x) => ToRemove(f, x)'
  PROVE  OnTheWay'
<1>1. \A f \in FactIds : SourcesOf(f) \subseteq SourcesOf(f)'
  BY DEF SourcesOf
<1>2. \A x \in Sources, f \in FactIds : Before(x)' => ToDecide(f, x)'
  BY DEF ToDecide
<1>3. ASSUME NEW f \in FactIds, status'[f] = "new"
      PROVE  \E x \in SourcesOf(f)' : ToDecide(f, x)'
  <2>1. CASE \E x \in Sources : <<f, x>> \in links' /\ Before(x)'
    BY <1>2, <2>1 DEF SourcesOf
  <2>2. CASE /\ status[f] = "new"
             /\ \A x \in SourcesOf(f) : ToDecide(f, x) => ToDecide(f, x)'
    <3>1. PICK x \in SourcesOf(f) : ToDecide(f, x)
      BY <2>2 DEF OnTheWay
    <3> QED
      BY <1>1, <2>2, <3>1
  <2> QED
    BY <1>3, <2>1, <2>2
<1>4. ASSUME NEW f \in FactIds, status'[f] = "to_delete"
      PROVE  \E x \in SourcesOf(f)' : ToRemove(f, x)'
  <2>1. PICK x \in SourcesOf(f) : ToRemove(f, x)
    BY <1>4 DEF OnTheWay
  <2> QED
    BY <1>1, <1>4, <2>1
<1> QED
  BY <1>3, <1>4 DEF OnTheWay

LEMMA OnTheWayDecompose ==
  ASSUME DedupInv, OnTheWay, Stages, Holdings, ~Fault,
         NEW s \in Sources, Decompose(s)
  PROVE  OnTheWay'
<1>1. TypeOK /\ dec[s] \in DecType
  BY DEF DedupInv, TypeOK
<1>2. /\ UNCHANGED <<emb, dd, cl>>
      /\ \A r \in Sources : r # s => dec'[r] = dec[r]
  BY <1>1, DecSteps
<1>3. \/ queued' = queued \ {<<"decompose", s>>}
      \/ queued' = queued
      \/ queued' = queued \cup {<<"embed", s>>}
  BY <1>1, DecSteps
<1>4. dec[s].cite # {} => dec[s].pc = "persist"
  BY <1>1 DEF Holdings, DecType
<1>5. Before(s) => Before(s)'
  <2>1. \/ dec[s].pc = "idle" /\ queued' = queued \ {<<"decompose", s>>}
        \/ /\ queued' = queued
           /\ dec'[s].pc = "persist" /\ (dec'[s].made \/ dec'[s].cite # {})
        \/ /\ dec[s].pc = "persist" /\ dec[s].cite = {}
           /\ queued' = IF dec[s].made THEN queued \cup {<<"embed", s>>}
                                       ELSE queued
    BY <1>1, <1>4, DecSteps
  <2> QED
    BY <1>2, <2>1 DEF Before
<1>6. \A x \in Sources : Before(x) => Before(x)'
  BY <1>2, <1>3, <1>5 DEF Before
<1>7. /\ \A x \in Sources, f \in FactIds : ToDecide(f, x) => ToDecide(f, x)'
      /\ \A x \in Sources, f \in FactIds : ToRemove(f, x) => ToRemove(f, x)'
  BY <1>2, <1>3, <1>6 DEF ToDecide, ToRemove, Open
<1>8. CASE UNCHANGED <<status, links>>
  BY <1>7, <1>8, OnTheWayFrame DEF SourcesOf
<1>9. CASE \E f \in FactIds :
             /\ dec'[s].pc = "persist" /\ dec'[s].cite = {f}
             /\ status' = [status EXCEPT ![f] = "new"]
             /\ links' = links \cup {<<f, s>>}
  <2>1. PICK f \in FactIds :
             /\ dec'[s].pc = "persist" /\ dec'[s].cite = {f}
             /\ status' = [status EXCEPT ![f] = "new"]
             /\ links' = links \cup {<<f, s>>}
    BY <1>9
  <2>2. Before(s)' /\ <<f, s>> \in links' /\ links \subseteq links'
    BY <2>1 DEF Before
  <2>3. \A g \in FactIds : status'[g] = "new" => status[g] = "new" \/ g = f
    BY <1>1, <2>1 DEF TypeOK
  <2>4. \A g \in FactIds : status'[g] = "to_delete" => status[g] = "to_delete"
    BY <1>1, <2>1 DEF TypeOK
  <2>5. \A g \in FactIds : SourcesOf(g) \subseteq Sources
    BY DEF SourcesOf
  <2> QED
    BY <1>7, <2>2, <2>3, <2>4, <2>5, OnTheWayFrame
<1> QED
  BY <1>1, <1>8, <1>9, DecSteps

LEMMA OnTheWayEmbed ==
  ASSUME DedupInv, OnTheWay, ~Fault, NEW s \in Sources, Embed(s)
  PROVE  OnTheWay'
<1>1. TypeOK
  BY DEF DedupInv
<1>2. /\ UNCHANGED <<status, links, dec, dd, cl>>
      /\ \A r \in Sources : r # s => emb'[r] = emb[r]
  BY <1>1, EmbSteps
<1>3. /\ queued \subseteq queued' \cup {<<"embed", s>>}
      /\ <<"dedup", s>> \in queued' \/ emb'[s].pc # "idle"
  BY <1>1, EmbSteps
<1>4. \A x \in Sources : Before(x) => Before(x)'
  BY <1>2, <1>3 DEF Before
<1>5. /\ \A x \in Sources, f \in FactIds : ToDecide(f, x) => ToDecide(f, x)'
      /\ \A x \in Sources, f \in FactIds : ToRemove(f, x) => ToRemove(f, x)'
  BY <1>2, <1>3, <1>4 DEF ToDecide, ToRemove, Open
<1> QED
  BY <1>2, <1>5, OnTheWayFrame DEF SourcesOf

LEMMA OnTheWayCleanup ==
  ASSUME DedupInv, OnTheWay, ~Fault, NEW s \in Sources, Cleanup(s)
  PROVE  OnTheWay'
<1>1. /\ UNCHANGED <<links, dec, emb, dd>>
      /\ \A r \in Sources : r # s => cl'[r] = cl[r]
      /\ queued \subseteq queued' \cup {<<"cleanup", s>>}
  BY CleanupSteps
<1>2. \A x \in Sources : Before(x) => Before(x)'
  BY <1>1 DEF Before
<1>3. \A x \in Sources, f \in FactIds : ToDecide(f, x) => ToDecide(f, x)'
  BY <1>1, <1>2 DEF ToDecide
<1>4. \A f \in FactIds : status'[f] \in {"new", "to_delete"} =>
         status[f] = status'[f]
  BY CleanupSteps
<1>5. ASSUME NEW f \in FactIds, status'[f] = "to_delete",
             NEW x \in SourcesOf(f), ToRemove(f, x)
      PROVE  ToRemove(f, x)'
  <2>1. x \in Sources /\ <<f, x>> \in links /\ status[f] = "to_delete"
    BY <1>4, <1>5 DEF SourcesOf
  <2>2. CASE x # s
    BY <1>1, <1>2, <1>5, <2>1, <2>2 DEF ToRemove, Open
  <2>3. CASE x = s /\ (Before(x) \/ Open(x))
    BY <1>1, <1>2, <2>1, <2>3 DEF ToRemove, Open
  <2>4. CASE x = s /\ (<<"cleanup", s>> \in queued \/ f \in cl[s].facts)
    <3>1. CASE \A g \in FactIds :
                 g \in cl'[s].facts <=>
                      status[g] = "to_delete" /\ <<g, s>> \in links
      BY <2>1, <2>4, <3>1 DEF ToRemove
    <3>2. CASE /\ queued' = queued
               /\ status' = [g \in FactIds |-> IF g \in cl[s].facts /\ Live(g)
                                                 THEN "cleaned" ELSE status[g]]
      BY <1>5, <2>1, <2>4, <3>2 DEF ToRemove, Live
    <3> QED
      BY <3>1, <3>2, CleanupSteps
  <2> QED
    BY <1>5, <2>2, <2>3, <2>4 DEF ToRemove
<1> QED
  BY <1>1, <1>3, <1>4, <1>5, OnTheWayFrame DEF SourcesOf

(* A pass of deduplicate_facts up to its commit.                           *)
LEMMA OnTheWayPass ==
  ASSUME DedupInv, OnTheWay, NEW s \in Sources,
         UNCHANGED <<status, links, dec, emb, cl>>,
         \A r \in Sources : r # s => dd'[r] = dd[r],
         \/ /\ dd[s].pc = "idle" /\ dd'[s].pc = "scan"
            /\ queued \subseteq queued' \cup {<<"dedup", s>>}
         \/ dd[s].pc = "scan" /\ dd'[s].pc = "scan" /\ queued' = queued
         \/ /\ dd[s].pc = "scan" /\ dd'[s].pc = "promoted" /\ queued' = queued
            /\ dd'[s].promote = {f \in FactIds \ dd'[s].mark :
                                    status[f] = "new" /\ Linked(f)}
         \/ dd[s].pc = "scan" /\ queued' = queued \cup {<<"dedup", s>>}
  PROVE  OnTheWay'
<1>1. \A x \in Sources : x # s => (Before(x) => Before(x)')
  BY DEF Before
<1>2. Before(s) => Before(s)' \/ dd'[s].pc = "scan"
  BY DEF Before
<1>3. ASSUME NEW f \in FactIds, status[f] = "new", NEW x \in SourcesOf(f),
             ToDecide(f, x)
      PROVE  ToDecide(f, x)'
  <2>1. x \in Sources /\ Linked(f)
    BY DEF SourcesOf, Linked
  <2>2. CASE x # s
    BY <1>1, <1>3, <2>1, <2>2 DEF ToDecide
  <2>3. CASE x = s
    <3>1. CASE Before(s)
      BY <1>2, <2>3, <3>1 DEF ToDecide
    <3>2. CASE dd[s].pc = "scan"
      BY <1>3, <2>1, <2>3, <3>2 DEF ToDecide, Before
    <3> QED
      BY <1>3, <2>3, <3>1, <3>2 DEF ToDecide
  <2> QED
    BY <2>2, <2>3
<1>4. ASSUME NEW f \in FactIds, NEW x \in SourcesOf(f), ToRemove(f, x)
      PROVE  ToRemove(f, x)'
  <2>1. x \in Sources
    BY DEF SourcesOf
  <2>2. <<"cleanup", x>> \in queued => <<"cleanup", x>> \in queued'
    OBVIOUS
  <2>3. Open(x) => Open(x)' \/ Before(x)'
    BY <2>1 DEF Open, Before
  <2>4. Before(x) => Before(x)' \/ Open(x)'
    BY <1>1, <1>2, <2>1 DEF Open
  <2> QED
    BY <1>4, <2>2, <2>3, <2>4 DEF ToRemove
<1> QED
  BY <1>3, <1>4, OnTheWayFrame DEF SourcesOf

(* The commit decides what the pass has read and what it has not, and the  *)
(* cleanup of its source follows.                                          *)
LEMMA OnTheWayCommit ==
  ASSUME DedupInv, OnTheWay, NEW s \in Sources,
         UNCHANGED <<dec, emb, cl>>, dd[s].pc = "promoted",
         \A r \in Sources : r # s => dd'[r] = dd[r],
         queued' = queued \cup {<<"cleanup", s>>},
         status' = [f \in FactIds |->
                     IF f \in dd[s].mark THEN "to_delete"
                     ELSE IF f \in dd[s].promote THEN "stable" ELSE status[f]],
         links \subseteq links'
  PROVE  OnTheWay'
<1>1. OneTx /\ Writes(s)
  BY DEF DedupInv, TxInv
<1>2. \A x \in Sources : Before(x) => Before(x)'
  BY DEF Before
<1>3. \A f \in FactIds : SourcesOf(f) \subseteq Sources
  BY DEF SourcesOf
<1>4. \A x \in Sources, f \in FactIds : ToRemove(f, x) => ToRemove(f, x)'
  BY <1>2 DEF ToRemove, Open
<1>5. ASSUME NEW f \in FactIds, status'[f] = "new"
      PROVE  \E x \in SourcesOf(f)' : ToDecide(f, x)'
  <2>1. f \notin dd[s].mark \cup dd[s].promote /\ status[f] = "new"
    BY <1>5
  <2>2. PICK x \in SourcesOf(f) : ToDecide(f, x)
    BY <2>1 DEF OnTheWay
  <2>3. ToDecide(f, x)'
    BY <1>2, <1>3, <2>1, <2>2 DEF ToDecide
  <2> QED
    BY <2>2, <2>3 DEF SourcesOf
<1>6. ASSUME NEW f \in FactIds, status'[f] = "to_delete"
      PROVE  \E x \in SourcesOf(f)' : ToRemove(f, x)'
  <2>1. CASE status[f] = "to_delete"
    <3>1. PICK x \in SourcesOf(f) : ToRemove(f, x)
      BY <2>1 DEF OnTheWay
    <3> QED
      BY <1>3, <1>4, <3>1 DEF SourcesOf
  <2>2. CASE f \in dd[s].mark
    <3>1. status[f] = "new"
      BY <1>1, <2>2 DEF Writes
    <3>2. PICK x \in SourcesOf(f) : ToDecide(f, x)
      BY <3>1 DEF OnTheWay
    <3>3. Before(x) \/ x = s
      BY <1>1, <1>3, <3>2 DEF ToDecide, OneTx
    <3>4. ToRemove(f, x)'
      BY <1>2, <1>3, <3>2, <3>3 DEF ToRemove
    <3> QED
      BY <3>2, <3>4 DEF SourcesOf
  <2> QED
    BY <1>6, <2>1, <2>2
<1> QED
  BY <1>5, <1>6 DEF OnTheWay

LEMMA OnTheWayHolds ==
  ASSUME DedupInv, CleanRun, ~Fault, NEW s \in Sources,
         \/ Decompose(s) \/ Embed(s) \/ Dedup(s) \/ Cleanup(s)
         \/ AgePasses \/ Catchup \/ SweepDies
  PROVE  OnTheWay'
<1>1. TypeOK /\ OnTheWay /\ Stages /\ Holdings
  BY DEF DedupInv, CleanRun
<1>2. CASE Decompose(s)
  BY <1>1, <1>2, OnTheWayDecompose
<1>3. CASE Embed(s)
  BY <1>1, <1>3, OnTheWayEmbed
<1>4. CASE CompareMerges(s)
  <2>1. UNCHANGED <<status, links, dec, emb, cl, queued>>
    BY <1>4, MergeSteps
  <2>2. /\ \A r \in Sources : r # s => dd'[r] = dd[r]
        /\ dd[s].pc = "scan" /\ dd'[s].pc = "scan"
    BY <1>4, MergeSteps
  <2> QED
    BY <1>1, <2>1, <2>2, OnTheWayPass
<1>5. CASE Dedup(s) /\ ~CompareMerges(s)
  <2>1. /\ UNCHANGED <<dec, emb, cl>>
        /\ \A r \in Sources : r # s => dd'[r] = dd[r]
    BY <1>1, <1>5, DedupSteps
  <2>2. CASE /\ dd[s].pc = "promoted"
             /\ queued' = queued \cup {<<"cleanup", s>>}
             /\ status' = [f \in FactIds |->
                     IF f \in dd[s].mark THEN "to_delete"
                     ELSE IF f \in dd[s].promote THEN "stable" ELSE status[f]]
             /\ links' = links \cup dd[s].linkAdd
    BY <1>1, <2>1, <2>2, OnTheWayCommit
  <2>3. CASE /\ UNCHANGED <<status, links>>
             /\ \/ /\ LockFree /\ dd'[s].pc = "scan"
                   /\ queued' = queued \ {<<"dedup", s>>}
                \/ /\ dd[s].pc = "scan" /\ dd'[s].pc \in {"scan", "promoted"}
                   /\ queued' = queued /\ dd'[s].mark = dd[s].mark
                   /\ dd'[s].pc = "promoted" =>
                        dd'[s].promote = {f \in FactIds \ dd[s].mark :
                                            status[f] = "new" /\ Linked(f)}
                \/ dd[s].pc = "scan" /\ queued' = queued \cup {<<"dedup", s>>}
    <3>1. LockFree => dd[s].pc = "idle"
      BY DEF LockFree
    <3> QED
      BY <1>1, <2>1, <2>3, <3>1, OnTheWayPass
  <2> QED
    BY <1>1, <1>5, <2>2, <2>3, DedupSteps
<1>6. CASE Cleanup(s)
  BY <1>1, <1>6, OnTheWayCleanup
<1>7. CASE AgePasses \/ Catchup \/ SweepDies
  <2>1. /\ UNCHANGED <<links, dec, emb, dd, cl, queued>>
        /\ \A f \in FactIds : status'[f] = status[f] \/ status'[f] = "reaped"
    BY <1>1, <1>7, CatchupSteps
  <2>2. /\ \A x \in Sources, f \in FactIds : ToDecide(f, x) => ToDecide(f, x)'
        /\ \A x \in Sources, f \in FactIds : ToRemove(f, x) => ToRemove(f, x)'
    BY <2>1 DEF ToDecide, ToRemove, Before, Open
  <2> QED
    BY <1>1, <2>1, <2>2, OnTheWayFrame DEF SourcesOf
<1> QED
  BY <1>2, <1>3, <1>4, <1>5, <1>6, <1>7

LEMMA CleanInit == Init => CleanRun
<1> SUFFICES ASSUME Init
             PROVE  CleanRun
  OBVIOUS
<1>1. /\ \A s \in Sources : /\ dec[s] = IdleDec /\ emb[s] = IdleEmb
                            /\ dd[s] = IdleDd /\ cl[s] = IdleCl
      /\ links = {} /\ refs = {}
      /\ \A f \in FactIds : status[f] = "none" /\ point[f] = "none"
      /\ \A s \in Sources : <<"embed", s>> \notin queued
  BY DEF Init
<1>2. Stages /\ Holdings
  BY <1>1 DEF Stages, Holdings, IdleDec, IdleEmb
<1>3. Untouched /\ Born
  BY <1>1 DEF Untouched, AllBare, Born, Open, IdleDd
<1>4. RefsMoved /\ OnTheWay /\ PointsGone
  BY <1>1 DEF RefsMoved, CitationsOnKeepers, OnTheWay, PointsGone, Open,
       IdleDd, IdleCl
<1> QED
  BY <1>2, <1>3, <1>4 DEF CleanRun

LEMMA CleanCatchup ==
  ASSUME DedupInv, CleanRun, AgePasses \/ Catchup \/ SweepDies
  PROVE  Stages' /\ Holdings'
<1>1. UNCHANGED <<links, dec, emb, queued>>
  BY CatchupSteps DEF DedupInv
<1> QED
  BY <1>1 DEF CleanRun, Stages, Holdings

LEMMA CleanNext ==
  ASSUME DedupInv, faults = 0 => CleanRun, [Next]_vars, faults' = 0
  PROVE  CleanRun'
<1>1. TypeOK /\ CleanRun /\ ~Fault
  BY FaultFree DEF DedupInv
<1>n. Born' /\ RefsMoved'
  <2>1. ASSUME NEW s \in Sources, CiteFact(s)
        PROVE  AllBare(s)
    BY <1>1, <2>1 DEF CiteFact, CleanRun, Holdings, Early, Untouched
  <2> QED
    BY <1>1, <2>1, BornHolds, RefsMovedHolds DEF CleanRun
<1>2. CASE UNCHANGED vars
  <2>1. /\ Stages' /\ Holdings' /\ Born' /\ PointsGone'
    BY <1>1, <1>2 DEF vars, CleanRun, Stages, Holdings, Born, PointsGone
  <2>2. Untouched'
    <3>1. /\ \A s \in Sources : Early(s)' <=> Early(s)
          /\ \A s \in Sources : Open(s)' <=> Open(s)
      BY <1>2 DEF vars, Early, Open
    <3>2. \A s \in Sources, f \in FactIds : Bare(f, s) => Bare(f, s)'
      BY <1>2 DEF vars, Bare, SourcesOf, Open
    <3> QED
      BY <1>1, <1>2, <3>1, <3>2 DEF vars, CleanRun, Untouched, AllBare
  <2>3. OnTheWay'
    <3>1. \A s \in Sources, f \in FactIds :
            /\ ToDecide(f, s) => ToDecide(f, s)'
            /\ ToRemove(f, s) => ToRemove(f, s)'
      BY <1>2 DEF vars, ToDecide, ToRemove, Before, Open
    <3> QED
      BY <1>1, <1>2, <3>1, OnTheWayFrame DEF vars, CleanRun, SourcesOf
  <2> QED
    BY <1>n, <2>1, <2>2, <2>3 DEF CleanRun
<1>3. ASSUME NEW s \in Sources,
             Decompose(s) \/ Embed(s) \/ Dedup(s) \/ Cleanup(s)
      PROVE  CleanRun'
  <2>1. Stages' /\ Holdings' /\ Untouched' /\ OnTheWay' /\ PointsGone'
    BY <1>1, <1>3, StagesHold, UntouchedHolds, OnTheWayHolds, PointsGoneHolds
    DEF CleanRun
  <2> QED
    BY <1>1, <1>n, <2>1 DEF CleanRun
<1>4. CASE AgePasses \/ Catchup \/ SweepDies
  <2>1. ASSUME NEW s \in Sources
        PROVE  CleanRun'
    <3>1. Stages' /\ Holdings' /\ Untouched' /\ OnTheWay' /\ PointsGone'
      BY <1>1, <1>4, CleanCatchup, UntouchedHolds, OnTheWayHolds,
         PointsGoneHolds DEF CleanRun
    <3> QED
      BY <1>1, <1>n, <3>1 DEF CleanRun
  <2>2. CASE Sources = {}
    <3>1. /\ UNCHANGED refs
          /\ \A f \in FactIds : point[f] = "none" => point'[f] = "none"
          /\ \A f \in FactIds : \/ status'[f] = status[f]
                                \/ Live(f) /\ status'[f] = "reaped"
      BY <1>1, <1>4, CatchupSteps
    <3>2. refs = {}
      BY <1>1, <2>2 DEF TypeOK
    <3>3. \A f \in FactIds : status[f] \notin {"new", "to_delete"}
      BY <1>1, <2>2 DEF CleanRun, OnTheWay, SourcesOf
    <3> QED
      BY <1>1, <2>2, <3>1, <3>2, <3>3 DEF CleanRun, Stages, Holdings, Untouched,
           Born, RefsMoved, CitationsOnKeepers, OnTheWay, PointsGone
  <2> QED
    BY <2>1, <2>2
<1>5. ASSUME NEW s \in Sources, Dies(s)
      PROVE  FALSE
  BY <1>1, <1>5, NoneDies
<1> QED
  BY <1>2, <1>3, <1>4, <1>5 DEF Next

LEMMA CleanInvariant == Spec => [](DedupInv /\ (faults = 0 => CleanRun))
<1>1. Init => DedupInv /\ (faults = 0 => CleanRun)
  BY InitInv, CleanInit
<1>2. DedupInv /\ (faults = 0 => CleanRun) /\ [Next]_vars
        => (DedupInv /\ (faults = 0 => CleanRun))'
  BY NextInv, CleanNext
<1> QED
  BY <1>1, <1>2, PTL DEF Spec

(* As long as no call has failed no citation is left on a duplicate: no    *)
(* attempt of source_decomposition cites a fact that a deduplicate_facts   *)
(* pass has already seen, and mergeSources moves what is there.            *)
THEOREM CitationsTheorem == Spec => [](faults = 0 => CitationsOnKeepers)
<1>1. DedupInv /\ (faults = 0 => CleanRun) => (faults = 0 => CitationsOnKeepers)
  BY DEF CleanRun, RefsMoved
<1> QED
  BY <1>1, CleanInvariant, PTL

LEMMA Drained ==
  ASSUME DedupInv, CleanRun, Quiescent, NEW f \in FactIds
  PROVE  /\ status[f] \notin {"new", "to_delete"}
         /\ point[f] # "none" => status[f] \in {"stable", "reaped"}
<1>1. ASSUME NEW s \in Sources
      PROVE  ~ToDecide(f, s) /\ ~ToRemove(f, s)
  BY DEF ToDecide, ToRemove, Before, Open, Quiescent, CleanRun, PointsGone
<1>2. status[f] \notin {"new", "to_delete"}
  BY <1>1 DEF CleanRun, OnTheWay, SourcesOf
<1>3. status[f] \in {"none", "cleaned"} => point[f] = "none"
  BY DEF CleanRun, Born, PointsGone
<1> QED
  BY <1>2, <1>3 DEF DedupInv, TypeOK

(* When all jobs are done and no call has failed, every fact is decided    *)
(* and every duplicate removed, whichever pass of whichever source marked  *)
(* it: Work of deduplicate_facts and cleanup_facts and what they chain to. *)
THEOREM DrainedFactsTheorem == Spec => []DrainedFacts
<1>1. DedupInv /\ (faults = 0 => CleanRun) => DrainedFacts
  BY Drained DEF DrainedFacts
<1> QED
  BY <1>1, CleanInvariant, PTL

(* While no fact gets older than dedup.catchup_max_age, fact_catchup has   *)
(* nothing to take.                                                        *)
Young == aged = {} /\ sweep.pc = "idle" /\ \A f \in FactIds : status[f] # "reaped"

LEMMA YoungNext ==
  ASSUME ~WeekPasses, TypeOK, Young, [Next]_vars
  PROVE  Young'
<1>1. CASE UNCHANGED vars
  BY <1>1 DEF vars, Young
<1>2. ASSUME NEW s \in Sources, Decompose(s) \/ DecomposeDies(s)
      PROVE  Young'
  <2>1. UNCHANGED <<aged, sweep>>
    BY <1>2 DEF Decompose, DecomposeStart, PersistFact, CiteFact,
         DecomposeFinish, DecomposeDies
  <2>2. \A f \in FactIds : status'[f] = status[f] \/ status'[f] = "new"
    BY <1>2 DEF Decompose, DecomposeStart, PersistFact, CiteFact,
         DecomposeFinish, DecomposeDies, TypeOK
  <2> QED
    BY <2>1, <2>2 DEF Young
<1>3. ASSUME NEW s \in Sources, Embed(s) \/ EmbedDies(s)
      PROVE  Young'
  BY <1>3 DEF Young, Embed, EmbedStart, EmbedUpsert, EmbedFinish, EmbedDies
<1>4. ASSUME NEW s \in Sources, Dedup(s) \/ DedupDies(s)
      PROVE  Young'
  <2>1. UNCHANGED <<aged, sweep>>
    BY <1>4 DEF Dedup, DedupStart, CompareSkips, CompareMerges, DedupPromote,
         DedupCommit, DedupRefused, DedupDies
  <2>2. \A f \in FactIds :
          status'[f] = status[f] \/ status'[f] \in {"stable", "to_delete"}
    BY <1>4 DEF Dedup, DedupStart, CompareSkips, CompareMerges, DedupPromote,
         DedupCommit, DedupRefused, DedupDies
  <2> QED
    BY <2>1, <2>2 DEF Young
<1>5. ASSUME NEW s \in Sources, Cleanup(s) \/ CleanupDies(s)
      PROVE  Young'
  <2>1. UNCHANGED <<aged, sweep>>
    BY <1>5 DEF Cleanup, CleanupStart, CleanupFinish, CleanupDies
  <2>2. \A f \in FactIds : status'[f] = status[f] \/ status'[f] = "cleaned"
    BY <1>5 DEF Cleanup, CleanupStart, CleanupFinish, CleanupDies
  <2> QED
    BY <2>1, <2>2 DEF Young
<1>6. CASE AgePasses \/ Catchup \/ SweepDies
  BY <1>6 DEF Young, AgePasses, Catchup, SweepSelect, SweepDelete, SweepPoints,
       SweepDies, Stale
<1> QED
  BY <1>1, <1>2, <1>3, <1>4, <1>5, <1>6 DEF Next, Dies

LEMMA YoungInvariant ==
  ASSUME ~WeekPasses
  PROVE  Spec => []Young
<1>1. Init => Young
  BY DEF Init, Young, IdleSweep
<1>2. TypeOK /\ Young /\ [Next]_vars => Young'
  BY YoungNext
<1> QED
  BY <1>1, <1>2, TypeCorrect, PTL DEF Spec

(* ... and Qdrant holds no point but those of stable facts, if no fact got *)
(* so old that fact_catchup took it between the listing of embed_facts and *)
(* its upsert: cleanup_facts deletes the points with the rows, and no      *)
(* upsert of embed_facts comes after that.                                 *)
THEOREM DrainedPointsTheorem ==
  ASSUME ~WeekPasses
  PROVE  Spec => []DrainedPoints
<1>1. DedupInv /\ (faults = 0 => CleanRun) /\ Young => DrainedPoints
  BY Drained DEF DrainedPoints, Young
<1> QED
  BY <1>1, CleanInvariant, YoungInvariant, PTL
=============================================================================
