---------------------------- MODULE FactPipeline ----------------------------
(***************************************************************************)
(* The life of the facts of one repository, from the extraction of a       *)
(* source to the removal of the duplicates: the River jobs                 *)
(* source_decomposition, embed_facts, deduplicate_facts and cleanup_facts, *)
(* one of each kind per source, and the daily fact_catchup sweep.  The     *)
(* jobs of different sources run concurrently against one Postgres         *)
(* database and one Qdrant collection; they share no other state.          *)
(*                                                                         *)
(* Every Postgres statement outside a transaction is one step.  The        *)
(* deduplicate_facts transaction keeps its writes to itself until it       *)
(* commits, while its Qdrant writes are visible at once.                   *)
(***************************************************************************)
EXTENDS Naturals, FiniteSets

CONSTANTS
    Sources,     \* the sources of the repository
    Texts,       \* the statements an extraction can yield
    FactIds,     \* the UUIDs CreateFact can draw, in UUID order
    TextOf,      \* the statement the row with that UUID is created for
    Yields,      \* the statements the extraction of each source yields
    Score,       \* cosine similarity of two statements; 0 is below threshold
    MaxFaults,   \* bound on failed calls, lost chain inserts and dead workers
    WeekPasses   \* whether facts may get older than dedup.catchup_max_age

ASSUME FactIdsAssumption == FactIds \subseteq Nat
ASSUME TextOfAssumption  == TextOf \in [FactIds -> Texts]
ASSUME YieldsAssumption  == Yields \in [Sources -> SUBSET Texts]
ASSUME ScoreAssumption   == Score \in [Texts \X Texts -> Nat]
ASSUME FaultsAssumption  == MaxFaults \in Nat /\ WeekPasses \in BOOLEAN

VARIABLES
    status,      \* facts.status, "none" before CreateFact; how the row went
    links,       \* fact_sources rows <<fact, source>>
    refs,        \* fact_references rows <<fact, source, sentence>>
    embedded,    \* the facts whose embedded_at is set
    point,       \* the Qdrant point of a fact: its status payload or "none"
    aged,        \* the facts created before the fact_catchup cutoff
    processed,   \* the sources MarkSourceProcessed has marked
    queued,      \* the waiting jobs <<kind, source>>
    dec,         \* the running source_decomposition job of each source
    emb,         \* the running embed_facts job of each source
    dd,          \* the running deduplicate_facts job of each source
    cl,          \* the running cleanup_facts job of each source
    sweep,       \* the running fact_catchup job
    faults       \* how much of MaxFaults is used

vars == <<status, links, refs, embedded, point, aged, processed, queued,
          dec, emb, dd, cl, sweep, faults>>

Kinds == {"decompose", "embed", "dedup", "cleanup"}

(* A row leaves the table through cleanup_facts ("cleaned") or through     *)
(* fact_catchup ("reaped").  Its fact_sources and fact_references rows     *)
(* cascade away; they stay in links and refs, where only the rows of Live  *)
(* facts can be read, so that the properties can speak of them.            *)
Live(f) == status[f] \in {"new", "stable", "to_delete"}
SourcesOf(f) == {s \in Sources : <<f, s>> \in links}
Linked(f) == SourcesOf(f) # {}

IdleDec == [pc |-> "idle", todo |-> {}, lost |-> FALSE, made |-> FALSE,
            cite |-> {}]
IdleEmb == [pc |-> "idle", facts |-> {}]
IdleDd  == [pc |-> "idle", ws |-> {}, stab |-> {}, todo |-> {}, mark |-> {},
            kept |-> {}, promote |-> {}, linkAdd |-> {}, refDel |-> {},
            refAdd |-> {}]
IdleCl  == [pc |-> "idle", facts |-> {}]
IdleSweep == [pc |-> "idle", facts |-> {}]

-----------------------------------------------------------------------------
(* Jobs                                                                    *)

Fault == faults < MaxFaults /\ faults' = faults + 1
NoFault == faults' = faults

(* The end of a job of source s: the next stage is inserted, or the insert *)
(* fails, is logged, and the chain stops there.                            *)
CompleteAndChain(kind, s) ==
    \/ queued' = queued \cup {<<kind, s>>} /\ NoFault
    \/ queued' = queued /\ Fault

(* A job returns an error, is cancelled by JobTimeout or dies with its     *)
(* worker: River (or the rescue of the task manager) makes it available    *)
(* again, unless its attempts are used up.                                 *)
RetryOrDiscard(kind, s) ==
    /\ Fault
    /\ \/ queued' = queued \cup {<<kind, s>>}
       \/ queued' = queued

Take(kind, s) ==
    /\ <<kind, s>> \in queued
    /\ queued' = queued \ {<<kind, s>>}

(* The rows the open transaction of a deduplicate_facts job has written,   *)
(* or has pinned through the foreign key of a row it inserted: a write of  *)
(* anyone else to one of them waits for the end of the transaction.        *)
LockedBy(s) == dd[s].mark \cup dd[s].kept \cup dd[s].promote
Locked == UNION {LockedBy(s) : s \in Sources}

-----------------------------------------------------------------------------
(* source_decomposition                                                    *)

(* Phase 1, the extraction: after the in-job retries some statements may   *)
(* still be lost with the chunks that keep failing.                        *)
DecomposeStart(s) ==
    /\ dec[s].pc = "idle"
    /\ Take("decompose", s)
    /\ \E got \in SUBSET Yields[s] :
          /\ IF got = Yields[s] THEN NoFault ELSE Fault
          /\ dec' = [dec EXCEPT ![s] = [pc |-> "persist", todo |-> got,
                        lost |-> got # Yields[s], made |-> FALSE,
                        cite |-> {}]]
    /\ UNCHANGED <<status, links, refs, embedded, point, aged, processed,
                   emb, dd, cl, sweep>>

(* Phase 2: CreateFact and AddFactSource are two statements.  When the     *)
(* second fails the row stays behind without a source.                     *)
PersistFact(s) ==
    /\ dec[s].pc = "persist" /\ dec[s].cite = {}
    /\ \E t \in dec[s].todo, f \in FactIds :
          /\ status[f] = "none" /\ TextOf[f] = t
          /\ status' = [status EXCEPT ![f] = "new"]
          /\ \/ /\ links' = links \cup {<<f, s>>}
                /\ dec' = [dec EXCEPT ![s].todo = @ \ {t}, ![s].cite = {f}]
                /\ NoFault
             \/ /\ links' = links
                /\ dec' = [dec EXCEPT ![s].todo = @ \ {t}]
                /\ Fault
    /\ UNCHANGED <<refs, embedded, point, aged, processed, queued,
                   emb, dd, cl, sweep>>

(* AddFactReference: the foreign key rejects the citation of a row that is *)
(* gone; the failure is logged.                                            *)
CiteFact(s) ==
    /\ dec[s].cite # {}
    /\ refs' = refs \cup {<<f, s, TextOf[f]>> : f \in {g \in dec[s].cite : Live(g)}}
    /\ dec' = [dec EXCEPT ![s].cite = {}, ![s].made = TRUE]
    /\ UNCHANGED <<status, links, embedded, point, aged, processed, queued,
                   emb, dd, cl, sweep, faults>>

(* The source is processed when no chunk is still failing.  The job        *)
(* chains to embed_facts when it made a fact, and is an error when every   *)
(* chunk failed.                                                           *)
DecomposeFinish(s) ==
    /\ dec[s].pc = "persist" /\ dec[s].cite = {} /\ dec[s].todo = {}
    /\ processed' = IF dec[s].lost THEN processed ELSE processed \cup {s}
    /\ dec' = [dec EXCEPT ![s] = IdleDec]
    /\ \/ dec[s].made /\ CompleteAndChain("embed", s)
       \/ ~dec[s].made /\ UNCHANGED <<queued, faults>>
       \/ ~dec[s].made /\ dec[s].lost /\ RetryOrDiscard("decompose", s)
    /\ UNCHANGED <<status, links, refs, embedded, point, aged,
                   emb, dd, cl, sweep>>

(* The job ends before it has chained, or between its chain insert and its *)
(* completion; a further attempt extracts everything once more.            *)
DecomposeDies(s) ==
    /\ dec[s].pc = "persist"
    /\ dec' = [dec EXCEPT ![s] = IdleDec]
    /\ Fault
    /\ \/ queued' = queued
       \/ queued' = queued \cup {<<"decompose", s>>}
       \/ /\ dec[s].made /\ dec[s].todo = {} /\ dec[s].cite = {}
          /\ queued' = queued \cup {<<"decompose", s>>, <<"embed", s>>}
    /\ UNCHANGED <<status, links, refs, embedded, point, aged, processed,
                   emb, dd, cl, sweep>>

-----------------------------------------------------------------------------
(* embed_facts                                                             *)

ToEmbed(s) == {f \in FactIds : /\ status[f] = "new" /\ <<f, s>> \in links
                               /\ f \notin embedded}

EmbedStart(s) ==
    /\ emb[s].pc = "idle"
    /\ <<"embed", s>> \in queued
    /\ IF ToEmbed(s) = {}
         THEN /\ \/ /\ queued' = (queued \ {<<"embed", s>>})
                                    \cup {<<"dedup", s>>}
                    /\ NoFault
                 \/ queued' = queued \ {<<"embed", s>>} /\ Fault
              /\ emb' = emb
         ELSE /\ queued' = queued \ {<<"embed", s>>}
              /\ emb' = [emb EXCEPT ![s] = [pc |-> "listed",
                                            facts |-> ToEmbed(s)]]
              /\ NoFault
    /\ UNCHANGED <<status, links, refs, embedded, point, aged, processed,
                   dec, dd, cl, sweep>>

(* The payload is the status the listing read, not the present one.        *)
EmbedUpsert(s) ==
    /\ emb[s].pc = "listed"
    /\ point' = [f \in FactIds |-> IF f \in emb[s].facts THEN "new"
                                                         ELSE point[f]]
    /\ emb' = [emb EXCEPT ![s].pc = "upserted"]
    /\ UNCHANGED <<status, links, refs, embedded, aged, processed, queued,
                   dec, dd, cl, sweep, faults>>

(* MarkFactEmbedded per fact, waiting for a row another transaction holds; *)
(* a row that is gone, or a call that fails, is logged and skipped.        *)
EmbedFinish(s) ==
    /\ emb[s].pc = "upserted"
    /\ emb[s].facts \cap Locked = {}
    /\ LET there == {f \in emb[s].facts : Live(f)}
       IN  \/ embedded' = embedded \cup there /\ CompleteAndChain("dedup", s)
           \/ /\ \E f \in there : embedded' = embedded \cup (there \ {f})
              /\ Fault
              /\ queued' = queued \cup {<<"dedup", s>>}
    /\ emb' = [emb EXCEPT ![s] = IdleEmb]
    /\ UNCHANGED <<status, links, refs, point, aged, processed,
                   dec, dd, cl, sweep>>

EmbedDies(s) ==
    /\ emb[s].pc # "idle"
    /\ emb' = [emb EXCEPT ![s] = IdleEmb]
    /\ RetryOrDiscard("embed", s)
    /\ UNCHANGED <<status, links, refs, embedded, point, aged, processed,
                   dec, dd, cl, sweep>>

-----------------------------------------------------------------------------
(* deduplicate_facts                                                       *)

(* mutant: mergeSources does not read what its transaction has inserted.   *)
TxSourcesCommitted(s, f) == SourcesOf(f)

(* What the open transaction of s sees.                                    *)
TxSources(s, f) == {r \in Sources : <<f, r>> \in links \cup dd[s].linkAdd}
TxRefs(s) == (refs \ dd[s].refDel) \cup dd[s].refAdd

(* mutant: no advisory lock.                                               *)
LockIgnored == TRUE

LockFree == \A s \in Sources : dd[s].pc = "idle"

(* BeginTx, pg_advisory_xact_lock on the repository, ListFactsForDedup.    *)
DedupStart(s) ==
    /\ LockFree
    /\ Take("dedup", s)
    /\ LET ws == {f \in FactIds : status[f] \in {"new", "stable"} /\ Linked(f)}
       IN  dd' = [dd EXCEPT ![s] = [IdleDd EXCEPT !.pc = "scan", !.ws = ws,
                     !.stab = {f \in ws : status[f] = "stable"},
                     !.todo = {f \in ws : status[f] = "new"}]]
    /\ UNCHANGED <<status, links, refs, embedded, point, aged, processed,
                   dec, emb, cl, sweep, faults>>

(* The nearest neighbours of f above the threshold: one of them is the     *)
(* single hit of SearchSimilarByID.  The filter is on the repository and   *)
(* on f itself, not on the status.                                         *)
Similar(f, g) == Score[TextOf[f], TextOf[g]]
Neighbours(f) == {g \in FactIds \ {f} : point[g] # "none" /\ Similar(f, g) > 0}
Nearest(f) == {g \in Neighbours(f) :
                  \A h \in Neighbours(f) : Similar(f, h) <= Similar(f, g)}

NextFact(s, f) == f \in dd[s].todo /\ \A g \in dd[s].todo : f <= g

(* No vector under the id of the fact (the search is an error), no hit,    *)
(* or a hit that is not in the working set or already marked.              *)
CompareSkips(s) ==
    /\ dd[s].pc = "scan"
    /\ \E f \in dd[s].todo :
          /\ NextFact(s, f)
          /\ \/ point[f] = "none" /\ NoFault
             \/ point[f] # "none" /\ Fault
             \/ Neighbours(f) = {} /\ NoFault
             \/ \E h \in Nearest(f) : h \notin dd[s].ws \ dd[s].mark /\ NoFault
          /\ dd' = [dd EXCEPT ![s].todo = @ \ {f}]
    /\ UNCHANGED <<status, links, refs, embedded, point, aged, processed,
                   queued, dec, emb, cl, sweep>>

(* mergeSources and MarkFactStatus: what the transaction writes when l     *)
(* loses against w.  A row that fact_catchup took meanwhile has no links   *)
(* and no references left, and marking it finds no row.                    *)
LoserSources(s, l) == IF Live(l) THEN TxSources(s, l) ELSE {}
(* mutant: the citations are not moved.                                    *)
LoserRefsStay(s, l) == {}
LoserRefs(s, l) == IF Live(l) THEN {r \in TxRefs(s) : r[1] = l} ELSE {}
NewLinks(s, l, w) == ({w} \X LoserSources(s, l))
                        \ (links \cup dd[s].linkAdd)
(* mutant: sentence and source change places.                              *)
MovedRefsSwapped(s, l, w) == {<<w, r[3], r[2]>> : r \in LoserRefs(s, l)}
MovedRefs(s, l, w) == {<<w, r[2], r[3]>> : r \in LoserRefs(s, l)}

Pins(s, l, w) == \/ NewLinks(s, l, w) # {}
                 \/ MovedRefs(s, l, w) \ TxRefs(s) # {}

(* The foreign key refuses to link a source to a winner that is gone.      *)
MergeRefused(s, l, w) == ~Live(w) /\ Pins(s, l, w)

Merged(s, f, l, w) ==
    [dd[s] EXCEPT !.todo = (@ \ {f}) \ (IF Live(l) THEN {l} ELSE {}),
                  !.mark = IF Live(l) THEN @ \cup {l} ELSE @,
                  !.kept = IF Pins(s, l, w) THEN @ \cup {w} ELSE @,
                  !.linkAdd = @ \cup NewLinks(s, l, w),
                  !.refDel = @ \cup LoserRefs(s, l),
                  !.refAdd = (@ \ LoserRefs(s, l)) \cup MovedRefs(s, l, w)]

(* mutant: the hit loses, stable or not.                                   *)
LoserHit(s, f, h) == h

(* A stable hit beats the fact; a new hit loses against it.                *)
Loser(s, f, h)  == IF h \in dd[s].stab THEN f ELSE h
Winner(s, f, h) == IF h \in dd[s].stab THEN h ELSE f

CompareMerges(s) ==
    /\ dd[s].pc = "scan"
    /\ \E f \in dd[s].todo : \E h \in Nearest(f) :
          LET l == Loser(s, f, h)
              w == Winner(s, f, h)
          IN  /\ NextFact(s, f) /\ point[f] # "none"
              /\ h \in dd[s].ws \ dd[s].mark
              /\ ~MergeRefused(s, l, w)
              /\ dd' = [dd EXCEPT ![s] = Merged(s, f, l, w)]
              /\ \/ /\ point' = [point EXCEPT ![l] =
                          IF @ = "none" \/ ~Live(l) THEN @ ELSE "to_delete"]
                    /\ NoFault
                 \/ point' = point /\ Live(l) /\ Fault
    /\ UNCHANGED <<status, links, refs, embedded, aged, processed, queued,
                   dec, emb, cl, sweep>>

(* MarkFactsStableByRepo takes every new fact of the repository with a     *)
(* source, in the working set or not; the payload follows for the working  *)
(* set.                                                                    *)
DedupPromote(s) ==
    /\ dd[s].pc = "scan" /\ dd[s].todo = {}
    /\ dd' = [dd EXCEPT ![s].pc = "promoted",
                 ![s].promote = {f \in FactIds \ dd[s].mark :
                                    status[f] = "new" /\ Linked(f)}]
    /\ LET survivors == {f \in dd[s].ws \ dd[s].stab : /\ f \notin dd[s].mark
                                                      /\ point[f] # "none"}
       IN  \E done \in SUBSET survivors :
              /\ IF done = survivors THEN NoFault ELSE Fault
              /\ point' = [f \in FactIds |-> IF f \in done THEN "stable"
                                                          ELSE point[f]]
    /\ UNCHANGED <<status, links, refs, embedded, aged, processed, queued,
                   dec, emb, cl, sweep>>

(* mutant: cleanup follows only a pass that has marked duplicates itself.  *)
DedupCommitChainsOwn(s) ==
    /\ dd[s].pc = "promoted"
    /\ status' = [f \in FactIds |->
                     IF f \in dd[s].mark THEN "to_delete"
                     ELSE IF f \in dd[s].promote THEN "stable" ELSE status[f]]
    /\ links' = links \cup dd[s].linkAdd
    /\ refs' = TxRefs(s)
    /\ dd' = [dd EXCEPT ![s] = IdleDd]
    /\ IF dd[s].mark # {} THEN CompleteAndChain("cleanup", s)
                          ELSE UNCHANGED <<queued, faults>>
    /\ UNCHANGED <<embedded, point, aged, processed, dec, emb, cl, sweep>>

(* The commit, then the chain.  Between dedup and cleanup stand the        *)
(* concept jobs (extract_concepts, embed_concepts), which touch none of    *)
(* this state: they are the time cleanup_facts waits.                      *)
DedupCommit(s) ==
    /\ dd[s].pc = "promoted"
    /\ status' = [f \in FactIds |->
                     IF f \in dd[s].mark THEN "to_delete"
                     ELSE IF f \in dd[s].promote THEN "stable" ELSE status[f]]
    /\ links' = links \cup dd[s].linkAdd
    /\ refs' = TxRefs(s)
    /\ dd' = [dd EXCEPT ![s] = IdleDd]
    /\ CompleteAndChain("cleanup", s)
    /\ UNCHANGED <<embedded, point, aged, processed, dec, emb, cl, sweep>>

(* Rollback: a statement fails, the commit fails or the worker dies.  The  *)
(* payloads already written to Qdrant stay as they are.                    *)
DedupDies(s) ==
    /\ dd[s].pc # "idle"
    /\ dd' = [dd EXCEPT ![s] = IdleDd]
    /\ RetryOrDiscard("dedup", s)
    /\ UNCHANGED <<status, links, refs, embedded, point, aged, processed,
                   dec, emb, cl, sweep>>

DedupRefused(s) ==
    /\ dd[s].pc = "scan"
    /\ \E f \in dd[s].todo : \E h \in Nearest(f) :
          /\ NextFact(s, f) /\ point[f] # "none"
          /\ h \in dd[s].ws \ dd[s].mark
          /\ MergeRefused(s, Loser(s, f, h), Winner(s, f, h))
    /\ dd' = [dd EXCEPT ![s] = IdleDd]
    /\ queued' = queued \cup {<<"dedup", s>>}
    /\ UNCHANGED <<status, links, refs, embedded, point, aged, processed,
                   dec, emb, cl, sweep, faults>>

-----------------------------------------------------------------------------
(* cleanup_facts                                                           *)

(* mutants: the rows go, the points stay; the list has every fact of the   *)
(* source, whatever its status.                                            *)
CleanupStartRowsOnly(s) ==
    /\ cl[s].pc = "idle"
    /\ Take("cleanup", s)
    /\ LET ids == {f \in FactIds : status[f] = "to_delete" /\ <<f, s>> \in links}
       IN  cl' = [cl EXCEPT ![s] = IF ids = {} THEN IdleCl
                                   ELSE [pc |-> "rows", facts |-> ids]]
    /\ UNCHANGED <<status, links, refs, embedded, point, aged, processed,
                   dec, emb, dd, sweep, faults>>
CleanupStartAll(s) ==
    /\ cl[s].pc = "idle"
    /\ Take("cleanup", s)
    /\ LET ids == {f \in FactIds : <<f, s>> \in links /\ Live(f)}
       IN  /\ point' = [f \in FactIds |-> IF f \in ids THEN "none"
                                                      ELSE point[f]]
           /\ cl' = [cl EXCEPT ![s] = IF ids = {} THEN IdleCl
                                      ELSE [pc |-> "rows", facts |-> ids]]
    /\ UNCHANGED <<status, links, refs, embedded, aged, processed,
                   dec, emb, dd, sweep, faults>>

(* The list of the source, then the Qdrant points, best effort.            *)
CleanupStart(s) ==
    /\ cl[s].pc = "idle"
    /\ Take("cleanup", s)
    /\ LET ids == {f \in FactIds : status[f] = "to_delete" /\ <<f, s>> \in links}
       IN  /\ \/ /\ point' = [f \in FactIds |-> IF f \in ids THEN "none"
                                                             ELSE point[f]]
                 /\ NoFault
              \/ point' = point /\ ids # {} /\ Fault
           /\ cl' = [cl EXCEPT ![s] = IF ids = {} THEN IdleCl
                                      ELSE [pc |-> "rows", facts |-> ids]]
    /\ UNCHANGED <<status, links, refs, embedded, aged, processed,
                   dec, emb, dd, sweep>>

(* DeleteFactByID of each row; a call that fails leaves its row.           *)
CleanupFinish(s) ==
    /\ cl[s].pc = "rows"
    /\ \E gone \in SUBSET cl[s].facts :
          /\ gone \cap Locked = {}
          /\ IF gone = cl[s].facts THEN NoFault ELSE Fault
          /\ status' = [f \in FactIds |-> IF f \in gone /\ Live(f)
                                            THEN "cleaned" ELSE status[f]]
          /\ embedded' = embedded \ gone
    /\ cl' = [cl EXCEPT ![s] = IdleCl]
    /\ UNCHANGED <<links, refs, point, aged, processed, queued,
                   dec, emb, dd, sweep>>

CleanupDies(s) ==
    /\ cl[s].pc = "rows"
    /\ cl' = [cl EXCEPT ![s] = IdleCl]
    /\ RetryOrDiscard("cleanup", s)
    /\ UNCHANGED <<status, links, refs, embedded, point, aged, processed,
                   dec, emb, dd, sweep>>

-----------------------------------------------------------------------------
(* fact_catchup, repository-wide, once a day                               *)

(* mutant: only duplicates get stale.                                      *)
StaleDuplicates == {f \in aged : status[f] = "to_delete"}
Stale == {f \in aged : status[f] \in {"to_delete", "new"}}

(* created_at falls behind the cutoff for every row there is.              *)
AgePasses ==
    /\ WeekPasses
    /\ aged # {f \in FactIds : Live(f)}
    /\ aged' = {f \in FactIds : Live(f)}
    /\ UNCHANGED <<status, links, refs, embedded, point, processed, queued,
                   dec, emb, dd, cl, sweep, faults>>

(* mutant: the points go before the rows.                                  *)
SweepSelectPointsFirst ==
    /\ sweep.pc = "idle" /\ Stale # {}
    /\ sweep' = [pc |-> "rows", facts |-> Stale]
    /\ point' = [f \in FactIds |-> IF f \in Stale THEN "none" ELSE point[f]]
    /\ UNCHANGED <<status, links, refs, embedded, aged, processed,
                   queued, dec, emb, dd, cl, faults>>

(* DeleteStaleFactsInDB is one statement, but under READ COMMITTED its     *)
(* subselect is evaluated on the snapshot of its start, while each row is  *)
(* deleted when its lock can be had, with no second look at its status.    *)
SweepSelect ==
    /\ sweep.pc = "idle" /\ Stale # {}
    /\ sweep' = [pc |-> "rows", facts |-> Stale]
    /\ UNCHANGED <<status, links, refs, embedded, point, aged, processed,
                   queued, dec, emb, dd, cl, faults>>

SweepDelete ==
    /\ sweep.pc = "rows"
    /\ sweep.facts \cap Locked = {}
    /\ LET gone == {f \in sweep.facts : Live(f)}
       IN  /\ status' = [f \in FactIds |-> IF f \in gone THEN "reaped"
                                                         ELSE status[f]]
           /\ sweep' = [pc |-> "points", facts |-> gone]
           /\ embedded' = embedded \ gone
           /\ aged' = aged \ gone
    /\ UNCHANGED <<links, refs, point, processed, queued, dec, emb, dd, cl,
                   faults>>

(* The points of the deleted rows, best effort.                            *)
SweepPoints ==
    /\ sweep.pc = "points"
    /\ \/ /\ point' = [f \in FactIds |-> IF f \in sweep.facts THEN "none"
                                                              ELSE point[f]]
          /\ NoFault
       \/ point' = point /\ Fault
    /\ sweep' = IdleSweep
    /\ UNCHANGED <<status, links, refs, embedded, aged, processed, queued,
                   dec, emb, dd, cl>>

(* The delete fails or its worker dies: the next day tries again.          *)
SweepDies ==
    /\ sweep.pc = "rows"
    /\ sweep' = IdleSweep
    /\ Fault
    /\ UNCHANGED <<status, links, refs, embedded, point, aged, processed,
                   queued, dec, emb, dd, cl>>

-----------------------------------------------------------------------------
(* retrieve_source has chained a source_decomposition job for each source. *)
Init ==
    /\ status = [f \in FactIds |-> "none"]
    /\ links = {} /\ refs = {}
    /\ embedded = {} /\ aged = {} /\ processed = {}
    /\ point = [f \in FactIds |-> "none"]
    /\ queued = {"decompose"} \X Sources
    /\ dec = [s \in Sources |-> IdleDec]
    /\ emb = [s \in Sources |-> IdleEmb]
    /\ dd = [s \in Sources |-> IdleDd]
    /\ cl = [s \in Sources |-> IdleCl]
    /\ sweep = IdleSweep
    /\ faults = 0

Decompose(s) == DecomposeStart(s) \/ PersistFact(s) \/ CiteFact(s)
                    \/ DecomposeFinish(s)
Embed(s) == EmbedStart(s) \/ EmbedUpsert(s) \/ EmbedFinish(s)
Dedup(s) == DedupStart(s) \/ CompareSkips(s) \/ CompareMerges(s)
                \/ DedupPromote(s) \/ DedupCommit(s) \/ DedupRefused(s)
Cleanup(s) == CleanupStart(s) \/ CleanupFinish(s)
Dies(s) == DecomposeDies(s) \/ EmbedDies(s) \/ DedupDies(s) \/ CleanupDies(s)
Catchup == SweepSelect \/ SweepDelete \/ SweepPoints

Next == \/ \E s \in Sources : Decompose(s) \/ Embed(s) \/ Dedup(s)
                                 \/ Cleanup(s) \/ Dies(s)
        \/ AgePasses \/ Catchup \/ SweepDies

Spec == Init /\ [][Next]_vars

(* River keeps fetching from every queue while a worker is up, the daily   *)
(* catch-up keeps running, and days pass.                                  *)
Fairness == /\ \A s \in Sources : /\ WF_vars(Decompose(s))
                                  /\ WF_vars(Embed(s))
                                  /\ WF_vars(Dedup(s))
                                  /\ WF_vars(Cleanup(s))
            /\ WF_vars(AgePasses) /\ WF_vars(Catchup)

FairSpec == Spec /\ Fairness

-----------------------------------------------------------------------------
(* Properties                                                              *)

DecType == [pc : {"idle", "persist"}, todo : SUBSET Texts, lost : BOOLEAN,
            made : BOOLEAN, cite : SUBSET FactIds]
EmbType == [pc : {"idle", "listed", "upserted"}, facts : SUBSET FactIds]
DdType  == [pc : {"idle", "scan", "promoted"}, ws : SUBSET FactIds,
            stab : SUBSET FactIds, todo : SUBSET FactIds,
            mark : SUBSET FactIds, kept : SUBSET FactIds,
            promote : SUBSET FactIds, linkAdd : SUBSET (FactIds \X Sources),
            refDel : SUBSET (FactIds \X Sources \X Texts),
            refAdd : SUBSET (FactIds \X Sources \X Texts)]
ClType  == [pc : {"idle", "rows"}, facts : SUBSET FactIds]

TypeOK ==
    /\ status \in [FactIds -> {"none", "new", "stable", "to_delete",
                               "cleaned", "reaped"}]
    /\ links \subseteq FactIds \X Sources
    /\ refs \subseteq FactIds \X Sources \X Texts
    /\ embedded \subseteq FactIds /\ aged \subseteq FactIds
    /\ point \in [FactIds -> {"none", "new", "stable", "to_delete"}]
    /\ processed \subseteq Sources
    /\ queued \subseteq Kinds \X Sources
    /\ dec \in [Sources -> DecType]
    /\ emb \in [Sources -> EmbType]
    /\ dd \in [Sources -> DdType]
    /\ cl \in [Sources -> ClType]
    /\ sweep \in [pc : {"idle", "rows", "points"}, facts : SUBSET FactIds]
    /\ faults \in 0..MaxFaults

(* A duplicate is given up only for a keeper that has all its sources:     *)
(* whatever is marked to_delete, or cleaned, some stable fact is linked to *)
(* every source it was linked to (or was, until fact_catchup took it).     *)
(* deduplicate_facts.go, mergeSources and the commit.                      *)
ProvenancePreserved ==
    \A f \in FactIds : status[f] \in {"to_delete", "cleaned"} =>
        \E w \in FactIds : /\ status[w] \in {"stable", "reaped"}
                           /\ SourcesOf(f) \subseteq SourcesOf(w)

(* Promotion is final: once stable, a fact is never marked a duplicate or  *)
(* cleaned.  Only the race of fact_catchup can take it.                    *)
StableIsFinal ==
    [][\A f \in FactIds : status[f] = "stable"
                            => status'[f] \in {"stable", "reaped"}]_vars

(* The pipeline implements the life cycle of FactLifecycle: to whoever     *)
(* reads Postgres, the whole deduplication pass of a source is one atomic  *)
(* decision, whatever runs at the same time or fails.                      *)
Lifecycle == INSTANCE FactLifecycle
                WITH sources <- [f \in FactIds |-> SourcesOf(f)]
LifecycleSpec == Lifecycle!Spec

(* The citations of a duplicate are moved to its keeper before it is given *)
(* up: none is left on a row that cleanup_facts deletes.  mergeSources,    *)
(* RelinkFactReferences.  Holds as long as no attempt of                   *)
(* source_decomposition is repeated while its chain runs.                  *)
CitationsOnKeepers ==
    \A r \in refs : status[r[1]] \notin {"to_delete", "cleaned"}

(* embedded_at promises a vector: a fact that has it and was not given up  *)
(* is never without its Qdrant point, whatever cleanup_facts, fact_catchup *)
(* and the retries of embed_facts do.                                      *)
EmbeddedHasVector ==
    \A f \in embedded : status[f] \in {"new", "stable"} => point[f] # "none"

Quiescent == /\ queued = {} /\ sweep.pc = "idle"
             /\ \A s \in Sources : /\ dec[s].pc = "idle" /\ emb[s].pc = "idle"
                                   /\ dd[s].pc = "idle" /\ cl[s].pc = "idle"

(* When all jobs are done and no call failed, every fact has been decided  *)
(* and every duplicate removed, although a source cleans only the facts    *)
(* linked to it and the dedup pass of another source may mark and promote  *)
(* its facts.                                                              *)
DrainedFacts ==
    Quiescent /\ faults = 0
        => \A f \in FactIds : status[f] \notin {"new", "to_delete"}

(* ... and Qdrant holds no point but those of stable facts, so that a      *)
(* search of a later pass cannot be answered by a fact that is gone.       *)
DrainedPoints ==
    Quiescent /\ faults = 0
        => \A f \in FactIds : point[f] # "none" => status[f] = "stable"

(* No fact stays undecided for ever, not even after a lost chain insert, a *)
(* discarded job or a failed link: fact_catchup is the safety net.         *)
FactsSettle ==
    \A f \in FactIds : status[f] \in {"new", "to_delete"}
                          ~> status[f] \in {"stable", "cleaned", "reaped"}

(* What docs/docs/reference/concepts/facts.md says of a stable fact.       *)
StableIsEmbedded ==
    \A f \in FactIds : status[f] = "stable" => point[f] # "none"

(* What docs/docs/reference/knowledge-flow/4-deduplication.md and the      *)
(* comment of DeduplicateFactsWorker.Work say of near duplicates.          *)
NoStableNearDuplicates ==
    \A f, g \in FactIds : status[f] = "stable" /\ status[g] = "stable"
                              /\ f # g => Similar(f, g) = 0
=============================================================================
