-------------------------- MODULE ConceptSummaries --------------------------
(***************************************************************************)
(* The summary slices of one concept and the summarize_concepts jobs that  *)
(* write them.  A job claims the concept through concepts.summarizing_at,  *)
(* reads which facts no slice covers, writes slice after slice, each after *)
(* a slow LLM call outside of any transaction, asks for a synthesis and    *)
(* releases the claim.  A claim older than the staleness window can be     *)
(* taken over, whether or not its owner is still at work.                  *)
(*                                                                         *)
(* Statements take no time against the window, LLM calls do.  Facts are    *)
(* numbered as they are linked.  A pass takes them by first_seen_at, which *)
(* may be another order, since links are copied with their dates when      *)
(* concepts merge: which facts make up a batch is left open.               *)
(***************************************************************************)
EXTENDS Naturals, FiniteSets, Sequences, FiniteSetsExt

CONSTANTS
    Workers,     \* what can run a summarize_concepts job over the concept
    MaxFacts,    \* bound on the facts linked to the concept
    Batch,       \* the batch size TierFor gives for a number of facts
    CallTime,    \* bound on an LLM call, its wait for capacity included
    Staleness,   \* summarization.lock_staleness
    MaxFaults    \* bound on failing calls, dying workers and repeated jobs

ASSUME NumbersAssumption == /\ MaxFacts \in Nat /\ MaxFaults \in Nat
                            /\ CallTime \in Nat /\ Staleness \in Nat
ASSUME BatchAssumption == Batch \in [0..MaxFacts -> Nat \ {0}]

VARIABLES
    linked,      \* the number of facts linked to the concept
    extracting,  \* the extract_concepts passes that have still to enqueue
    slices,      \* its concept_summaries rows, in the order of their creation
    claimed,     \* whether summarizing_at is set,
    age,         \* and how long it has been, up to Staleness + 1
    jobs,        \* the waiting summarize_concepts jobs that have the concept
    pass,        \* the pass of each worker over the concept
    asked,       \* the rows that were complete when a synthesis was last asked
    overtaken,   \* whether a pass has lost its claim while it was at work
    faults       \* how much of MaxFaults is used

vars == <<linked, extracting, slices, claimed, age, jobs, pass, asked,
          overtaken, faults>>

Facts == 1..MaxFacts
Rows == DOMAIN slices
CompleteRows == {r \in Rows : slices[r].complete}
OpenRows == Rows \ CompleteRows
Covered == UNION {slices[r].covered : r \in Rows}

(* todo: the facts to slice, and kept those of them that come first as the *)
(* facts of the open row; row and seq: that row, if any, and the next      *)
(* sequence_num; froze: hadComplete; since: the age of the LLM call.       *)
IdlePass == [pc |-> "idle", todo |-> {}, kept |-> {}, batch |-> 1, row |-> 0,
             seq |-> 0, froze |-> FALSE, since |-> 0]

Fault == faults < MaxFaults /\ faults' = faults + 1
NoFault == faults' = faults

Resting(v) == pass[v].pc = "idle"
(* For the properties: a pass is overtaken when another worker takes its   *)
(* stale claim over.  That lasts until no pass is under way: the one frees *)
(* the claim of the other, so that a third may come in.                    *)
Outlives(w) ==
    overtaken' = IF overtaken = "now" /\ \A v \in Workers \ {w} : Resting(v)
                   THEN "past" ELSE overtaken

-----------------------------------------------------------------------------
(* extract_concepts, or a job that it chains to, links stable facts.       *)
LinkFacts ==
    /\ linked < MaxFacts
    /\ linked' \in (linked + 1)..MaxFacts
    /\ extracting' = extracting + 1
    /\ UNCHANGED <<slices, claimed, age, jobs, pass, asked, overtaken, faults>>

(* enqueueSummarizeConcepts, at the end of the pass.                       *)
EnqueuePass ==
    /\ extracting > 0
    /\ extracting' = extracting - 1
    /\ jobs' = jobs + 1
    /\ UNCHANGED <<linked, slices, claimed, age, pass, asked, overtaken, faults>>

(* A job of the concept once more: enqueued by hand, or rescued by the     *)
(* task manager while its first execution goes on.                         *)
Requeue ==
    /\ Fault
    /\ jobs' = jobs + 1
    /\ UNCHANGED <<linked, extracting, slices, claimed, age, pass, asked,
                   overtaken>>

-----------------------------------------------------------------------------
(* The claim                                                               *)

(* mutant: the claim is not looked at.                                     *)
ClaimableAlways == TRUE
Stale == claimed /\ age > Staleness
Claimable == ~claimed \/ Stale

Claim(w) ==
    /\ pass[w].pc = "idle" /\ jobs > 0
    /\ Claimable
    /\ jobs' = jobs - 1
    /\ claimed' = TRUE /\ age' = 0
    /\ pass' = [pass EXCEPT ![w].pc = "claimed"]
    /\ overtaken' = IF Stale /\ \E v \in Workers : ~Resting(v)
                      THEN "now" ELSE overtaken
    /\ UNCHANGED <<linked, extracting, slices, asked, faults>>

(* The concept is skipped for good, not put off.                           *)
Skip(w) ==
    /\ pass[w].pc = "idle" /\ jobs > 0
    /\ \/ ~Claimable /\ NoFault
       \/ Fault
    /\ jobs' = jobs - 1
    /\ UNCHANGED <<linked, extracting, slices, claimed, age, pass, asked,
                   overtaken>>

(* The deferred release does not ask whose claim it is.                    *)
Release(w) ==
    /\ pass[w].pc = "release"
    /\ \/ claimed' = FALSE /\ age' = 0 /\ NoFault
       \/ UNCHANGED <<claimed, age>> /\ Fault
    /\ pass' = [pass EXCEPT ![w] = IdlePass]
    /\ Outlives(w)
    /\ UNCHANGED <<linked, extracting, slices, jobs, asked>>

-----------------------------------------------------------------------------
(* The pass                                                                *)

Uncovered == (1..linked) \ Covered

List(w) ==
    /\ pass[w].pc = "claimed"
    /\ pass' = [pass EXCEPT ![w].pc = IF Uncovered = {} THEN "release"
                                                        ELSE "listed",
                            ![w].todo = Uncovered]
    /\ UNCHANGED <<linked, extracting, slices, claimed, age, jobs, asked,
                   overtaken>>
    /\ NoFault

MaxSeq == Max({slices[r].seq : r \in Rows} \cup {0})

(* mutant: the number of the last slice once more.                         *)
LastSeq == MaxSeq
NextSeq == MaxSeq + 1

(* mutant: GetOpenSummary without its is_complete = FALSE.                 *)
LastRow == {r \in Rows : slices[r].seq = MaxSeq}
(* GetOpenSummary: the unique partial index allows one row at most.        *)
OpenRow == OpenRows

(* CountFactsForConceptSummary, ExistsCompleteSummary, GetOpenSummary and  *)
(* GetMaxSummarySequenceNum, at a stroke: only a second pass could come    *)
(* between the rows that they read.  Once a slice is complete, less than a *)
(* batch of new facts is left for a later pass.                            *)
Plan(w) ==
    /\ pass[w].pc = "listed"
    /\ LET batch == Batch[linked]
           open == IF OpenRow = {} THEN 0 ELSE CHOOSE r \in OpenRow : TRUE
           kept == IF open = 0 THEN {} ELSE slices[open].covered
       IN  IF CompleteRows # {} /\ Cardinality(pass[w].todo) < batch
             THEN pass' = [pass EXCEPT ![w].pc = "release"]
             ELSE pass' = [pass EXCEPT
                    ![w].pc = "call", ![w].since = 0, ![w].batch = batch,
                    ![w].row = open,
                    ![w].seq = IF open = 0 THEN NextSeq
                                           ELSE slices[open].seq,
                    ![w].kept = kept, ![w].todo = @ \cup kept]
    /\ UNCHANGED <<linked, extracting, slices, claimed, age, jobs, asked,
                   overtaken>>
    /\ NoFault

FullBatch(w) == Cardinality(pass[w].todo) >= pass[w].batch

(* mutant: the open slice's facts are appended to the new ones.            *)
NewFactsFirst(w) ==
    IF FullBatch(w)
      THEN {S \in kSubset(pass[w].batch, pass[w].todo) :
              \/ pass[w].todo \ pass[w].kept \subseteq S
              \/ S \subseteq pass[w].todo \ pass[w].kept}
      ELSE {pass[w].todo}
(* accumulated[:batchSize], the open slice's facts before the new ones; or *)
(* whatever there is, when that is less than a batch.                      *)
NextSlices(w) ==
    IF FullBatch(w)
      THEN {S \in kSubset(pass[w].batch, pass[w].todo) :
              pass[w].kept \subseteq S \/ S \subseteq pass[w].kept}
      ELSE {pass[w].todo}

(* upsertSlice: UpdateSummary of the open row by its id, or CreateSummary. *)
Upserted(w, slice) ==
    LET row == pass[w].row
        new(seq) == [seq |-> seq, complete |-> FullBatch(w),
                     covered |-> slice]
    IN  IF row = 0 THEN Append(slices, new(pass[w].seq))
                   ELSE [slices EXCEPT ![row] = new(@.seq)]

(* uq_concept_summaries_concept_open                                       *)
OneOpen(rows) == Cardinality({r \in DOMAIN rows : ~rows[r].complete}) <= 1

(* After a slice: on as long as there is a full batch.  No open remainder  *)
(* follows a complete slice.                                               *)
Advanced(w, slice, froze) ==
    LET rest == pass[w].todo \ slice
        more == Cardinality(rest) >= pass[w].batch
    IN  [pass[w] EXCEPT !.pc = IF more THEN "call" ELSE "chain",
                        !.todo = rest, !.kept = @ \ slice, !.row = 0,
                        !.seq = @ + 1, !.froze = @ \/ froze, !.since = 0]

(* mutant: a slice completed in place, from the open row, does not count.  *)
WriteFrozeNewOnly(w) ==
    /\ pass[w].pc = "call"
    /\ \E slice \in NextSlices(w) :
          /\ OneOpen(Upserted(w, slice))
          /\ slices' = Upserted(w, slice)
          /\ pass' = [pass EXCEPT
                ![w] = Advanced(w, slice, FullBatch(w) /\ @.row = 0)]
    /\ UNCHANGED <<linked, extracting, claimed, age, jobs, asked, overtaken,
                   faults>>

(* The call has an answer, and the slice is written unless the index       *)
(* refuses it, which ends the pass.                                        *)
Write(w) ==
    /\ pass[w].pc = "call"
    /\ \E slice \in NextSlices(w) :
          LET rows == Upserted(w, slice)
          IN  IF OneOpen(rows)
                THEN /\ slices' = rows
                     /\ pass' = [pass EXCEPT
                           ![w] = Advanced(w, slice, FullBatch(w))]
                ELSE /\ slices' = slices
                     /\ pass' = [pass EXCEPT ![w].pc = "release"]
    /\ UNCHANGED <<linked, extracting, claimed, age, jobs, asked, overtaken,
                   faults>>

(* A read, the call or the write fails: the pass ends, without a synthesis *)
(* even when it has completed a slice.                                     *)
Fails(w) ==
    /\ pass[w].pc \in {"claimed", "listed", "call"}
    /\ Fault
    /\ pass' = [pass EXCEPT ![w].pc = "release"]
    /\ UNCHANGED <<linked, extracting, slices, claimed, age, jobs, asked,
                   overtaken>>

(* enqueueSynthesizeConcept, after a pass that has completed a slice.      *)
Chain(w) ==
    /\ pass[w].pc = "chain"
    /\ \/ pass[w].froze /\ asked' = CompleteRows /\ NoFault
       \/ pass[w].froze /\ asked' = asked /\ Fault
       \/ ~pass[w].froze /\ asked' = asked /\ NoFault
    /\ pass' = [pass EXCEPT ![w].pc = "release"]
    /\ UNCHANGED <<linked, extracting, slices, claimed, age, jobs, overtaken>>

(* The claim stays; River may run the job again.                           *)
Crash(w) ==
    /\ pass[w].pc # "idle"
    /\ Fault
    /\ pass' = [pass EXCEPT ![w] = IdlePass]
    /\ jobs' \in {jobs, jobs + 1}
    /\ Outlives(w)
    /\ UNCHANGED <<linked, extracting, slices, claimed, age, asked>>

-----------------------------------------------------------------------------
Tick ==
    /\ \A w \in Workers : \/ pass[w].pc = "idle"
                          \/ pass[w].pc = "call" /\ pass[w].since < CallTime
    /\ age' = IF claimed /\ age <= Staleness THEN age + 1 ELSE age
    /\ pass' = [w \in Workers |-> IF pass[w].pc = "call"
                                    THEN [pass[w] EXCEPT !.since = @ + 1]
                                    ELSE pass[w]]
    /\ age' # age \/ pass' # pass
    /\ UNCHANGED <<linked, extracting, slices, claimed, jobs, asked, overtaken,
                   faults>>

Init ==
    /\ linked = 0 /\ extracting = 0 /\ slices = <<>>
    /\ claimed = FALSE /\ age = 0 /\ jobs = 0 /\ asked = {} /\ faults = 0
    /\ overtaken = "never"
    /\ pass = [w \in Workers |-> IdlePass]

Summarize(w) == Claim(w) \/ Skip(w) \/ List(w) \/ Plan(w) \/ Write(w)
                    \/ Fails(w) \/ Chain(w) \/ Release(w) \/ Crash(w)

Next == \/ LinkFacts \/ EnqueuePass \/ Requeue \/ Tick
        \/ \E w \in Workers : Summarize(w)

Spec == Init /\ [][Next]_vars

-----------------------------------------------------------------------------
(* Properties                                                              *)

PassType == [pc : {"idle", "claimed", "listed", "call", "chain", "release"},
             todo : SUBSET Facts, kept : SUBSET Facts, batch : Nat \ {0},
             row : Nat, seq : Nat, froze : BOOLEAN, since : 0..CallTime]
SliceType == [seq : Nat \ {0}, complete : BOOLEAN,
              covered : (SUBSET Facts) \ {{}}]

TypeOK ==
    /\ linked \in 0..MaxFacts /\ extracting \in 0..linked
    /\ slices \in Seq(SliceType)
    /\ claimed \in BOOLEAN /\ age \in 0..(Staleness + 1)
    /\ jobs \in Nat
    /\ pass \in [Workers -> PassType]
    /\ asked \subseteq Rows /\ overtaken \in {"never", "now", "past"}
    /\ faults \in 0..MaxFaults

(* A fact appears in exactly one summary of the concept, and slices have   *)
(* sequence numbers of their own, although no constraint of the table says *)
(* so (0026_concept_summaries.up.sql, covered_fact_ids), nor is a claim    *)
(* ever renewed.  Nothing else can undo that than a pass which works on    *)
(* after its claim has gone stale, and is overtaken.                       *)
SlicesDisjoint ==
    overtaken = "never" =>
        \A q, r \in Rows :
            q # r => /\ slices[q].covered \cap slices[r].covered = {}
                     /\ slices[q].seq # slices[r].seq

(* A complete slice is never touched again, although UpdateSummary takes   *)
(* any row by its id, unless by one of several passes under way: when they *)
(* have ended, whatever they have left, it is so again.                    *)
FrozenForever ==
    [][overtaken = "now" \/ \A r \in CompleteRows : slices'[r] = slices[r]]_vars

(* To its readers the table is the log of SliceLog, whatever passes do and *)
(* whoever else runs one, as long as none is overtaken: no slice is        *)
(* rewritten but the open one, which loses no fact although a pass         *)
(* replaces its facts by what it has read, unless the tiers give the       *)
(* concept a batch that it exceeds.                                        *)
Log == INSTANCE SliceLog
LogSpec == Log!Init /\ [][overtaken # "never" \/ Log!Next]_slices

Quiescent == /\ extracting = 0 /\ jobs = 0
             /\ \A w \in Workers : Resting(w)

(* When no call has failed, no pass was overtaken and no job is left, a    *)
(* synthesis has been asked for every complete slice, whether it was       *)
(* created full or completed from the open one, in the first pass or in    *)
(* one that had waited for a batch.                                        *)
SynthesisAsked ==
    Quiescent /\ faults = 0 /\ overtaken = "never" => CompleteRows \subseteq asked
=============================================================================
