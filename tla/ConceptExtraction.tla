------------------------- MODULE ConceptExtraction --------------------------
(***************************************************************************)
(* The loop of an extract_concepts job.  It takes the oldest facts that    *)
(* are still to be named, a wave at a time, asks the LLM for their names   *)
(* in chunks, writes what it gets fact by fact, and goes on until there    *)
(* are none left or a wave has brought it no further.  Jobs of several     *)
(* sources run over one repository without knowing of each other.          *)
(*                                                                         *)
(* The answer to a chunk is its last: after the retries within the job.    *)
(* Facts are numbered in the order of their creation.                      *)
(***************************************************************************)
EXTENDS Naturals, FiniteSets, FiniteSetsExt

CONSTANTS
    Last,        \* the facts are 1..Last
    Empty,       \* the facts in which the LLM finds no name,
    Poison,      \* and those with which it fails to answer a chunk at all
    Passes,      \* the extract_concepts jobs
    WaveSize,    \* Concurrency x FactBatchSize
    ChunkSize,   \* FactBatchSize
    MaxAttempts, \* maxConceptAttempts
    MaxSetbacks  \* bound on transient failures, failing writes and crashes

ASSUME SizesAssumption == {WaveSize, ChunkSize, MaxAttempts} \subseteq Nat \ {0}
ASSUME PassesAssumption == IsFiniteSet(Passes)
ASSUME LoopBoundsAssumption == Last \in Nat /\ MaxSetbacks \in Nat

Backlog == 1..Last

VARIABLES
    named,       \* the facts that have a concept or a candidate
    attempts,    \* fact_concept_skips.attempts, 0 without a row
    run,         \* where each job is
    setbacks     \* how much of MaxSetbacks is used

loopVars == <<named, attempts, run, setbacks>>

(* The attempts that there are to be had.                                  *)
WaveBound == Last * MaxAttempts

(* wave: the facts listed; transient and permanent: those whose chunk has  *)
(* failed; todo: those to write; matched: whether the job has ever linked  *)
(* a fact.  For the properties, moved: whether this wave has changed       *)
(* anything; clean: whether nothing has failed in it; waves: how many such *)
(* waves the attempt has ended, counted to one more than WaveBound.        *)
Start == [pc |-> "fetch", wave |-> {}, transient |-> {}, permanent |-> {},
          todo |-> {}, matched |-> FALSE, moved |-> FALSE,
          clean |-> TRUE, waves |-> 0]

Setback == setbacks < MaxSetbacks /\ setbacks' = setbacks + 1
Smooth == setbacks' = setbacks

-----------------------------------------------------------------------------
FirstOf(F, n) == {f \in F : Cardinality({g \in F : g <= f}) <= n}

(* mutant: facts that have a concept are listed again.                     *)
ToNameAgain == {f \in Backlog : attempts[f] < MaxAttempts}
(* mutant: the attempts are counted and never looked at.                   *)
ToNameForever == Backlog \ named
(* mutant: a fact with a skip row is not listed, whatever its attempts.    *)
ToNameOnce == {f \in Backlog \ named : attempts[f] = 0}
(* ListStableFactsForConceptExtraction                                     *)
ToName == {f \in Backlog \ named : attempts[f] < MaxAttempts}

Fetch(j) ==
    /\ run[j].pc = "fetch"
    /\ LET wave == FirstOf(ToName, WaveSize)
       IN  run' = [run EXCEPT ![j] =
             IF wave = {} THEN [@ EXCEPT !.pc = "done"]
             ELSE [Start EXCEPT !.pc = "ask", !.wave = wave,
                                !.matched = run[j].matched,
                                !.waves = run[j].waves]]
    /\ UNCHANGED <<named, attempts, setbacks>>

(* The chunk of f: the facts of the wave by ChunkSize.                     *)
Rank(f, wave) == Cardinality({g \in wave : g < f})
Chunk(f, wave) ==
    {g \in wave : Rank(g, wave) \div ChunkSize = Rank(f, wave) \div ChunkSize}
Chunks(wave) == {Chunk(f, wave) : f \in wave}

(* runChunkWaveInto and its retries.  A chunk fails as a whole: for good   *)
(* when the answer cannot be used, or for the time being.                  *)
Answer(j) ==
    /\ run[j].pc = "ask"
    /\ \E out \in SUBSET Chunks(run[j].wave) :
         LET spoilt == {c \in Chunks(run[j].wave) \ out : c \cap Poison # {}}
         IN  /\ IF out = {} THEN Smooth ELSE Setback
             /\ run' = [run EXCEPT ![j].pc = "write",
                                   ![j].todo = run[j].wave,
                                   ![j].transient = UNION out,
                                   ![j].permanent = UNION spoilt,
                                   ![j].clean = (out = {})]
    /\ UNCHANGED <<named, attempts>>

(* recordSkip: for an answer that cannot be used and for one without names *)
Skips(j, f) == f \in run[j].permanent \/ f \in Empty

(* Phase 2 for one fact.  What the job counts as linked it counts when it  *)
(* has been written, before the commit: each of the two may fail.          *)
WriteFact(j) ==
    /\ run[j].pc = "write" /\ run[j].todo # {}
    /\ LET f == Min(run[j].todo)
           linked == f \notin run[j].transient /\ ~Skips(j, f)
                        /\ f \notin Empty
           skipped == f \notin run[j].transient /\ Skips(j, f)
       IN  \E written \in BOOLEAN : \E stored \in {FALSE, written} :
             /\ IF stored \/ ~(linked \/ skipped) THEN Smooth ELSE Setback
             /\ named' = IF linked /\ stored THEN named \cup {f} ELSE named
             /\ attempts' = IF skipped /\ stored
                              THEN [attempts EXCEPT ![f] = @ + 1]
                              ELSE attempts
             /\ run' = [run EXCEPT ![j].todo = @ \ {f},
                          ![j].matched = @ \/ (linked /\ written),
                          ![j].moved = @ \/ (stored /\ (linked \/ skipped)),
                          ![j].clean = @ /\ (stored \/ ~(linked \/ skipped))]

(* linkedOrSkipped: the counters of the job, not of the wave, and the      *)
(* failures of the wave, not its skips.                                    *)
GoesOn(j) == run[j].matched \/ run[j].permanent # {}

EndWave(j) ==
    /\ run[j].pc = "write" /\ run[j].todo = {}
    /\ run' = [run EXCEPT ![j].pc = IF GoesOn(j) THEN "fetch" ELSE "stuck",
                          ![j].waves = IF run[j].clean /\ @ <= WaveBound
                                            THEN @ + 1 ELSE @]
    /\ UNCHANGED <<named, attempts, setbacks>>

(* The context is cancelled or the worker dies; the job is run again.      *)
Dies(j) ==
    /\ run[j].pc \in {"fetch", "ask", "write"}
    /\ Setback
    /\ run' = [run EXCEPT ![j] = Start]
    /\ UNCHANGED <<named, attempts>>

-----------------------------------------------------------------------------
LoopInit ==
    /\ named = {} /\ attempts = [f \in Backlog |-> 0]
    /\ run = [j \in Passes |-> Start]
    /\ setbacks = 0

Step(j) == Fetch(j) \/ Answer(j) \/ WriteFact(j) \/ EndWave(j)

LoopNext == \E j \in Passes : Step(j) \/ Dies(j)

LoopSpec == LoopInit /\ [][LoopNext]_loopVars
(* A job that has a worker goes on.                                        *)
FairLoop == LoopSpec /\ \A j \in Passes : WF_loopVars(Step(j))

-----------------------------------------------------------------------------
(* Properties                                                              *)

Run == [pc : {"fetch", "ask", "write", "done", "stuck"},
        wave : SUBSET Backlog, transient : SUBSET Backlog,
        permanent : SUBSET Backlog, todo : SUBSET Backlog,
        matched : BOOLEAN, moved : BOOLEAN, clean : BOOLEAN,
        waves : 0..(WaveBound + 1)]

(* A fact is given up after MaxAttempts, and by as many answers too many   *)
(* as other jobs have listed it along with the one that brings the last.   *)
LoopTypeOK ==
    /\ named \subseteq Backlog
    /\ attempts \in [Backlog -> 0..(MaxAttempts + Cardinality(Passes) - 1)]
    /\ run \in [Passes -> Run] /\ setbacks \in 0..MaxSetbacks
    /\ \A j \in Passes : /\ run[j].todo \subseteq run[j].wave
                         /\ run[j].transient \cap run[j].permanent = {}

(* A job that finds nothing more to list leaves nothing behind: each fact  *)
(* has been named, or has had all its attempts, by this job or another     *)
(* (extract_concepts.go:433); and it stays so.                             *)
NoneLeftToName ==
    \A j \in Passes : run[j].pc = "done" =>
        \A f \in Backlog : f \in named \/ attempts[f] >= MaxAttempts

(* What makes the loop end, other jobs or not: no wave in which nothing    *)
(* fails is in vain.  Since it was listed, a fact of it has been named or  *)
(* has had an answer, so that there are no more of them than attempts to   *)
(* be had (ListStableFactsForConceptExtraction, RecordFactConceptSkip).    *)
NoWaveInVain == \A j \in Passes : run[j].waves <= WaveBound

(* Once the LLM answers again every job comes to its end, although it goes *)
(* on as long as its counters say that it has ever linked a fact: what it  *)
(* cannot name it gives up after MaxAttempts answers.                      *)
LoopEnds == \A j \in Passes : <>(run[j].pc \in {"done", "stuck"})

(* A job stops after a wave if, and only if, the wave has neither linked   *)
(* nor skipped a fact (extract_concepts.go:686).                           *)
StopsWhenStuck ==
    [][\A j \in Passes :
         run[j].pc = "write" /\ run'[j].pc \in {"fetch", "stuck"}
           /\ setbacks' = setbacks
         => (run'[j].pc = "stuck" <=> ~run[j].moved)]_loopVars
=============================================================================
