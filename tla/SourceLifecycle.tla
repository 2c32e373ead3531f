-------------------------- MODULE SourceLifecycle ---------------------------
(***************************************************************************)
(* One source row of a repository, from its first fetch to its processed   *)
(* state: the retrieve_source and source_decomposition jobs on it, and the *)
(* requests that upload, retry, process, reprocess or delete it.  Every    *)
(* statement commits by itself; jobs for one URL are not deduplicated and  *)
(* run side by side.                                                       *)
(*                                                                         *)
(* A text is its edition: the page behind a URL may change from one fetch  *)
(* to the next.  The chunks of an edition are numbers, the indices that    *)
(* chunk_errors keeps.  Of images it matters only that a source without    *)
(* text can be decomposed for them; other metadata is left out.            *)
(***************************************************************************)
EXTENDS Naturals, FiniteSets

CONSTANTS
    Actors,      \* what runs at a time: jobs and requests
    MaxEdition,  \* bound on the editions of the page
    ChunksOf,    \* the chunks that a decomposition makes of each edition
    Wordless,    \* the editions that are Markdown only, without parsed_text,
    Unsegmented, \* and those in which no sentence is found
    MaxRows,     \* bound on the rows made for the URL
    MaxRequests, \* bound on the requests
    MaxFaults    \* bound on failing statements and dying workers

Editions == 1..MaxEdition
AllChunks == UNION {ChunksOf[e] : e \in Editions}

ASSUME BoundsAssumption ==
    {MaxEdition, MaxRows, MaxRequests, MaxFaults} \subseteq Nat /\ MaxEdition > 0
ASSUME ChunksAssumption ==
    DOMAIN ChunksOf = Editions /\ \A e \in Editions \cap Wordless : ChunksOf[e] = {}

VARIABLES
    url,         \* "web", or "upload" for an uploaded file
    row,         \* the row of okt_repository.sources; its id is 0 without one
    made,        \* how many rows there have been
    extracted,   \* the chunks, by edition, whose facts are linked to the row
    lost,        \* and those of which a fact could not be written
    act,         \* what each actor is at
    waived,      \* whether the row was last marked as processed for want of
                 \* a fact extractor
    failed,      \* whether a statement has failed, or a job was given up
    overlapped,  \* whether two jobs have persisted a fetch at a time
    crossed,     \* whether a text was replaced under a decomposition
    faults,      \* how much of MaxFaults is used
    asked        \* how many requests there have been

vars == <<url, row, made, extracted, lost, act, waived, failed, overlapped,
          crossed, faults, asked>>

ChunksIn(text) == IF text = 0 THEN {} ELSE ChunksOf[text]
HasWords(text) == text \notin {0} \cup Wordless
HasSentences(text) == text \notin {0} \cup Unsegmented

(* text and offsets: an edition, 0 for NULL.                               *)
NoRow == [id |-> 0, status |-> "none", text |-> 0, offsets |-> 0,
          failures |-> {}]
(* mutant: a new row has the id of the one before.                         *)
OldRow(status) == [NoRow EXCEPT !.id = made, !.status = status]
NewRow(status) == [NoRow EXCEPT !.id = made + 1, !.status = status]

(* page: what was fetched; todo: RetryChunkIndices, or all chunks; text:   *)
(* the edition that was read; bad: the chunks that failed.                 *)
Idle == [op |-> "idle", pc |-> "idle", id |-> 0, process |-> FALSE,
         page |-> 0, todo |-> {}, text |-> 0, bad |-> {}]
Retrieval(process) == [Idle EXCEPT !.op = "retrieve", !.pc = "fetch",
                                   !.process = process]
Decomposition(id, todo) == [Idle EXCEPT !.op = "decompose", !.pc = "read",
                                        !.id = id, !.todo = todo]

Becomes(a, next) == act' = [act EXCEPT ![a] = next]
Goes(a, pc) == act' = [act EXCEPT ![a].pc = pc]
Ends(a) == Becomes(a, Idle)
At(a, op, pc) == act[a].op = op /\ act[a].pc = pc
(* An error of the job: River runs it again or discards it.                *)
Errs(a) == Ends(a) \/ Becomes(a, IF act[a].op = "retrieve"
                                   THEN Retrieval(act[a].process)
                                   ELSE Decomposition(act[a].id, act[a].todo))

Fine == UNCHANGED <<failed, faults>>
Fault == faults < MaxFaults /\ faults' = faults + 1 /\ failed' = TRUE

Found(a) == row.id = act[a].id /\ row.id # 0
(* An UPDATE ... RETURNING of the actor's row, and what it sets.           *)
Updates(a, new) == Found(a) /\ Fine /\ row' = new
(* The row is gone, or the statement fails.                                *)
Misses(a) == /\ \/ ~Found(a) /\ Fine
                \/ Fault
             /\ UNCHANGED row

Persists(a) == /\ act[a].op = "retrieve"
               /\ act[a].pc \in {"mark", "fetched", "parse", "offsets",
                                 "failed", "unparse"}

(* The text is replaced under a decomposition, or under its outcome.       *)
Crossing(text) ==
    /\ text # row.text
    /\ \/ row.failures # {} \/ row.status = "processed"
       \/ \E o \in Actors : /\ act[o].op = "decompose"
                            /\ act[o].pc # "read" \/ act[o].todo # AllChunks

-----------------------------------------------------------------------------
(* Requests                                                                *)

Asks(a, job) == act[a] = Idle /\ Becomes(a, job)
RowsAlone == UNCHANGED <<url, made, extracted, lost, waived, overlapped, crossed>>

(* EnqueueRetrieveSource, the MCP tool, or a search result.                *)
EnqueueRetrieveSource(a, process) ==
    /\ url = "web" /\ Asks(a, Retrieval(process))
    /\ RowsAlone /\ Fine /\ UNCHANGED row

(* The row of a homepage, say: nothing is fetched yet.                     *)
CreateSource(a) ==
    /\ url = "web" /\ act[a] = Idle /\ row.id = 0 /\ made < MaxRows
    /\ row' = NewRow("pending") /\ made' = made + 1
    /\ Fine
    /\ UNCHANGED <<url, extracted, lost, act, waived, overlapped, crossed>>

UploadSource(a) ==
    /\ url = "upload" /\ row.id = 0 /\ made < MaxRows
    /\ Asks(a, [Idle EXCEPT !.op = "upload", !.pc = "parse", !.id = made + 1,
                            !.page = 1])
    /\ row' = NewRow("fetched") /\ made' = made + 1
    /\ Fine /\ UNCHANGED <<url, extracted, lost, waived, overlapped, crossed>>

ProcessSource(a) ==
    /\ row.status = "fetched" /\ row.text # 0
    /\ Asks(a, Decomposition(row.id, AllChunks))
    /\ RowsAlone /\ Fine /\ UNCHANGED row

ReprocessSource(a) ==
    /\ row.failures # {}
    /\ Asks(a, Decomposition(row.id, row.failures))
    /\ RowsAlone /\ Fine /\ UNCHANGED row

(* What it does once it has found the row failed: the job it asks for does *)
(* not process the source, whatever the failed one was to do.              *)
RetrySource(a) ==
    /\ row.status = "failed" /\ url = "web"
    /\ Asks(a, [Idle EXCEPT !.op = "retry", !.pc = "reset", !.id = row.id])
    /\ RowsAlone /\ Fine /\ UNCHANGED row

ResetSourceForRetry(a) ==
    /\ At(a, "retry", "reset")
    /\ \/ Updates(a, [row EXCEPT !.status = "pending"]) /\ Goes(a, "enqueue")
       \/ Misses(a) /\ Ends(a)
    /\ RowsAlone

EnqueueRetry(a) ==
    /\ At(a, "retry", "enqueue")
    /\ \/ Becomes(a, Retrieval(FALSE)) /\ Fine
       \/ Ends(a) /\ Fault
    /\ RowsAlone /\ UNCHANGED row

(* The facts stay, without their links to the source.                      *)
DeleteSource(a) ==
    /\ act[a] = Idle /\ row.id # 0
    /\ row' = NoRow /\ extracted' = {} /\ lost' = {}
    /\ Fine /\ UNCHANGED <<url, made, act, waived, overlapped, crossed>>

-----------------------------------------------------------------------------
(* retrieve_source                                                         *)

(* The registry has the source, or the page is fetched, with a text or     *)
(* without, or it is not.                                                  *)
Fetch(a) ==
    /\ act[a].op = "retrieve" /\ act[a].pc \in {"fetch", "page"}
    /\ \/ act[a].pc = "fetch" /\ act' = [act EXCEPT ![a].pc = "import"]
       \/ act' = [act EXCEPT ![a].pc = "error"]
       \/ \E e \in {0} \cup Editions :
             act' = [act EXCEPT ![a].pc = "create", ![a].page = e]
    /\ RowsAlone /\ Fine /\ UNCHANGED row

(* persistSource and importFromRegistry: the row of the URL, new or old.   *)
After(pc) == CASE pc = "import" -> "imported"
               [] pc = "error"  -> "unfetched"
               [] pc = "create" -> "mark"

NotPersisted(a) == IF act[a].process /\ act[a].pc \notin {"error", "unfetched"}
                     THEN Errs(a) ELSE Ends(a)

CreateOrLookup(a) ==
    /\ act[a].op = "retrieve" /\ act[a].pc \in {"import", "error", "create"}
    /\ \/ /\ row.id # 0 \/ made < MaxRows
          /\ row' = IF row.id = 0 THEN NewRow("fetching") ELSE row
          /\ made' = IF row.id = 0 THEN made + 1 ELSE made
          /\ act' = [act EXCEPT ![a].pc = After(@), ![a].id = row'.id]
          /\ Fine
       \/ Fault /\ UNCHANGED <<row, made>>
          /\ IF act[a].pc = "import" THEN Goes(a, "page") ELSE NotPersisted(a)
    /\ overlapped' = (overlapped \/ \E o \in Actors \ {a} : Persists(o))
    /\ UNCHANGED <<url, extracted, lost, waived, crossed>>

MarkSourceFetching(a) ==
    /\ act[a].op = "retrieve" /\ act[a].pc \in {"mark", "unfetched"}
    /\ \/ /\ Updates(a, [row EXCEPT !.status = "fetching"])
          /\ Goes(a, IF act[a].pc = "mark" THEN "fetched" ELSE "failed")
       \/ Misses(a) /\ NotPersisted(a)
    /\ RowsAlone

(* mutant: a fetch that failed leaves the status to the next one.          *)
LeftToNext == row
FailedRow == [row EXCEPT !.status = "failed"]

MarkSourceFailed(a) ==
    /\ At(a, "retrieve", "failed")
    /\ \/ Updates(a, FailedRow) /\ Goes(a, "unparse")
       \/ Misses(a) /\ Ends(a)
    /\ RowsAlone

(* A registry import that cannot mark the row falls through to the fetch.  *)
MarkSourceFetched(a) ==
    /\ act[a].op = "retrieve" /\ act[a].pc \in {"fetched", "imported"}
    /\ \/ /\ Updates(a, [row EXCEPT !.status = "fetched"])
          /\ Goes(a, IF act[a].pc = "fetched" THEN "parse" ELSE "unparse")
       \/ /\ Misses(a)
          /\ IF act[a].pc = "fetched" THEN NotPersisted(a) ELSE Goes(a, "page")
    /\ RowsAlone

(* MarkSourceParsed overwrites the text with what there is, or with NULL.  *)
SetsText(a, text) ==
    /\ Updates(a, [row EXCEPT !.text = text])
    /\ crossed' = (crossed \/ Crossing(text))

(* After a failed fetch, or an import, which comes without a text.         *)
ClearText(a) ==
    /\ At(a, "retrieve", "unparse")
    /\ \/ SetsText(a, 0)
       \/ Misses(a) /\ UNCHANGED crossed
    /\ Ends(a)
    /\ UNCHANGED <<url, made, extracted, lost, waived, overlapped>>

Parsed(a) == act' = [act EXCEPT ![a].pc = "check", ![a].page = 0]

(* persistParsedContent, which stops at its first error, and the upload.   *)
Parse(a) ==
    /\ act[a].pc = "parse"
    /\ \/ /\ SetsText(a, act[a].page)
          /\ IF HasSentences(act[a].page) THEN Goes(a, "offsets") ELSE Parsed(a)
       \/ Misses(a) /\ Parsed(a) /\ UNCHANGED crossed
    /\ UNCHANGED <<url, made, extracted, lost, waived, overlapped>>

(* mutant: the offsets of an earlier text are kept.                        *)
OffsetsOnce(a) == IF row.offsets = 0 THEN act[a].page ELSE row.offsets
Offsets(a) == act[a].page

SetSentenceOffsets(a) ==
    /\ act[a].pc = "offsets"
    /\ \/ Updates(a, [row EXCEPT !.offsets = Offsets(a)])
       \/ Misses(a)
    /\ Parsed(a)
    /\ RowsAlone

(* The chain into source_decomposition; an upload does not look again.     *)
HasText(a) == act[a].op = "upload" \/ (Found(a) /\ row.text # 0)
Chains(a) == act[a].op = "upload" \/ act[a].process

Chain(a) ==
    /\ act[a].pc = "check"
    /\ \/ ~Chains(a) /\ Ends(a) /\ Fine
       \/ /\ Chains(a) /\ HasText(a)
          /\ \/ Becomes(a, Decomposition(act[a].id, AllChunks)) /\ Fine
             \/ Ends(a) /\ Fault
       \/ Chains(a) /\ ~HasText(a) /\ Errs(a) /\ Fine
    /\ RowsAlone /\ UNCHANGED row

-----------------------------------------------------------------------------
(* source_decomposition                                                    *)

(* A source that has no parsed_text is decomposed for its images, if they  *)
(* are configured.  One that has, when no fact extractor is, goes on to be *)
(* marked as processed without a fact.                                     *)
Read(a) ==
    /\ At(a, "decompose", "read")
    /\ \/ Found(a) /\ ~HasWords(row.text) /\ Ends(a)
       \/ /\ Found(a)
          /\ act' = [act EXCEPT ![a].pc = "extract", ![a].text = row.text]
       \/ Found(a) /\ HasWords(row.text) /\ Goes(a, "waive")
       \/ ~Found(a) /\ Errs(a)
    /\ RowsAlone /\ Fine /\ UNCHANGED row

WaiveExtraction(a) ==
    /\ At(a, "decompose", "waive")
    /\ \/ Updates(a, [row EXCEPT !.status = "processed"]) /\ waived' = TRUE
       \/ Misses(a) /\ UNCHANGED waived
    /\ Ends(a)
    /\ UNCHANGED <<url, made, extracted, lost, overlapped, crossed>>

Chunks(a) == act[a].todo \cap ChunksIn(act[a].text)

(* The waves over the chunks and the retries; then the facts are written   *)
(* and linked, as long as the source is there.  A fact that cannot be      *)
(* written is passed over, and its chunk does not count as failed.         *)
Extract(a) ==
    /\ At(a, "decompose", "extract")
    /\ \E bad, missed \in SUBSET Chunks(a) :
         LET good == {act[a].text} \X (Chunks(a) \ (bad \cup missed))
         IN  /\ bad \cap missed = {}
             /\ IF missed = {} THEN Fine ELSE Found(a) /\ Fault
             /\ act' = [act EXCEPT ![a].pc = "record", ![a].bad = bad]
             /\ extracted' = IF Found(a) THEN extracted \cup good ELSE extracted
             /\ lost' = (lost \ good) \cup ({act[a].text} \X missed)
    /\ UNCHANGED <<url, row, made, waived, overlapped, crossed>>

(* mutant: the source is processed as soon as one chunk is.                *)
SomeChunk(a) == act[a].bad # Chunks(a)
WholeText(a) == act[a].bad = {}

MarkSourceProcessed(a) ==
    /\ At(a, "decompose", "record") /\ WholeText(a)
    /\ \/ /\ Updates(a, [row EXCEPT !.status = "processed"])
          /\ Goes(a, "clear") /\ waived' = FALSE
       \/ Misses(a) /\ Errs(a) /\ UNCHANGED waived
    /\ UNCHANGED <<url, made, extracted, lost, overlapped, crossed>>

UpdateSourceChunkFailures(a) ==
    /\ At(a, "decompose", "record") /\ ~WholeText(a)
    /\ \/ Updates(a, [row EXCEPT !.failures = act[a].bad])
       \/ Misses(a)
    /\ IF act[a].bad = Chunks(a) THEN Errs(a) ELSE Ends(a)
    /\ RowsAlone

ClearSourceChunkFailures(a) ==
    /\ At(a, "decompose", "clear")
    /\ \/ Updates(a, [row EXCEPT !.failures = {}])
       \/ Misses(a)
    /\ Ends(a)
    /\ RowsAlone

-----------------------------------------------------------------------------
(* A worker dies, and its job is run again, or was at its last attempt, or *)
(* is cancelled; or a request ends early.                                  *)
Dies(a) ==
    /\ act[a].pc # "idle"
    /\ faults < MaxFaults /\ faults' = faults + 1
    /\ \/ act[a].op = "retrieve" /\ Becomes(a, Retrieval(act[a].process))
                                 /\ UNCHANGED failed
       \/ act[a].op = "decompose" /\ UNCHANGED failed
            /\ Becomes(a, Decomposition(act[a].id, act[a].todo))
       \/ Ends(a) /\ failed' = TRUE
    /\ UNCHANGED row /\ RowsAlone

Init ==
    /\ url \in {"web", "upload"}
    /\ row = NoRow /\ made = 0 /\ extracted = {} /\ lost = {}
    /\ act = [a \in Actors |-> Idle]
    /\ waived = FALSE /\ failed = FALSE /\ overlapped = FALSE
    /\ crossed = FALSE /\ faults = 0 /\ asked = 0

Requests(a) ==
    \/ \E process \in BOOLEAN : EnqueueRetrieveSource(a, process)
    \/ CreateSource(a) \/ UploadSource(a) \/ ProcessSource(a)
    \/ ReprocessSource(a) \/ RetrySource(a) \/ DeleteSource(a)

Runs(a) ==
    \/ ResetSourceForRetry(a) \/ EnqueueRetry(a)
    \/ Fetch(a) \/ CreateOrLookup(a) \/ MarkSourceFetching(a)
    \/ MarkSourceFailed(a) \/ MarkSourceFetched(a) \/ ClearText(a)
    \/ Parse(a) \/ SetSentenceOffsets(a) \/ Chain(a)
    \/ Read(a) \/ WaiveExtraction(a) \/ Extract(a) \/ MarkSourceProcessed(a)
    \/ UpdateSourceChunkFailures(a) \/ ClearSourceChunkFailures(a)

Next ==
    \E a \in Actors :
        \/ asked < MaxRequests /\ asked' = asked + 1 /\ Requests(a)
        \/ (Runs(a) \/ Dies(a)) /\ UNCHANGED asked

Spec == Init /\ [][Next]_vars

-----------------------------------------------------------------------------
(* Properties                                                              *)

Statuses == {"none", "pending", "fetching", "fetched", "failed", "processed"}
Texts == {0} \cup Editions

TypeOK ==
    /\ row.id \in 0..made /\ made \in 0..MaxRows
    /\ row.status \in Statuses /\ (row.id = 0) = (row.status = "none")
    /\ {row.text, row.offsets} \subseteq Texts
    /\ row.failures \subseteq AllChunks
    /\ extracted \cup lost \subseteq Editions \X AllChunks
    /\ \A a \in Actors : /\ act[a].bad \subseteq act[a].todo
                         /\ act[a].todo \subseteq AllChunks
                         /\ act[a].id \in 0..made /\ act[a].page \in Texts
    /\ faults \in 0..MaxFaults /\ asked \in 0..MaxRequests

(* A source counts as processed only when the facts of every chunk of its  *)
(* text have been extracted, by whichever of its decompositions, partial   *)
(* ones and repeated ones included (source_decomposition.go), except those *)
(* that lost a fact to a failing INSERT, and unless the one that has said  *)
(* so last had no fact extractor at all.  Two things can undo that: a text *)
(* replaced while one of them runs, or while the failures of the text      *)
(* before are still recorded.                                              *)
ProcessedWholly ==
    row.status = "processed" /\ ~waived /\ ~crossed =>
        {row.text} \X ChunksIn(row.text) \subseteq extracted \cup lost

Quiet == \A a \in Actors : act[a].op = "idle"

(* The sentence offsets are those of the text, when all is quiet: they are *)
(* written after it, in a statement of its own (retrieve_source.go,        *)
(* persistParsedContent), unless no sentence is found in the text: then    *)
(* those of an earlier one stay.                                           *)
SentencesMatch ==
    Quiet /\ ~failed /\ ~overlapped /\ HasSentences(row.text) =>
        row.offsets = row.text

(* No source is left behind as being fetched: of all the jobs that mark it *)
(* so, the last one gives it its outcome, even when a worker has died and  *)
(* its job was run again; but a statement that fails in between ends the   *)
(* job as done, and a job that is given up leaves the source as it is.     *)
FetchEnds == Quiet /\ ~failed => row.status # "fetching"

(* The indices of failed chunks are those of the same text                 *)
(* (source_decomposition.go): a source that is processed has been          *)
(* processed as a whole, whatever was fetched in between.                  *)
ProcessedMeansExtracted ==
    row.status = "processed" /\ ~waived =>
        {row.text} \X ChunksIn(row.text) \subseteq extracted \cup lost
=============================================================================
