# Formal models of the Open Knowledge Tree server

TLA+ specifications of the Go backend of Open Knowledge Tree (`src/backend`),
checked with TLC on small instances and, for the larger part, proved with TLAPS
for every value of the constants.

The server turns documents ("sources") into a graph of facts, concepts,
summaries and syntheses. Nearly all of its state changes happen in background
jobs run by [River](https://riverqueue.com) over Postgres, next to a Qdrant
vector store. The jobs are chained: each one inserts its successor when it is
done. Several workers, possibly in several processes, run jobs of different
sources over the same tables at the same time. The models are about what that
concurrency, and calls that fail or never return, can do to the data.

```
 request ─> retrieve_source ─> source_decomposition ─> embed_facts ─> deduplicate_facts
            └─── SourceLifecycle ───┘ └────────── FactPipeline ──────────┘      │
                                                                               v
   cleanup_facts <── ... <── refine_concepts <──── extract_concepts (ConceptExtraction)
                                   │  ConceptRefinement  │
                                   v                     v
                        summarize_concepts        concept_groups <── migrate_context
                        (ConceptSummaries)        └────── ConceptGroups ──────┘
                                   │
                                   v
                        synthesize_concept (ConceptSynthesis)

   underneath: JobQueue (River, heartbeats, rescue)     beside: RoleStore (Casbin)
```

## 1. Inventory

### 1.1 Components that are modelled

**Sources** (`retrieve_source.go`, `source_decomposition.go`,
`api/handler/source.go`, `api/handler/admin_concepts.go`, `sources.sql.go`).

- State: the row of a URL: status, parsed text, sentence offsets, the indices of
  the chunks that failed; the jobs that fetch and decompose it.
- Operations: ask for a fetch, create, upload, process, reprocess, retry,
  delete; a fetch (registry first, then the page) marks, parses, writes the
  offsets, chains; a decomposition reads the text, extracts chunk by chunk,
  marks the source or records the failures; without a fact extractor it marks
  the source at once.
- Hard: every write is a statement of its own, several jobs of one URL run at
  once, each may die in between, and the text can be replaced under a
  decomposition.
- Correct when: a source counts as processed only if the facts of its whole text
  have been extracted, where there is an extractor; offsets are those of the text; nothing stays `fetching`.

**Fact pipeline** (`source_decomposition.go`, `embed_facts.go`,
`deduplicate_facts.go`, `cleanup_facts.go`, `fact_catchup.go`; `facts.sql`;
`qdrantstore/points.go`).

- State: `facts` (status `new`, `stable`, `to_delete`; `embedded_at`;
  `created_at`), the junctions `fact_sources` and `fact_references`, one Qdrant
  point per fact with a copy of the status, `sources.processed`, the jobs.
- Operations: persist the facts of a source with their links and citations;
  embed new facts; compare each new fact with its nearest neighbour, move the
  sources and citations of the loser to the winner, mark the loser, promote the
  rest; delete the marked rows and points of a source; once a day delete
  undecided facts older than a week.
- Hard: chains of different sources interleave; the Qdrant writes are outside
  the transaction; listings are used long after they were read; chains break;
  attempts are repeated while the first attempt's successors run.
- Correct when: no duplicate is given up without a keeper that has its sources;
  a promotion is final; what is marked embedded has a vector; nothing stays
  undecided for ever; to a reader of Postgres a deduplication pass is atomic.

**Task manager** (`taskmanager.go`, `api/handler/admin_tasks.go`,
`cmd/app/api.go`).

- State: `river_job` rows, `okt_worker_heartbeat` rows, the processes.
- Operations: boot (start the client, register, rescue), heartbeat, shutdown
  (stop fetching, drain HTTP, delete the row, wait for jobs), the admin calls
  that rescue stuck jobs and cancel a job.
- Hard: liveness of a worker is inferred from a timestamp; a rescue cannot stop
  an execution that goes on; a heartbeat statement may fail; crash and restart.
- Correct when: jobs of live workers are left alone, a job with a unique key is
  never executed twice at a time.

**Concept extraction** (`extract_concepts.go`) and **refinement**
(`refine_concepts.go`, `concepts/resolve.go`).

- State: `concept_candidates` with their facts, `concepts`, `concept_aliases`,
  `fact_concepts`, `fact_concept_skips`, the jobs.
- Operations: name facts in waves with retries and a bounded number of attempts
  per fact; link a fact to a cached concept or a candidate; find or create the
  concept of a candidate by name, alias or the LLM's canonical name; copy the
  candidate's facts and clear it; divide an ambiguous one fact by fact.
- Hard: no lock over extraction; a candidate gains facts while it is resolved;
  copying and clearing are two statements; two tasks on one candidate; a
  candidate deleted under a waiting task; a loop that depends on counters.
- Correct when: no name found in a fact is lost, no candidate is overlooked, a
  fact is given up after a bounded number of answers and not before, the
  loop ends.

**Concept groups and context migration** (`recompute_concept_groups.go`,
`concepts/grouping.go`, `migrate_context.go`,
`api/handler/repository_settings.go`).

- State: the contexts of the repository, the concept of each name and context,
  its facts, and `concept_groups`, the summary per name.
- Operations: link facts in contexts; move the concepts of a context to another,
  merging equal names; refresh the groups of touched names (read, upsert,
  prune); rebuild all; count and delete a context.
- Hard: a refresh writes what it read earlier, beside a rebuild in one
  transaction; migrations in opposite directions merge each other's targets; a
  context goes while something is put into it.
- Correct when: a refreshed group is what a rebuild gives; a merge loses no
  link; concepts are in contexts that exist.

**Concept summaries** (`summarize_concepts.go`, `summaries.sql.go`).

- State: `fact_concepts`, `concept_summaries` (slices: sequence number, open or
  complete, covered facts), the claim `concepts.summarizing_at`.
- Operations: claim, list uncovered facts, plan the slices by the size tier of
  the concept, one LLM call and one short transaction per slice, ask for a
  synthesis, release.
- Hard: the claim is a lease of two hours that is neither renewed nor checked
  again, over work whose length it does not bound; the open row is read once and
  later updated by its id; calls fail between two slices.
- Correct when: a fact is in one slice of a concept at most, complete slices do
  not change, every complete slice gets into a synthesis.

**Concept synthesis** (`synthesize_concept.go`, `syntheses.sql.go`).

- State: the slices of the group, the synthesis and what it covers, the session
  that holds the advisory lock of the group, and how many times.
- Operations: take the lock, list, skip or call the LLM, replace the row,
  release; refinement takes the same lock.
- Hard: lock and release go through a pool and may meet different sessions; a
  job that finds the lock held is done; a connection may be closed.
- Correct when: folds of different processes never overlap, a replaced synthesis
  covers no less, the last complete slice is folded.

**Roles** (`rbac/service.go`, `adapter.go`, `group_manager.go`,
`user_manager.go`, `groups.go`).

- State: users, groups, memberships; `casbin_rule`; the enforcer's memory; one
  read-write lock.
- Operations: add and remove members, grant and revoke roles of groups and
  users, delete groups and users, enforce, restart.
- Hard: rows and links are changed one after the other without a transaction;
  Casbin's own statement, its memory and the rewrite of the table are three
  writes; a read lock is taken twice by one call.
- Correct when: memory is what a restart would load, links follow rows, every
  call returns.

### 1.2 Not modelled

| Component | Why not |
|---|---|
| `dedup-stable` | an operator's command under the pipeline's advisory lock; it marks stable facts on purpose, so that `StableIsFinal` is about the server without it |
| Alias pruning, `embed_concepts` | change what a lookup finds later, by data (vectors, an LLM's opinion); `ConceptRefinement` lets an ambiguous name be decided either way |
| Facts of images | the same persisting and embedding as text facts, with another provider; a decomposition for images only is in `SourceLifecycle` |
| Several contexts in refinement | candidates are per context, and one context is refined as any other; contexts meet in `ConceptGroups` |
| Concept relations | materialised views that Postgres refreshes whole, one statement |
| Registry exchange, graph import and export | jobs that copy rows by natural keys one after the other; the one step that meets other components, the import ahead of a fetch, is in `SourceLifecycle`; the registry itself is another program |
| Order of fetch strategies, host skip list | decisions inside one call of `Fetch`; the skip list is a cache of failures |
| Report annotation, claims, investigations | one job or request each, no shared state to race for |
| Hybrid search | a merge of rankings over real numbers, without state |
| API keys, OAuth, audit, permissions of roles | single statements, or seeded at boot |
| AI providers, rate limits | their duration and failure appear in the models as such |
| Pools, bootstrap | pools appear in `ConceptSynthesis` as sets of connections; the race of two first boots is decided by a unique constraint |
| Other HTTP and MCP handlers, promptsets, configuration, registry service, frontend, docs | they read and format, or write one row of settings |

The share of the backend's lines that the map covers is small for this reason:
the largest files are configuration, generated query code, and handlers that
format answers.

## 2. Plan and how the modules fit

The order is by what the data depends on: facts are the root of everything, the
task manager decides how often and when jobs run, the concept jobs follow.

| Order | Modules | Properties checked | Proved |
|---|---|---|---|
| 1 | `FactLifecycle`, `FactPipeline` | provenance, finality, vectors, drain, settling, refinement of the life cycle | all but settling |
| 2 | `JobQueue` | unique execution, healthy workers spared | all |
| 3 | `SliceLog`, `ConceptSummaries` | slices disjoint, frozen rows, synthesis asked, refinement of the log | all |
| 4 | `ConceptSynthesis` | one process folds, nothing unfolded, every slice folded | all |
| 5 | `ConceptExtraction`, `ConceptRefinement` | the loop ends, with nothing left to name; no name stranded, none overlooked | all but the end of the loop |
| 6 | `ConceptGroups` | groups live, links survive, contexts declared | all |
| 7 | `RoleStore` | table follows memory, links match members, one way to hang | all |
| 8 | `SourceLifecycle` | processed wholly, sentences match, fetch ends | all |

Where modules meet:

- `FactPipeline` implements `FactLifecycle`, `ConceptSummaries` implements
  `SliceLog`.
- `SourceLifecycle` goes into the statements of a source's row and takes the
  facts of a chunk as one thing; `FactPipeline` takes the row as a flag and goes
  into the facts. Both repeat an attempt that died.
- `FactPipeline` runs one job per kind and source; `JobQueue` shows that a
  rescue can put a job without a unique key into a second execution while the
  first goes on (after a shutdown has deleted the heartbeat row, or when
  registration failed). Every other module lets two jobs of a kind run at once.
- `ConceptRefinement` ends with a request to summarise (`owed`), with which
  `ConceptSummaries` begins (`jobs`); the requests it makes (`asked`) are the
  jobs of `ConceptSynthesis` (`folds`), whose `WriteSlice` is the summaries' way
  of writing slices seen from outside.
- `ConceptSynthesis` has the refinement's use of the group's lock; in
  `ConceptRefinement` that lock may or may not keep two tasks apart, which is
  what the former shows.

## 3. The modules

Throughout, one action is one statement that other processes can see, or a group
of local steps up to it. Each call that the code allows to fail has a disjunct
with `Fault` (or `Setback`, `Mishap`), counted by `MaxFaults`; a running job has
an action in which it dies and is run again or discarded. Variables under
`ghosts`, and flags such as `overtaken`, `overlapped`, `crossed`, `waived`,
`astray` and `failed`, record what has happened for the properties; no guard reads them.

### 3.1 `FactLifecycle`: what the pipeline promises

Two variables: the status of each fact and the set of its sources. A fact is
created with at most one source. `Decide` takes, in a single step, some new
facts as duplicates and some as keepers, provided that every duplicate's sources
are all found on a keeper and that a fact's sources change only by taking those
of a duplicate. `Clean` removes duplicates only; `Reap` may remove anything,
since the daily catch-up is not coordinated with the other jobs.

### 3.2 `FactPipeline`: how it is kept

| Variable | Code |
|---|---|
| `status`, `embedded`, `aged` | `facts.status`, `embedded_at IS NOT NULL`, `created_at` before the cutoff; rows that are gone are remembered as `cleaned` or `reaped` |
| `links`, `refs` | `fact_sources`, `fact_references`; rows that cascade away stay as history and are read for live facts only |
| `point` | the Qdrant point, with its status payload |
| `queued` | the waiting jobs of each kind and source |
| `dec`, `emb`, `dd`, `cl`, `sweep` | the local variables of a running job between two statements |

The deduplication transaction keeps its writes in `dd[s]` (`mark`, `promote`,
`linkAdd`, `refDel`, `refAdd`); they become visible in `DedupCommit`, while its
Qdrant payloads are visible at once. Rows that the transaction has written or
pinned are in `LockedBy`: statements of other jobs on such a row wait, as they
do in Postgres, and then see the committed version. `DeleteStaleFactsInDB` is
split into `SweepSelect` and `SweepDelete` because under READ COMMITTED its
subselect is not evaluated again after a lock wait.

Statements are elements of `Texts`. `Score` gives their similarity, 0 being
below the threshold; `Nearest` leaves the choice among equals open. UUIDs are
natural numbers in UUID order, since the code breaks ties by it; `TextOf` gives
each id its text in advance, so that the choice of an id by `CreateFact` is also
the choice of its place in the order.

Some steps are coarser than the code where nothing can tell: `CreateFact` and
`AddFactSource` are one step when both succeed; the statements that mark one
listed fact after another as embedded, or delete one after another, are one step
with the chain insert that follows (a death among them leaves what a failed
chain and a repeated job leave); a row that a transaction has pinned blocks
`MarkFactEmbedded`, which Postgres would let through; and a pass that dies
between its commit and its chain insert is not run again (the second run would
list what is left and chain, as the job of another source does).

Left out: images (the same persist path), the shortcuts taken without Qdrant,
deletion of a source, imports, the readers of the Qdrant payload, and two waiting
jobs of one kind and source, which the set `queued` makes one. The concept jobs
between deduplication and cleanup write nothing the pipeline reads.

### 3.3 `JobQueue`: the task manager around River

| Variable | Code |
|---|---|
| `phase` | where a process is: `off`, `fetching` (client started), `registered`, `up`, `closing` (signal received), `draining` (row deleted), `gone` |
| `rows`, `age` | `okt_worker_heartbeat` and the time since `last_heartbeat` |
| `due`, `missed` | the heartbeat ticker, and whether the last statement failed |
| `jstate`, `owner`, `attempt`, `cancel` | `river_job` |
| `exec` | the calls of `Work` that are really under way, known to nobody |

Time is discrete. `Tick` lets a heartbeat be at most `Slack` late. A worker that
restarts is another worker, because `client.ID()` contains the start time.
River's part is modelled as the task manager relies on it (external entries of
the map): fetching, recording an outcome only while the row is `running`,
retries, and a rescuer that takes only rows nobody executes any more.

### 3.4 `ConceptSummaries`: the slices of one concept

| Variable | Code |
|---|---|
| `linked`, `extracting` | how many facts the concept has, numbered as they were linked; the extraction passes that have linked facts and not yet enqueued a job |
| `slices` | `concept_summaries` |
| `claimed`, `age` | `concepts.summarizing_at` |
| `pass` | the locals of `summarizeOneConcept` in each worker |
| `jobs`, `asked` | waiting `summarize_concepts` jobs; what was complete when a synthesis was last asked for |

The steps of a pass are those of the code: `Claim` or `Skip`, `List`, `Plan`, one
`Write` per slice with an LLM call before it, `Chain`, `Release`; `Fails` ends a
pass early and still releases, `Crash` does not. `Tick` takes time only during
LLM calls, each lasting at most `CallTime` (the wait for rate-limit capacity
included); statements are instantaneous against a window of hours. Nothing says
that the calls of a pass fit into the window: by default a call may take twenty
minutes and wait an hour for capacity, against a window of two hours. So a stale
claim may be taken over while its owner is at work. `overtaken` records that for
the properties: it is "now" from such a claim until no pass is under way, and
"past" ever after. The unique
partial index is part of `Write`: an upsert it refuses ends the pass.

A pass cuts its batches from a list: the facts of the open row first, then those
that no row covers, by `first_seen_at`. A merge of concepts copies links with
their dates, so that a new fact may be older than the ones before it. The order
is therefore left open: `NextSlices` allows every set of a batch's size that
takes the facts of the open row (`kept`) before any other.

`SliceLog` is what a reader of the table sees: a log of numbered slices with
disjoint facts. The first may be open, and then gains facts until it is complete,
unless the batch that completes it is smaller than the slice was (`Cut`, when
`TierFor` gives a larger concept a smaller batch); any other is complete when it
is added. `ConceptSummaries` implements it with the table
itself as the log.

### 3.5 `ConceptSynthesis`: the synthesis of one name

| Variable | Code |
|---|---|
| `slices` | the `concept_summaries` of all concepts of the group; the text of a slice is its `edition` |
| `folded` | `concept_syntheses`: the covered slices, with the edition whose text went in |
| `folds` | waiting `synthesize_concept` jobs |
| `holder`, `depth` | the session that has the advisory lock, and how many times: Postgres grants it to its holder again and counts |
| `work` | each worker, and the slices it has listed |

`Take`, `Refused`, `TakeToRefine` and `Release` may use any connection of the
worker's process, which is what a pool does. `Close` is the pool closing a
connection. `WriteSlice` stands for a pass of `ConceptSummaries`. A fold that
fails, or whose process crashes, is run again or discarded, as it may have had
the last of its five attempts (`Retried`); `dropped` records a discard like a
refusal.

### 3.6 `ConceptExtraction`: the loop of a job

The waves of `extract_concepts`: `Fetch` the oldest facts, `Answer` for all of
their chunks (with the failures left after the retries within the job),
`WriteFact` one by one, `EndWave` with the decision to go on. `Poison` facts make
their chunk fail for good, `Empty` ones give no names. `matched` is the code's
counter, of names written even if the commit then fails; `moved` is what its
comment speaks of; `waves` counts for the properties
the waves of an attempt in which nothing failed (`clean`), to one more than
`WaveBound`. `Dies` is a job that is cancelled or loses its worker and is run
again; `MaxSetbacks` bounds deaths and failures.

### 3.7 `ConceptRefinement`: from a name to a concept

| Variable | Code |
|---|---|
| `concepts`, `aliases`, `links` | `concepts`, `concept_aliases`, `fact_concepts` |
| `state`, `resolved`, `pending` | `concept_candidates` (absent, open, resolved, to which concept) and the facts of each |
| `writing` | the write transaction of each fact's extraction: what it has inserted, linked, found cached |
| `asks`, `task` | waiting tasks of each candidate; the refinements under way |

A job is taken apart into the candidates of its chunk, which it refines
concurrently and independently. `MatchBefore` looks the candidate's names up,
`Ask` is the LLM, `MatchAfter` the lookup under the lock, `Create`, `Merge` and
`Resolve` the three writes, `RouteFact` and `EndFork` the division of an
ambiguous candidate. Uncommitted rows are invisible, but an insert of a candidate
waits for another uncommitted one, and a deletion for the transactions that have
linked the candidate. A fact is extracted by one transaction at a time here; two
extraction jobs that have listed the same fact are in `ConceptExtraction`.

### 3.8 `ConceptGroups`: groups, contexts, migration

| Variable | Code |
|---|---|
| `declared` | `repository_contexts` |
| `context`, `facts` | `concepts`, each with its context, and `fact_concepts` |
| `groups` | `concept_groups` |
| `job` | the locals of each extraction and migration |
| `asked` | the waiting `migrate_context` jobs |
| `admin` | the context whose concepts `DeleteContext` has counted |
| `rebuild` | `recompute_concept_groups` and its open transaction |

`LinkFact` is the transaction of one fact, with all the concepts it is given.
`CopyLinks` and `CommitConcept` are the two halves of the transaction of
`migrateOneConcept`: what others link to the row in between goes with it when it
is deleted. A link that was newly inserted keeps its concept from deletion
(`Holds`), so that two migrations that merge each other's targets wait for one
another (`Deadlocked`); `ON CONFLICT DO NOTHING` inserts nothing where the target
has the fact already (`Missing`), and then nothing is held and both rows may go.
`Found` looks the target up by name and context and does not exclude the concept
itself, which other migrations may have moved there since it was listed.
`ReadGroups`, `StoreGroups` and `Prune` are the refresh, whose read and write are
apart; `DeleteAllGroups`, `InsertAllGroups` and `CommitRebuild` are the rebuild,
whose rows the others wait for.

Left out: aliases (a merge that copies one holds the target as a new link does),
the re-embedding, the timeout of a migration's refresh beyond its failure.

### 3.9 `RoleStore`: users, groups, roles

`req` is each request, `lock` its part in the `RWMutex`, in which a waiting
writer keeps new readers out. `Store`, `Remember` and `Save` are the adapter's
own statement, the model in memory, and `SavePolicy`. Every process has a memory
of its own; one is modelled, with restarts. `Blocked` is a request that cannot go
on before the lock changes hands; `Trapped`, an enforce call between its two read
locks with a writer in between.

### 3.10 `SourceLifecycle`: one source

`row` is the row of a URL, `act` the request or job each actor runs, `extracted`
the chunks, by edition of the text, whose facts are linked to the row. `Wordless`
editions come as Markdown without `parsed_text`: a fetch chains such a source, and
its decomposition goes on for images only, or ends. In `Unsegmented` editions no
sentence is found, and then no offsets are written, so that those of an earlier
text stay. `Read` may find no fact extractor, and `WaiveExtraction` then marks the
source with nothing extracted; `waived` records it. A job that dies is run again,
or given up after its last attempt or by a cancel, which counts as `failed`. The
actions have the names of the statements. Two actors stand for two jobs of any
kind side by side, since jobs for one URL are not deduplicated.

## 4. The runs

With two TLC workers the longest runs take two to three minutes: `sources` (4.4
million distinct states), `slices` (3.5 million) and `groups` (1.5 million).

| Run | Instance | Shows |
|---|---|---|
| `clean` | 2 sources with overlapping yields, 3 near-duplicate texts of which one is nearer to the two others than they are to each other, 5 ids, no faults | the refinement `LifecycleSpec`; `CitationsOnKeepers`; `DrainedFacts`, `DrainedPoints` |
| `faults` | 2 sources that both yield one text, 3 ids, 2 faults | `ProvenancePreserved`, `EmbeddedHasVector`, `StableIsFinal` |
| `week` | 1 source, 2 near-duplicate texts, 3 ids, 1 fault, days pass, fairness | `FactsSettle` (liveness), `EmbeddedHasVector` with the catch-up racing |
| `queue` | 2 workers, a plain and a unique job, 1 fault, 1 operator call | `UniqueRunsAlone`, `RescueSparesHealthy` |
| `slices` | 2 workers, 6 facts, three batch sizes that fall and rise, calls as long as the window, 3 faults | the refinement `LogSpec`; `SlicesDisjoint`, `FrozenForever`, `SynthesisAsked` |
| `synthesis` | 2 processes, 3 connections, 2 folds and a refinement, 3 slices of 2 concepts, 1 fault | `FoldsOfOneProcess`, `NothingUnfolded`, `EverySliceFolded` |
| `extraction` | 2 jobs, 4 facts (one poison, one empty), waves of 2, 2 attempts, 2 setbacks, fairness | `NoneLeftToName`; `LoopEnds` (liveness) |
| `refinement` | 2 facts, 2 candidates sharing a fact and an alias, 2 canonical names, 2 tasks, 1 fault | `NothingStranded`, `OnlyLeftOpen` |
| `groups` | 2 concepts of a name, 2 facts (the later may be found in both concepts at once), 2 contexts, 1 extraction, 2 opposite migrations, an administrator, a rebuild, 1 fault | `GroupsLive`, `LinksSurvive`, `ContextsDeclared` |
| `roles` | 1 user, 1 group, 1 role, 2 requests, 1 fault | `TableFollowsMemory`, `LinksMatchMembers`, `HangsOnlyInside` |
| `sources` | 2 actors, 3 requests, 3 editions: of 2 chunks; of 1 and without sentences; Markdown only; 2 rows, 1 fault | `ProcessedWholly`, `SentencesMatch`, `FetchEnds` |
| `stuck` | as `roles`, without faults, with fairness | that `EnforceReturns` does not hold |

Each passing run, `faults` and `week` apart, also checks the module's `TypeOK`
(`LoopTypeOK` in `ConceptExtraction`, whose definitions have names of their own
so that one module can prove about it and `ConceptRefinement` together).

Why the bounds are enough to show something:

- `clean` needs a third fact that is nearer to one of two others for the chains
  a pass can build (a winner that later loses), and two sources that share texts
  so that links and citations really move. Five ids leave every order of ids
  to the two extractions.
- `faults` needs room for a repeated attempt to create another row of the same
  text; with three ids one attempt of either source can be repeated. Two faults
  allow a failed call followed by a death, or two deaths. `CitationsOnKeepers`
  is deliberately not in this run: with a repeated attempt it does not hold, the
  citation of the second attempt may land on a row that is already marked
  (`CitationsUnlessOverrun` has the exact condition).
- `week` has one source because the catch-up does not look at sources; `aged`
  is a set so that facts made later are young again.
- In `queue` the timeout of 4 exceeds the interval of 1 by more than two delays
  of 1, which is the assumption of `HealthyTheorem`; the product's defaults (one
  minute against ten) leave far more room. Ages stop at `Horizon`, the largest
  threshold, beyond which they no longer matter. Attempts saturate at
  `MaxAttempts`.
- `slices` has batches of four facts, of two for a concept of four, and of three
  above (`FallingTiers`): `TierFor` takes the tiers as they are configured, and
  nothing keeps them from falling. One to three facts make an open slice; a pass
  may complete it in place, with more facts or with fewer, and add a second. A
  call may take 1 and the window is 1, so that a pass of two calls can be
  overtaken, and then frees the claim of the pass that has overtaken it; a pass of
  one call is not. Every choice of a batch among the facts no row covers is tried.
- `synthesis` has one process with two connections and two workers, so that a
  lock can be taken twice and released elsewhere, and another with one, so that
  the lock has to keep them apart. Three slices: one that is folded, one that is
  rewritten, one that comes too late.
- `refinement`: candidate "b" leads to "a" by its seed alias, or is given one of
  two names, of which one brings "a" as an alias as well: a name leads to no
  concept, to one and to several. The third name of a fact would add nothing.
- `groups`: the two ids are of one name, so that each migration can find the
  target of its merge, made by the extraction or by the other migration, and a
  fact that has both concepts makes two merges cross without holding each other
  up. Groups of different names do not meet. Three contexts with a cycle of
  migrations are past what TLC can exhaust; they are covered by the proofs.
- `sources`: an upload has one request fewer to go; three requests on two actors
  are, say, a fetch, a decomposition and a second fetch. Two rows, so that a row
  is deleted and made again under a job that has the old id. The three editions
  are what the branches on the text tell apart, and a fetch may also have none.
- In `extraction` a wave has two chunks of one fact, so that one can fail and
  the other link; the poison fact and the empty one are in different waves. Two
  setbacks let a job die after a failure, or fail in two waves.

`CHECK_DEADLOCK FALSE` is set throughout: the systems come to rest when their
jobs are done and their budgets of faults are spent.

**Symmetry** is used of workers, refiners, requests, actors and sources that have
the same part in the instance, and in `groups` of the two ids and of the two
contexts together with the migrations between them; never with a liveness
property.

**Fairness.** `week`: weak fairness of each stage of each source, of the passing
of days and of the catch-up. The code justifies it by River fetching from every
queue while a worker runs, by retries, and by the periodic job that inserts
`fact_catchup` every day. `extraction`: weak fairness of the steps of each job
(a job that has a worker goes on). `stuck`: strong fairness of the steps of each
request, the strongest that a scheduler and a lock that serves its queue in turn
could give: it is not for lack of it that the call hangs. Nothing is assumed
about faults, crashes or deaths.

**Mutants.** Each property of a passing run has a mutant, a small plausible bug
in the definition it names (written beside it and marked as a mutant), under
which TLC finds the property violated. `PROJECT.json` lists them.

## 5. What is proved

TLAPS checks every theorem for all values of the constants under the named
assumptions of the modules, with no step left open.

`FactPipelineProofs`:

- `TypeCorrect`: `Spec => []TypeOK`.
- `ProvenanceTheorem`: `Spec => []ProvenancePreserved`. The property speaks of
  committed state and is not inductive, because the commit publishes what a
  transaction has collected over many steps while other jobs changed rows around
  it. The invariant `DedupInv` adds: ids not yet created have no links; one
  transaction is open at a time (the advisory lock); and for the open transaction
  of a source (`TxInv`), what it read is still there and still undecided or
  stable (`WorkingSet`), the facts it has written are disjoint and were new
  (`Writes`), every fact it has marked has a keeper in the working set, outside
  its marks, that has all of its sources as the transaction sees them
  (`Keepers`), it links only to live facts, which it thereby pins, and only
  sources of what it has marked (`Additions`), and at its end everything still
  new and unmarked in the working set is promoted (`Promotes`); finally what
  cleanup jobs hold are duplicates (`CleanupOnlyDuplicates`). The central lemma
  is `MergeKeeps`: a merge re-targets the keepers of everything the loser had
  kept. Row locks enter where other jobs could remove a fact that the transaction
  relies on.
- `StableTheorem`: `Spec => StableIsFinal`, from the same invariant.
- `LifecycleTheorem`: `Spec => LifecycleSpec`. Creation maps to `Create`, the
  commit to `Decide`, cleanup to `Clean`, the catch-up's delete to `Reap`, every
  other step to a stutter.
- `VectorTheorem`: `Spec => []EmbeddedHasVector`, with faults and repeated
  attempts. `VectorInv` says it of every row that nobody has given up, rows not
  made yet included, since the job that sets `embedded_at` goes by a listing that
  may be old (`embed_facts` between its upsert and its mark); and that the
  catch-up, when it is about to delete points, holds only rows that are given up.
  `GivenUp` is the lemma that they stay so.
- `CitationsTheorem`: `Spec => [](faults = 0 => CitationsOnKeepers)`, and
  `DrainedFactsTheorem`: `Spec => []DrainedFacts`, from `CleanRun`, the invariant
  of runs in which no call has failed:
  each source has one decomposition and one embedding, in this order (`Stages`),
  and they hold facts of that source (`Holdings`); before its facts are embedded
  they are in no comparison and in no transaction (`Untouched`), so that a
  citation is not added to a fact that someone is marking; a citation leaves a
  marked fact in the transaction that marks it, for one of the working set
  (`RefsMoved`); and every new fact has a source whose pass is still to come, or
  is open and will decide it, every duplicate one whose cleanup is still to come
  (`OnTheWay`). Several sources share a fact, and a pass may take a fact away from
  the source that was to clean it: that is why `OnTheWay` says "some source", and
  why the proof has to follow the links through each merge.
- `CitationsUnlessOverrun`: `Spec /\ [](~Overrun) => []CitationsOnKeepers`, with
  any number of faults. It says which fault it takes to leave a citation on a
  duplicate: a `source_decomposition` job that dies after it has inserted its
  `embed_facts` job, so that its repeated attempt waits while its chain does
  (`Overrun`; without the premise TLC finds such a trace in `faults`). Otherwise
  the facts of a source have no vector until its decomposition is through
  (`Once`, `BareTillThen`), and a fact without a vector is compared with none
  (`Bare`): so the citation is never written to a fact that someone marks. This
  holds whatever calls fail, because nothing but a decomposition that is still
  under way puts a source back to it (`DecomposingBefore`).
- `DrainedPointsTheorem`: `Spec => []DrainedPoints` where no week passes
  (`~WeekPasses`), from `PointsGone` and `Young`. With weeks it is false: the
  catch-up may reap a new fact, and its point, between the listing of
  `embed_facts` and its upsert, which writes the point of a row that is gone.

`JobQueueProofs`:

- `TypeCorrect`.
- `UniqueTheorem`: `Spec => []UniqueRunsAlone`, with the strengthening that the
  row of a unique job stays `running` as long as it is executed: no rescue
  touches it, so nothing but the end of the execution makes the row fetchable
  again.
- `HealthyTheorem`: `Spec => RescueSparesHealthy` under `Margin`: every threshold
  exceeds the heartbeat interval plus twice the delay a beat may have. The
  invariant ties the age of a healthy worker's row to the time since its ticker
  fired. Without the assumption the statement is false.

`ConceptSummariesProofs`, without any assumption on the staleness window, the
length of calls or the tiers:

- `SummaryInvariant`: `Spec => [](overtaken = "never" => SummaryInv)`. As long as
  no pass has been overtaken, at most one is under way (`OnePass`), and its claim
  is set. That is so by what an overtaking is: a claim that is free, or stale
  with its owner gone, leaves nobody at work. The rows are numbered without a gap
  (`Numbered`), share no fact (`Disjoint`), and an open row is the only row
  (`OpenAlone`), since the code makes no open remainder after a complete slice.
  The row a pass remembers is still the open one (`Target`), and what it has
  still to slice is covered by no other (`TodoUncovered`).
- `SlicesTheorem` (`Spec => []SlicesDisjoint`) follows from it.
- `TypeCorrect` (`Spec => []TypeOK`) and `NumbersWithoutGap` (`Spec => []NoGap`)
  hold also of passes that overtake each other, and the invariant
  `OverlapInv` says what is left then. Every pass has its number by reading the
  largest of the table, so that the number before its own is taken (`PassShape`)
  and stays so, for rows are never removed; two passes may take one number, but
  none skips one.
- `FrozenTheorem` (`Spec => FrozenForever`) is not excused by an overtaking of the
  past: once the passes that overlapped have ended, the table may be in disorder,
  but the next pass that is alone finds the one row that is open, and that row
  stays open until the pass writes it.
- `SynthesisTheorem`: `Spec => []SynthesisAsked`. `Asking` says that a complete
  slice that nobody has asked a synthesis for has a pass that will. A pass that
  ended early would break it, and the proof has to show that the one statement
  that could end it without a failure does not: under `SummaryInv` the unique
  index refuses no row of a pass (`WriteAllowed`).
- `LogTheorem`: `Spec => LogSpec`. The invariant `LogInv` says that a pass which
  is to update the open slice has read its facts as they still are (`Keeps`). What
  it writes then has them all and more, or is a complete slice of some of them.
  `NoFactLeaves` says the rest: unless a pass has been overtaken, a fact leaves
  the summaries only by a write that so cuts the open slice (`Cuts`).

`ConceptSynthesisProofs`:

- `LockOfOneProcess`: `Spec => []FoldsOfOneProcess`. The invariant `Counted`
  says why a lock that is released on the wrong connection still keeps processes
  apart: whoever believes to have it is of the holder's process, since a release
  elsewhere changes nothing and one on the holder's own connection takes one off
  a count that is at least the number of those who have it.
- `NothingLeftOut`: `Spec => []EverySliceFolded`, and `CoverageGrows`:
  `Spec => NothingUnfolded`. `FoldInv` says that without an overlap at most one
  fold is under way (`Alone`), that what it has listed is at least what the
  synthesis covers (`Grows`), and that a complete slice which is not covered has
  a job waiting, or a fold that has yet to list or has listed it (`Pending`).
- `OverlapsAtHome`: two folds come to be under way at once, unless a connection
  is closed that has the lock, by one step only: the pool of a process, which by
  default has fifty synthesis workers, hands a second of them the connection on
  which the first has the lock, and Postgres counts instead of refusing
  (`Joins(w, v)`, in the step that first sets `overlapped`). It follows from
  `Counted`.
- `TypeCorrect`.

`RoleStoreProofs`:

- `RestartLoadsMemory`: `Spec => []TableFollowsMemory`. Only one request writes
  (`OneWriter`), the table is ahead of memory by its link exactly between the
  adapter's statement and the model's (`Ahead`), and what a writer is about to do
  differs from memory (`Whom`).
- `RowsAndLinksInSync`: `Spec => []LinksMatchMembers`. The property speaks of
  moments when no request is at work; `Synced` says of the others which request
  accounts for each difference: a link without its row has a removal between its
  two statements (`LinkHasRow`), a row without its link an addition in between, or
  a deletion of its user or group that has yet to reach the row (`RowHasLink`).
  `Settled` says where each request is: an addition goes on only with a row that
  is there, and a deletion has in hand all links that are still to go. For this,
  requests at work must be about different users and groups (`Apart`, which
  `overlapped` records), and a group that has a role must be there
  (`GroupsLive`).
- `RoleTypes`: also that members and their groups exist, by the cascade.
- `NestedReadAloneHangs`: `Spec => []HangsOnlyInside`. The run `stuck` shows that
  `Enforce` can hang; this says that nothing else can: whenever every request
  under way is blocked, one is between its two read locks and another waits to
  write. `HoldInv` ties what a request holds or waits for to the step it is at,
  so that a request that is blocked elsewhere waits for one that is not. And
  `TrapLasts`: whoever is caught stays so until a restart.

`ConceptRefinementProofs`:

- `NoNameIsLost`: `Spec => []NothingStranded`. The links of a candidate are
  cleared by a statement that trusts an earlier one. `Carried` is what makes that
  right: every fact that a task at `resolve`, or past it in a division, is about
  to take from the candidate has arrived at a concept the candidate was routed
  to, or has met the candidate in the middle. `Transactions` says whom an
  uncommitted extraction can rely on: what it has inserted is there for no other,
  what it has linked can be resolved but not deleted. `Existing` says that tasks
  have a candidate unless they were told that it is gone.
- `NoneOverlooked`: `Spec => []OnlyLeftOpen`, from `Attended`: an open candidate
  with facts has a task, a waiting one, or an extraction that is going to ask for
  it, unless a task has given it up. Its heart is that the listing at the end of
  every extraction takes all open candidates of the source, not only its own.
- `RefinementTypes`.
- Of `ConceptExtraction`: `AttemptsBounded`, `LoopSpec => []LoopTypeOK`, is about
  the upper bound of `attempts`, `MaxAttempts + Cardinality(Passes) - 1`. Jobs list
  and count without a lock, so that a fact may get answers after its last. `Bounded`
  says why they are few: once a fact has had its attempts it is not listed any
  more, each further answer takes a job from those that had it listed
  (`Awaits`), and the job that brought the last is not among them. That the
  first fact of a wave exists is the well-foundedness of the natural numbers
  (`LeastIsIn`).
- `NothingLeftToName`: `LoopSpec => []NoneLeftToName`, since a wave takes a fact
  whenever there is one to take (`FirstIsIn`), and names and attempts only grow.
- `WavesBounded`: `LoopSpec => []NoWaveInVain`, the measure behind the liveness
  property `LoopEnds`. A job goes on while counters of the whole job are positive,
  so that nothing in its own decision ends it. `Owed` is the set of answers that
  are still to be had; `Paid` says that the clean waves of an attempt and what is
  owed come to at most `WaveBound` together: a listed fact is still to be named,
  and the answer of this job pays for the wave, or it is not, and then another job
  has paid since the wave was listed (`OwedShrinks`, `PaidKept`). TLC has checked
  it as an invariant of `extraction`, where the mutant of `LoopEnds` violates it.

`ConceptGroupsProofs`, for finite sets of facts and ids (the counts of a group
are cardinalities):

- `GroupsInv` has five parts. `Types` adds to `TypeOK` what each field of a job
  is good for by where the job is, and that only linked pairs are in `ever`.
  `Targets` says of a merge that source and target have one name, and that a
  target which was given links is still there and is another concept: new links
  keep it from deletion, so that cycles of merges that would delete one another
  come to a standstill instead.
- `NoLinkLost`: `Spec => []LinksSurvive`. `Links` strengthens it: for each link
  there is a concept of the name from which every merge that is under way will
  have copied it (`Safe`). This is not inductive without the three exceptions
  that `late` records; the third, a concept merged with itself, was found in the
  attempt to prove it.
- `NoneAstray`: `Spec => []ContextsDeclared`, since a migration has seen all
  concepts of the context it empties, unless one came to it later (`Declared`).
- `GroupsFollow`: `Spec => []GroupsLive`. `Kept` says of a name outside `behind`:
  one job at most is between the read and the prune of its group, and what that
  job has read, or stored, is how things are unless some other job has changed
  them and will refresh it (`Refreshed`); and a rebuild that is about to commit
  has read how things are, unless a job is still to store the group, whose upsert
  waits for the rebuild (`Resumed`).
- `GroupTypes`.

`SourceLifecycleProofs`, assuming `MaxEdition > 0`:

- `ProcessedIsWhole`: `Spec => []ProcessedWholly`. `Coverage` says that,
  the text not having been replaced, and the last mark not having been made for
  want of an extractor, a decomposition has read the text that is
  there, and that all chunks of it but those it has yet to do are done, or lost
  with a failed INSERT (`InHand`); and so are all but those the row records as
  failed (`Recorded`). That is why a partial job and a repeated attempt may
  speak for the whole source.
- `EveryFetchEnds`: `Spec => []FetchEnds`, from `Outcome`: a row that is
  `fetching` has a job that is still to write its outcome, or a statement has
  failed, or a job was given up.
- `OffsetsMatch`: `Spec => []SentencesMatch`, from `Sentences`: while
  fetches do not overlap, one at most is between its mark and its offsets, what
  it is about to make offsets of is the text of the row, and whenever the two
  differ some job will write them again, or no sentence is found in the text.
- `SourceTypes`.

`VectorInv`, `CleanRun`, `CiteInv`, `Synced`, `Asking`, `OverlapInv` and `LogInv`
were given to TLC as invariants of the runs of their components before they were
proved (`CiteInv` in those behaviours that have no `Overrun`).

Only model-checked: everything under fairness (`FactsSettle`, `LoopEnds`, of which
`WavesBounded` is the safety part, and the violation of `EnforceReturns`), which is out of the prover's reach. Every safety
property of every run is proved.

## 6. Reading the properties

A property names its exceptions, and each exception is a window the code has.

- `ProvenancePreserved` and `FactLifecycle` allow the catch-up to take anything,
  a keeper included: `DeleteStaleFactsInDB` may delete a fact that was promoted
  while the statement waited for its lock. A fact has to be a week old and
  undecided.
- `DrainedFacts` and `DrainedPoints` are about runs in which no call fails and no
  job dies, the last also about less than a week. `CitationsOnKeepers` holds of
  those runs, and of all others but the ones in which a decomposition that died
  waits to be repeated while its chain runs.
- `SlicesDisjoint`, `LogSpec` and `SynthesisAsked` except concepts of which a
  pass has been overtaken: then facts may be in two slices and two slices may have
  one number (a finding). `FrozenForever` excepts only the time of the overlap.
- `SynthesisAsked` is about runs in which no call fails: a request lost with a
  failed insert, or with a failed call for a later slice of the same pass, comes
  back only with the next complete slice, and the code says so.
- `FoldsOfOneProcess` excepts connections closed while they have the lock;
  `EverySliceFolded` and `NothingUnfolded` except jobs that found the lock held
  or were discarded (the former) and folds that overlapped, which only folds of
  one process do unless a connection is closed.
- `NothingStranded` excepts candidates that gained a fact while being resolved
  (`met`): between the copy of the links and their clearing, or after the
  resolution was read as open, the fact is cleared without having been copied.
- `GroupsLive` excepts names two jobs have refreshed at a time, failures, and
  merges of a concept with itself or with one that had gone (they leave no
  target, and their prune does not wait for a rebuild that puts the group back);
  a later rebuild makes up for all of them. `LinksSurvive` excepts links that
  come to a concept, or that another merge finds there and so does not copy,
  between the copy and the delete of its merge, which go with the row, and those
  of a concept merged with itself; `ContextsDeclared` concepts that come to a
  context in the hands of someone who is removing it.
- `LinksMatchMembers` excepts failed requests and two about one user or group.
- `ProcessedWholly` excepts texts replaced under a decomposition (`crossed`),
  facts whose INSERT failed (`lost`), and sources last marked by a job that had no
  fact extractor (`waived`); `SentencesMatch` two fetches at a time, failures,
  jobs given up, and texts in which no sentence is found; `FetchEnds` failed
  statements and jobs given up.

## 7. Disagreements between code and documentation

`PROJECT.json` quotes the lines. One has a run:

- `stuck`: an enforce call takes the read lock of the enforcer twice, and a role
  change that comes in between makes both wait for ever.

The others have a formula, or are plain from the model. The formulas are in the
modules, are violated, and are seen to be by adding them to the configuration
given here:

| Formula | Where | The code |
|---|---|---|
| `StableIsEmbedded` | `clean` | `MarkFactsStableByRepo` promotes all new facts of the repository, also those another source has just persisted; `embed_facts` asks for new facts and does not find them again |
| `NoStableNearDuplicates` | `clean` with the `Batch` constants and one source | two near duplicates become stable when the one hit of the search is a third fact that was marked before |
| `RescueSparesHealthy` | `queue` with `Timeout = 1`, `Interval = 2` | `heartbeatTimeout` does not clamp to twice the interval |
| `BootRequeues` | `queue` | the startup rescue spares a worker that died less than the timeout ago, and does not run again |
| `SynthesisFresh` | `synthesis` | a slice rewritten under its id after it was folded is not folded again |
| `SummariesAsked` | `refinement` | no summary is asked for concepts that gain facts from the candidate cache or in a division |
| `StopsWhenStuck` | `extraction` | a wave's progress is judged by the counters of the whole job |
| `ContextsCounted` | `groups` | a concept with several facts counts as several contexts |
| `RolesGoWithUser` | `roles` | a deleted user keeps roles outside the domain of memberships |
| `ProcessedMeansExtracted` | `sources` | recorded chunk indices are applied to whatever text there is |

More that reading the code for the models has brought up:

- Slices: a pass that takes longer than the window is overtaken, and both passes
  cover the same facts under the same number, against
  `0026_concept_summaries.up.sql:26-28` and `6-summaries.md:15`; `SlicesDisjoint`
  without its exception is violated in `slices`. Facts are numbered as they are linked to the concept and cut by
  `first_seen_at` among those no slice covers, so that facts which come with a
  merge, older than the ones before them, land in a later slice, against
  `summaries.sql:52-53`. Also, `6-summaries.md` and `0026_concept_summaries.up.sql` say that a new
  open slice starts when one is frozen; the code leaves the remainder uncovered
  until there is a full batch again.
- Synthesis: the migration says that a crashed worker's lock clears when its
  connection returns to the pool; a session lock goes with its session.
- Refinement: a candidate whose lock is held is left for "the next pass"
  (`refine_concepts.go:443`), which nobody schedules; an ambiguous seed alias
  defers all facts of the candidate; when the request for summaries fails after a
  division has deleted the candidate, the retry does not find it, and the comment
  at `refine_concepts.go:308` that it collects the resolved concepts again does
  not hold.
- Extraction: a job's count of skips is kept although the statement that records
  one may fail.
- Groups: two crossed migrations can leave neither context, and of two concepts
  with the same facts neither; a concept that other migrations have moved to the
  target since it was listed is deleted as a merge with itself, against
  `migrate_context.go:108-110`, which relies on a guard the query does not have; a migration without
  concepts returns before it refreshes any group; `conceptCount` takes a failed
  count for zero, on which a context is deleted; `any_embedded` is not refreshed.
- Sources: a job that was to process a source and could not fetch it ends as
  completed; `MarkSourceFetching` follows the fetch; a failing statement leaves
  the row `fetching` with its job done; a retry does not process the source even
  if the first job was to; a failed fetch, or an import, clears the text there
  was; a fact whose INSERT fails is dropped and the source counts as processed. A
  comment says that a source all of whose chunks failed is still marked processed
  (`source_decomposition.go:629-632`); it is not. A text in which no sentence is
  found leaves the offsets of the text before in the row
  (`retrieve_source.go:1577`). Without a fact extractor a source counts as
  processed with no facts, which the code intends (`source_decomposition.go:250`).

Hazards that no property covers, because the code lets them happen: a fact made
stable without a vector (`facts.sql:37`, a finding), a fact promoted while the
catch-up deletes it (`facts.sql:315`), plain jobs that run twice (around a boot, a
shutdown, or without a heartbeat row: `taskmanager.go:520`, `672`, `744`), a
threshold shorter than the interval (`taskmanager.go:699`, `admin_tasks.go:138`),
and a fold that is not asked for again when it finds the lock held
(`synthesize_concept.go:272`). Further ones that are known and not in the list:
the status payload that
`embed_facts.go:263` writes from a stale listing; points of reaped facts that
nothing finds again when their deletion fails (`fact_catchup.go:117`); the
outcome of a first execution recorded while a rescued second one runs
(`taskmanager.go:753`, River's code); a wait timeout of zero
(`ratelimit.go:122`, a single call); two first boots (`bootstrap.go:117`,
decided by a unique constraint).

## 8. Running the checks

```
tlc -workers 2 -config MCFactPipeline_clean.cfg MCFactPipeline
tlapm FactPipelineProofs.tla
```

and likewise for the other configurations and proof modules. Each proof module
takes from half a minute to a few minutes.
