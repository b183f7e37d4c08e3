# Verification of raglibrarian

raglibrarian is a library of technical books: a librarian uploads a PDF or EPUB, the
system extracts, chunks and embeds it, and readers search the passages and ask for
answers with citations. It is a set of Go services with a database each, joined by
RabbitMQ events and gRPC calls. This directory holds TLA+ models of its stateful
parts, TLC configurations for them, and TLAPS proofs. `PROJECT.json` maps every
definition to the lines it models and lists components, hazards, runs, mutants,
findings and theorems.

## 1. The system

| Part | State it keeps | Operations that change it |
|---|---|---|
| **Catalog** `services/catalog-service` | `books` (status, stage, failure, lifecycle and processing version, manifest, three deletion flags), command and event inboxes, outbox, originals in object storage | upload, reindex and delete commands; processing facts; deletion confirmations; reconciler; outbox dispatcher |
| **Ingestion** `services/ingestion-service` | job with a lease, lifecycle fence, selection inbox, retry dispatches, outbox, artifact sets and objects, deletion inbox | claim, select, process, retry, complete, fail, delete, orphan pass, dispatcher |
| **Layout worker** (in Ingestion) | none that lasts | answers content-selection requests |
| **Retrieval** `services/retrieval-service` | metadata and manifest facts, index jobs and batches, book lifecycle, outbox, points in Qdrant | project, plan, index, finalize, fail, reindex, delete, recovery and cleanup tickers, search |
| **Answer** `services/answer-service` | final-answer cache, table of in-flight generations, generator permits, request limiter | answer a question |
| **Edge API** `services/edge-api` | hub of open status streams, consumer connection, rate limits, refresh cookie of each browser | status stream, HTTP front of the other services |
| **Identity** `services/identity-service` | users, applications, tokens, sessions, mail outbox, notifications | registration, verification, approval, login, rotation, reset, mail |
| **Configuration** of every service | the environment of each group of processes | edit, start, stop |
| **Shared packages, tools** `pkg`, `tools` | none | names of queues and events, credentials, logging, topology |

How they interact. Catalog commits a book with an outbox row; Ingestion consumes
the upload and publishes *started*, *chunks ready* or *failed*; Retrieval joins
Catalog's metadata with the manifest of the chunks, indexes, and publishes *indexed*
or *failed*; Catalog applies each fact to the book and queues a status row, which Edge
pushes to browsers. A deletion goes the same way as a command with a new lifecycle
version, and is finished when storage, Ingestion and Retrieval have confirmed. No
service writes another's database. Every message may be repeated, delayed or
reordered, and every process may stop between two transactions.

What is hard, and therefore what the properties are about:

* facts of two services and three deletion confirmations that arrive in any order and
  from past generations;
* leases, retries and recovery dispatches that must neither let two workers own a job
  nor leave a job without anyone to continue it;
* object and vector stores that cannot take part in a transaction, so that a write
  checked before it happens may land after a deletion;
* mutex-protected tables whose signals are dropped when a channel is full, whose entries
  are completed by one goroutine and awaited by others, and whose counters must be
  given back on every path;
* a publisher, a consumer and an upload that each touch two systems without a common
  transaction, and must neither lose nor overtake;
* row locks taken by several transactions of Identity in different orders;
* errors that cross three translations before a browser sees them, and deadlines and
  limits of eight loaders that must fit together.

`hazards` in `PROJECT.json` lists each at its line, with the property that watches it.

## 2. Modules

| Module | Models | Run by | Proofs |
|---|---|---|---|
| `CatalogBook` | the book aggregate, its transactions and outbox rows, the original | `MCCatalogBook` in `MCServices` | `CatalogBook_proofs` |
| `CatalogStatusFeed` | what Edge's decoder accepts, against what Catalog queues | `MCServices` | `CatalogBook_proofs` |
| `OrderedDelivery` | what the outbox promises: at least once, in order per book (abstract) | `MCDelivery` | |
| `CatalogOutbox` | the dispatcher: claims, leases, publications, marks; implements `OrderedDelivery` | `MCDelivery` | `CatalogDelivery_proofs` |
| `CatalogUpload` | an upload against object store and database, and the reconciler | `MCDelivery` | `CatalogDelivery_proofs` |
| `CatalogConsumer` | the consumer of processing facts and its republishing retry | `MCDelivery` | `CatalogDelivery_proofs` |
| `IngestionJob` | one upload through Ingestion, with selection, retries, artifacts and deletion | `MCIngestionJob`, `MCWorkers` | `IngestionJob_proofs` |
| `RetrievalIndex` | one book in Retrieval, through indexing, reindexing, failure and deletion | `MCRetrievalIndex`, `MCWorkers` | `RetrievalIndex_proofs` |
| `RetrievalSearch` | one search over a corpus that changes beneath it | `MCQuery` | |
| `EvidenceAssessor` | the attempts of one assessment by the provider | `MCQuery` | |
| `EvidenceAssessment` | the assessment of a search's candidates and its shared cache | `MCQuery` | `Query_proofs` |
| `RequestLimiter` | the spacing of provider calls, in Answer's and in Retrieval's form | `MCQuery` | `Query_proofs` |
| `AnswerService` | cache, coalescing and permits under concurrent requests | `MCAnswerService` in `MCQuery` | `Query_proofs` |
| `BookStatusStream` | Edge's consumer, hub and SSE handlers | `MCBookStatusStream` | `BookStatusStream_proofs` |
| `EdgeRequests` | a request through checks, handler, client and server, and its error on the way back | `MCServices` | `Edge_proofs` |
| `EdgeAdmission` | rate limits, concurrency limit, panics and the completion record | `MCServices` | `Edge_proofs` |
| `IdentityAccount` | registration, verification, decision, bootstrap, mail outbox, administrators' streams | `MCIdentity` | `Identity_proofs` |
| `IdentitySession` | sessions, refresh rotation, login, password reset, with their row locks | `MCIdentity` | `Identity_proofs` |
| `Settings`, `IngestionConfig`, `RetrievalConfig`, `OnlineConfig` | the loaders of the services: range and default of every setting, and the checks between them | `MCServices` | |
| `Deployment` | the environments of groups of processes | `MCServices` | |

Conventions. A repository method is one database transaction and one action. A method
that holds a mutex is one action. Calls to object storage, Qdrant, the broker or the
generator are steps of their own, so every other actor may run between them and the
next transaction. `(* Fault: ... *)` introduces an operator that is a plausible bug of
the definition after it; `mutants` replaces the one by the other and TLC must then find
the named property violated. These operators are otherwise unused. Parts that share no state are run side by side in one MC module: a variable
`side` (or `part`) says which of them a behaviour moves, and the others rest in their
initial states. `MCWorkers` is the *upload* side of `IngestionJob` itself and three instances of
`RetrievalIndex` with constants of their own, *lifecycle*, *batches* and *outage*; `IndexSound` says of
each instance what its constants admit.

### CatalogBook, CatalogStatusFeed

`books`, `inbox`, `ackInbox`, `commands`, `outbox` are the tables; `objects` are the
originals in storage; `marks` are deleters (the delete command, the reconciler) that
removed an original and have not yet called `MarkOriginalDeleted`. `UploadBook` is
`Create`; `ApplyProcessingEvent` takes any decoded fact of any generation, so
repetition, loss and reordering need no queue; `ReindexBook` and `DeleteBook` are
`ApplyLifecycleCommand`; `ApplyLifecycleAck`, `MarkOriginalDeleted` and `Settle` are the
confirmations and `finalizeDeletion`; `LoseMark` is a stop between removing the original
and recording it. A row stays in `outbox` when it is published, so that the properties
speak of everything a dispatcher may send; only `finalizeDeletion` removes rows.
`CatalogStatusFeed` adds Edge's `validState`: an event it refuses is dropped without a
trace, so `EdgeAcceptsStatus` says the five transactions never combine status, stage,
failure and detail in a way it refuses. It holds on condition that Ingestion reports one
outcome per generation, which `LeaseExclusive` checks on Ingestion's side: without
the condition, *failed* with a detail and *chunks ready* of one generation followed by a
reindex leave a detail without a failure, because the reindex command resets the failure
category and not the detail.

### OrderedDelivery, CatalogOutbox

The abstract specification has three numbers per book: events committed, the latest the
broker took, the latest settled. Event *n* is handed over for the first time only when all
earlier ones are settled. `CatalogOutbox` has the rows with their lease, delay and attempt,
the batch each dispatcher claimed and the one publication it waits for. Its refinement
mapping counts rows and remembers what the broker took (`taken`); `OrderedAtLeastOnce` is
`OrderSpec` under that mapping, safety and liveness, checked by TLC; the safety part is proved. Leases end while their
holder publishes, `MarkPublished` fails after the publish, mandatory messages are returned,
processes stop. `RetryOutbox` by a holder whose lease ended clears the lease of another
process; the model has that, and the order still holds because the database only offers a row
when its predecessors are published.

### CatalogUpload, CatalogConsumer

An upload puts its object, commits its row, and after an ambiguous commit looks the row up;
the reconciler lists objects in pages, asks which are referenced and deletes the others when
they are older than the grace period. A commit may land late. `UploadKeepsObject` names that
exception (`late`): a row whose commit lands after the lookup found none has lost its object
(`service.go:352`). A failing `MarkOriginalDeleted` ends a reconciler pass before the orphans;
the fault is bounded in the run. A pass lists the bucket forward, so its candidates and orphans are
sets taken in the order of their numbers. The largest upload timeout (10 minutes) exceeds the smallest grace
period (5 minutes) and the loader does not compare them.

`CatalogConsumer` has the copies of each fact with the count in their header, the delivery
being handled and what it came to. The retry publishes a copy, waits for the confirm and
acknowledges; a break of the channel in between leaves two copies or one. Headers that cannot
be read count as the limit, so such a message is tried once.

### IngestionJob

`job` is the row with its state, attempts, claim and one countdown (lease, selection wait
or next attempt); `fence` the lifecycle fence; `dispatches` the retry dispatches by
attempt; `outbox` the three numbered rows; `artifacts` and `objects` the artifact set and
what storage holds; `deletion` the deletion inbox; `slots` the messages in the broker and
the handlers that hold one; `cleaner` the cleanup passes between their two transactions.
A claim number stands for the owner, attempt and expiry of `ClaimToken`. Time is `Tick`,
which counts every deadline down at once and waits for handlers that have a deadline of
their own; `LateTick` lets a lease end while its holder is still in a transaction.
Two history variables name what the code cannot keep, so that the properties can except exactly
that: `overtaken`, the retry under way met a dispatch of its attempt that was published or due
earlier (`postgres.go:786`: the upsert keeps the earlier time, and the message comes too soon or
not at all); `hastened`, a `Complete` that met the deletion after its lease had ended dated
`cleanup_after` back to now (`postgres.go:698`) while its successor was working. Both happen within the
bounds of the runs.

### RetrievalIndex

`meta`, `manifest`, `life`, `job`, `batch`, `outbox`/`sent` are the tables, `msgs` the
queues, `vec` the points of each generation and shard in Qdrant (staged or visible),
`worker` the handlers with the step they are at, `ticker` the cleanup ticker's item.
`FilterIndexed` is the condition search puts on a job. Merges: the read of pending vector
cleanups and `DeleteJob` are one step; the dispatcher does not publish a row deleted
since it was read. Assumption: a handler's context (the invocation timeout, 3 minutes by
default and at most 13) plus the failure-record timeout ends before `StaleBatchAge` and
`FinalizationLease` (15 minutes by default), so a live handler is never taken for a stale
one; the configuration does not enforce that relation.

### RetrievalSearch, EvidenceAssessor, EvidenceAssessment, RequestLimiter

`RetrievalSearch` reads pages from three retrievers, asks PostgreSQL after each page which
jobs are active, fuses ranks in units of `1/Scale` and groups the accepted chunks by document;
between any two steps a book may be reindexed, withdrawn or cleaned up. A response may mix two
generations of one book, both of which were active during the search, and stale points may crowd
active ones out of the candidate budget, so completeness is claimed only within the budget and
for an undisturbed corpus. `EvidenceAssessor` classifies what one attempt came to (a 408 is
not retryable by its status but is transient inside an error envelope) and backs off.
`EvidenceAssessment` reserves attempts from the search's budget, memoises per search, and
shares a durable cache whose lookup (an UPDATE and a SELECT) is one step; a full cache whose
entries were all hit evicts a new entry at once. `RequestLimiter` holds the reservations; time
is `TimePasses`, and `checksContext` chooses Answer's limiter, which refuses a caller whose
context ended, or Retrieval's, which grants it.

### BookStatusStream

`catalog` is the newest version Catalog published of each book, `flight` the events in
the queue (delivered in any order, possibly repeated), `lost` the books whose event the
queue's drop-head or a broken connection lost; `consumer`, `connected`, `available` the
connection; `subs`, `who`, `bySession`, `byIP`, `pending`, `resync`, `wake`, `closed` the
hub; `writer`, `batch`, `shown` each SSE handler and what its browser was told. A resync
frame makes the browser read the list again, which is the present state of `catalog`.

### AnswerService

`pc` is where the goroutine of each request is in `Service.Answer`; `req` what it asks
and the evidence its search selected; `entries`, `created` the cache in recency order;
`calls`, `ready`, `outcome`, `joined` the in-flight table with its channels; `permits`
the semaphore; `panicked` records that a closed channel was closed again. A request
generates at most once, so an answer is named by the request that generated it.
Abstractions: a question is its normalized words, its guard tokens and a topic that
stands for modes, topic tokens and an embedding within the configured cosine; the scope
stands for actor, filters, limit and profiles; the ordered evidence is a set of passages
(a passage whose text changed is another passage). `lookup` reads the clock just before
it takes the mutex; both are one step, so an entry may be served later than its time to
live by the time spent waiting for the mutex. `Remaining`, what an eviction leaves of the recency list, is a
recursive function over positions, so that the proofs can reason about it.

### EdgeRequests, EdgeAdmission

`EdgeRequests` follows one operation at a time of a browser that may repeat it: `step` is how
far the request came, `role` that of the authenticated principal, `rpc` and `result` the call and what
the service decided, `late` the calls, with their role, a service still carries out for a caller that
gave up, `cookie`, `current` and `session` the refresh cookie against the session at Identity. Which
errors a service may return comes from its gRPC server, with every arm of its error table; the
translations to a client error and to an HTTP status are the code's. The order is that of
`NewRouter`: request identifier, origin, authenticator, role, rate limit, handler. A route checks the
role of the principal and the service checks it again (`CanRead`, `CanManage`, `CanSearch`,
`CanAnswer`): were the service the stricter of the two, `list` and `get` would turn its refusal into
a 503 (`books_handler.go:173`, `:194`), which `OutcomesTruthful` excludes. A login may end in
a choice of roles, a 200 without session and cookie. A 503 may follow an effect that took place; the repeat of a
single-use operation is then refused with a 4xx, and an upload has no idempotency key. One 503 blames a service
for what the browser did: an upload whose multipart body breaks off ends in the raw read
error (`catalogclient/client.go:86-88`), which `mapBookError` answers with `catalog_unavailable`
(`books_handler.go:299`). `OutcomesTruthful` names that exception (`brokenBody`) and says that the upload took
no effect. `EdgeAdmission` runs requests through
logger, recovery, fixed-window limiter and semaphore; chi's response writer is external.

### IdentityAccount, IdentitySession

The rows of one address. `IdentityAccount`: the accounts by role, the open registration, the
token numbers, mails with attempts and leases, the batches of the mail workers, Edge's watch of
pending changes with its two channels and the administrators' streams. Of the hub's limits only the one
of the process is modelled; those per session and address only refuse more streams. `Decide` asks
for an administrator, not for a live session of one (`validateActor`), so the model allows more than the code. `NothingUntold` has two exceptions:
a mail given up after its attempts, and a change that falls into a break of Edge's watch.
`IdentitySession`: a transaction takes its row locks in several actions, so rotation (token and session in one action,
then user) and reset (challenge, user, tokens) can wait for each other; PostgreSQL then aborts one. Login reads the
password, hashes within the hashing limit and creates a session. A login that read the old
password can create its session after a reset commits: `CredentialsSafe` speaks of the
sessions that were open at the reset.

### Settings and loaders, Deployment

A setting is its smallest, largest and default value; an environment sets some of them; a
loader returns the configuration or refuses. Texts are valid or not. `Deployment` starts a group of
processes that share an environment (the ingestion worker, dispatcher and cleaner; the indexing
worker and its serverless adapter; each server) and edits settings to the values at and next
to their bounds.

`SettingsAgree` claims three things. Processes that share an environment read the same values from it
(`ProcessesAgree`). In every accepted environment the waits the loaders see to are covered
(`WaitsCovered`): the cleaner's grace period exceeds a worker's longest run, and Edge's write timeout the
answer and the search it falls back to. With the defaults, every process starts, and every call, lease
and limit between two processes is listed (`calls`, `leases`, `limits`) and compared (`DefaultsFit`).
The pairs that are the wrong way round are named exactly, so that a change of a default either way
shows. `CutShort`: Edge gives up on Catalog's list (3 s of 5 s), on its lifecycle commands (5 s of 10 s) and on
Identity (3 s of 5 s) before they do, and retrieval and generation together exceed the request time of Answer; the
deadline travels with the call, so the callee stops with its caller, and `EdgeRequests` has the work that is
done all the same (`late`). `Outlived`: a batch of 32 slow publications, or of slow mails, outlives the
lease of its last row, which is why the models of the outboxes let leases end while their holder publishes.

## 3. Runs

Deadlock checking is on for `status_stream`. In the others the system may rest: a book is
deleted or indexed, every request has returned, or a bounded counter is used up. There
`CHECK_DEADLOCK FALSE` is set and progress is stated as liveness where it matters.

| Run | Bounds | Shows |
|---|---|---|
| `services` | 1 book, 2 commands, 3 events, 3 generations; 2 attempts of a request; 2 requests, 2 keys, a table of 1 key, limit 2 per window of 2, concurrency 1; 2 edited settings | the row, its outbox and its original are consistent, deletion converges and is final, the first outcome stands, Edge accepts every status; responses say what happened; limits are exact; processes of one environment agree and the waits between processes are covered, but for the named ones |
| `delivery` | 1 book with 3 events, 2 dispatchers; 2 uploads, pages of 1, 1 fault; 2 facts, retry limit 2, 1 broken channel | the dispatcher implements `OrderedDelivery`; no book loses its original, orphans are collected; every fact is applied or dead-lettered |
| `ingestion_live` | 2 slots, 3 attempts with growing delays (1, 2, 2 ticks), 2 faults, deletion, no selection | every upload settles, failed jobs leave nothing, deletions are acknowledged, a retry is durable, unless an earlier dispatch overtook it |
| `workers` | *upload*: 3 slots, 2 attempts, selection, deletion, 1 fault or a second answer; *lifecycle*: 2 handlers, 1 shard, deletion, 2 generations with 1 duplicate and 1 fault or 3 with 1 fault; *batches*: 2 shards, 2 generations, deletion, 1 fault, no duplicates; *outage*: 1 shard, 2 generations, deletion, 2 faults, no duplicates | one worker per job, artifacts kept or gone (unless a late `Complete` hastened the cleaner), selection before artifacts; in *batches* and *outage* search sees whole generations and a deletion is confirmed without writers, in *lifecycle* one outcome is told and a deleted book holds nothing |
| `retrieval_live` | 2 handlers, 1 shard, 2 generations, deletion, 1 fault or 1 duplicate | one outcome, a deleted book holds nothing, a book stays searchable; planning, settling and deletion happen |
| `status_stream` | 2 books, 2 streams, 2 publications, 1 pending event, 1 fault | no lost wake-up, nothing missed, exact limits, every open stream becomes current or ends |
| `query` | 3 answers over 1 permit and 1 cache entry; 3 callers of the limiter; 2 searches to assess with 2 calls and 1 retry; a search over 3 generations of 2 books and 5 chunks, 2 changes | grounded answers, exact generations, every request returns; only the provider hides passages; calls are bounded and spaced; search returns what was visible |
| `identity` | 2 tokens, 2 mail workers, 2 attempts, 1 stream; 2 refreshes, 1 login, 1 reset, 2 sessions, 3 tokens, 2 grants | decisions and revocations are final, rotations are linear, resets close sessions, changes are told, mails settle |
| `ingestion_late_selection` | 2 attempts, 1 answer, no fault | *violated*, finding 1 |
| `ingestion_timeout` | 3 attempts, 1 answer, no fault | *violated*, finding 2 |
| `retrieval_late_writer` | 1 shard, no fault | *violated*, finding 3 |
| `answer_guard` | 2 requests, no tick | *violated*, finding 4 |

Why the bounds are enough to be interesting. Two handlers are needed for every race, and
the third message in each is a retry or a recovery that uses a free slot. Three lifecycle
versions give a reindex during a reindex, or a deletion during one. A fault is a crash, a
failed or late transaction, a failed publish, a failed store call or a repeated message
at any step; one is enough to reach every recovery path but two. `ingestion_live` has two
faults because its retry intent is recovered by a second mechanism when the first one fails, and
the *outage* of `workers` because a manifest is given up only when its last attempt fails too.
One pending event with two books overflows; one permit and three requests give a leader
without a permit and a follower behind it. Two dispatchers and three events give a stale
holder, a live holder and a successor to overtake; one book suffices because no statement of
the outbox relates two books except the limit of a claim. A table of one key is full for the
second. Two edits reach every check between settings, since each compares two values or a
value with a default. The attempts that are 5 and 10 in Identity's code are 2 here. Symmetry is used only in
runs without liveness (handlers and shards are alike; so are slots, but in `workers`, which explores them as they are); in `query`, which has liveness, the
requests of `AnswerService` are alike too and are named in an order of what they ask, so that one of
the namings of a behaviour is explored.

What the coverage counts say. In a run of several sides TLC counts each side as one action, so that a
single operation that never happens would not show there. The expression counts of those runs
(`-coverage 1`) were read instead; what stays at zero are second lines of defence: a claim
lost before the selection is requested, a second terminal event, a cleanup of an artifact set that is no
longer pending, and a cached answer whose citations do not fit the evidence (`AwaitSelection`,
`insertTerminalOutbox`, `CompleteDeletionArtifact`, `lookup` of `AnswerService`). `ingestion_live` has content selection
off (`Unselected`), so its actions happen only in the *upload* side of `workers`, and there is no
liveness with selection: finding 1 refutes it.

### Fairness

* Ingestion: weak fairness of every handler, the outbox worker, the cleaner and the clock:
  each is a loop that runs for as long as the process does, and processes are restarted.
  Nothing is assumed of the layout worker, nor of faults.
* Retrieval: weak fairness of receiving, of each handler's next step, the dispatcher, the
  recovery ticker and the cleanup ticker (`runBrokerSession`).
* Status stream: weak fairness of the consumer loop and of each handler, whose writes have
  a deadline (`sseWriter.writeFrame`). Browsers may leave at any time.
* Answer: weak fairness of each request's next step; a generation ends within
  `GeneratorTimeout`. No request has to come, be cancelled or see time pass.
* Catalog's outbox: weak fairness of time (leases, delays) and of the steps of a dispatcher;
  strong fairness of claiming, publishing, taking, confirming and marking per book: a
  dispatcher that always restarts, a broker that is not down for ever, and a mark that does
  not fail for ever. Upload and consumer: weak fairness of the request's steps, of the
  reconciler's and of the consumer loop's; faults are bounded.
* Identity: weak fairness of each mail worker's loop and of the ends of leases and delays.
* Assessment and limiter: weak fairness of each search's next step (its calls have deadlines),
  of time and of each waiting caller's timer.

## 4. What is proved

For every value of the constants allowed by the named assumption of each module
(`CatalogAssumption`, `StreamAssumption`, `OutboxAssumption`, `UploadAssumption`, `ConsumerAssumption`,
`IngestionAssumption`, `RetrievalAssumption`, `AnswerAssumption`, `LimiterAssumption`, `AssessmentAssumption`,
`AccountAssumption`, `SessionAssumption`, `AdmissionAssumption`; `EdgeRequests` needs none). They say that bounds and limits are natural numbers, positive where the loaders demand
it, that sets the code counts are finite, and that a placeholder is none of the values; TLC evaluates
them in the runs. Each component has one inductive invariant, and its properties follow from it.

* `CatalogBook_proofs`
  * `TypeCorrect`: types, together with `SequenceBound`: every sequence of the outbox is
    below the sum of the book's processing and lifecycle versions. That bound makes
    `MAX(sequence) + 1` defined (a bounded set of numbers has a maximum) and fresh.
  * `DeletionSafe`: `DeletionConverges` and `OriginalKept`. Neither is inductive: the
    original may be missing only because a deleter with a mark took it, which is
    `MarksFollowDeletion`, and a mark exists only for a book whose deletion was accepted.
  * `DeletionFinal`: `DeletionIrreversible`, from `DeletionConverges` (a deleted book has no
    confirmation left to record) and a description of every step of a row, `RowStep`.
  * `OutboxOrdered`: `SequencesUnique` and `StatusVersionsOrdered`. The strengthening
    `VersionBound` says that no row is ahead of its book, so a row appended for the next
    version has a larger version as well as a larger sequence, also after the purge of
    `finalizeDeletion`.
  * `RowsAccounted`: `BookAccounted`, and `OutcomesStand`: `FirstOutcomeStands`.
  * `StatusContract`: `EdgeAcceptsStatus`, with the condition of section 2 inside the statement. Of a
    queued row nothing can be recovered later, so the invariant `FeedInv` is about the book it was cut from.
    `StageOfStatus` ties the stage to the status. `DetailExplained` is the crux: a failed book with a
    detail *and* a manifest has heard both outcomes of its generation, and only a book with a manifest
    can be reindexed; so the command that leaves the detail in place meets none.
* `CatalogDelivery_proofs`
  * `OutboxConsistent` and `OutboxImplementsDelivery`. Every initial state maps to one of `OrderedDelivery` and
    every step to a step of it or a stutter. `TailInv` carries it: the rows of
    a book that are not published are its last ones, so their number is the distance between what was
    committed and what was settled. `KnownInv` says that whatever a dispatcher holds, however long its lease has
    been over, is at most one past the settled event, and `TakenInv` the same of the broker.
  * `OriginalsKept` (`UploadKeepsObject`). `PassInv` is what the property lacks: an
    object the reconciler looks at belongs to an upload that ended with no commit in doubt, so what is
    unreferenced at the lookup is unreferenced at the delete. `PhaseInv` is what each store holds at each phase.
  * `NoEventLost`, the safety half of `EventsSettle`: what was published is applied, dead-lettered, or still
    has a copy queued or handled, and no copy counts past the retry limit. The retry of the consumer publishes a copy and
    acknowledges the original in two steps; `SettledInv` says that a delivery about to be acknowledged has left
    its event applied or a copy in the queue.
* `IngestionJob_proofs`
  * `LeaseHeld`: `LeaseExclusive`. `ClaimsInv` says that no two handlers hold one claim number and none is
    ahead of the row; `JobInv` ties the row's state to its claim, its attempts and its terminal row.
  * `CommittedKept`: artifacts of a committed attempt stay until a deletion (`CommittedArtifactsKept`), from
    what a cleaner between its two transactions may assume (`CleanerInv`) and who may still be
    writing (`WrittenInv`).
  * `SelectionsFirst`: `SelectionFirst`.
  * `DeletionAcknowledged`: `ArtifactsKeptOrGone` of the whole specification. `FenceInv` and `BarrierInv` say that
    after the fence the only writer is the holder of the lease the barrier waits for, as long as no late
    `Complete` moved the barrier (`hastened`).
* `RetrievalIndex_proofs`: `OutcomesAgreed` (`OneOutcome`), `DeletedStaysEmpty` (`DeletedBookHoldsNothing`)
  and `SearchKept` (`StaysSearchable`), from `IndexInv`: Catalog's lifecycle events are no newer than
  Catalog and none follows a deletion (`OrderInv`); outside a fence the searched generation is the one indexed
  job (`StoreInv`); a deleted book has no rows and
  only its confirmation queued (`EmptyInv`); what Catalog was told is the job's state
  (`ToldInv`); a pending job's finalization lease is held by one handler (`LeaseInv`).
* `BookStatusStream_proofs`: `StreamTyped` (`TypeOK`), `WakeupsKept` (`NoLostWakeup`),
  `StatusesTold` (`NothingMissed`) and `LimitsHold` (`LimitsExact`), from one inductive invariant `StreamInv`.
  Three facts carry it: `FeedInv`, a stream is registered only while the consumer is announced, so a
  new connection starts without subscribers; `IdleInv`, a handler that returned left
  nothing behind, so the next subscriber starts clean; `QueueInv`, a subscriber to be
  resynchronised holds no events, and only a writing handler holds drained ones.
* `Query_proofs`
  * `GenerationsAreExact` (`GenerationsExact`), `AnswersAreGrounded`
    (`AnswersGrounded`) and `CacheServesFit` (`CacheHitsFit`). `KeyedInv`: only a cacheable request uses the
    cache and the table of calls; `ReadyInv`: a call is closed only after its owner generated; `JoinedInv`: a
    follower waits for a call of its own key; `GeneratedInv`: entries, outcomes and answers name finished
    generations. What `Remaining` keeps is shown by a minimal counterexample over the sets of positions.
  * `ProviderNotFlooded` (`GrantsSpaced`, the action half of `RequestsSpaced`): two requests never pass
    within one interval, and where the context is looked at none passes after it ended. `LimiterInv`: whoever waits is queued, nobody holds a reservation before
    the time of the next grant, and that time and the time since the last grant add up to an
    interval (`IntervalKept`), whatever callers left the queue in between.
  * `OnlyTheProviderHides` (`OnlyProviderHides`) and `ProviderBudgetKept` (`WithinBudget`, the safety half of
    `AssessmentBounded`), from `AssessmentInv`. What is left to do is the end of the list (`Remainder`); every
    candidate passed has its judgement and keeps it (`JudgedBefore`), so what was kept is the part of the list that is
    shown; every cached row, every judgement about to be stored and every "irrelevant" a search relies on is the
    provider's word (`RowsSaid`, `Told`), although eviction and refresh permute the shared rows between its lookup and its
    store; attempts happen only inside a reservation, so calls, reserved and remaining add up to the
    limit (`Core`, `AtStage`). That a sub-list grows by its next place (`KeptGrows`) is counted with
    cardinalities, not by induction over the list.
* `Edge_proofs`
  * `AdmissionLimitsHold` (`AdmissionExact`), from `AdmissionInv`. The limiter forgets what it admitted when a window
    ends, so the bound on any window's length speaks of two windows: the ages of recent admissions fall, and a place
    divides those of the running window, which its count bounds, from those of the one before (`Running`, `Rested`).
    `RequestsInv`: the tokens taken are the requests in a handler, also after a panic, and a response
    is recorded as it was written.
  * `BrowserToldTheTruth` (`OutcomesTruthful`), from `OutcomeInv`: which step a request is at fixes what was called,
    by whom and whether it acted, and a finished one was told what happened. That no service refuses a
    role its route admits is `DecisionErrors`. The three translations (server, client, handler)
    are finite tables; a lemma for each remote call says which statuses each of its errors can become.
* `Identity_proofs`
  * `ChangesReachEveryone` (`NothingUntold`) and `DecisionsStand` (`DecisionsFinal`), from `AccountInv`. `FreshInv`: the
    token of the pending registration is mailed and no account has it, which is why a verification can only open a
    new account or reopen a rejected one under another token. `StreamsInv`: what is stale belongs to a subscriber.
  * `CredentialsHold` (`CredentialsSafe`) and `RevocationsFinal` (`RevokedFinal`), from `SessionInv` and `ResetInv`. A
    rotation's reads are still true when it commits because the rows are locked (`RotationInv`); every used token
    has its successor and every session one unused token (`ChainInv`, `UnusedInv`); a session that is not revoked was
    opened under the present password (`OpenInv`); a grant is unused until the transaction that holds its challenge
    commits (`GrantInv`, `ChallengeInv`).

The theorems are about the components' own specifications. The bounds the MC modules add, such as
`MailBound` in `MCIdentity`, only remove behaviours, and side-by-side composition adds none.

Only model-checked:

* liveness under fairness, outside the prover's reach: `IngestionSettles`, `RetrievalSettles`,
  `StreamsCurrentOrOver`, `MailSettles`, `OrphansCollected`, `EveryRequestReturns`, and the liveness parts of
  `OrderedAtLeastOnce`, `EventsSettle`, `AssessmentBounded` and `RequestsSpaced`, whose safety parts are proved;
* `RetryKeptUnlessOvertaken`: that a dispatch is not taken before the job's time needs the ticks of every delay in
  the invariant;
* statements that do not hold for all constants: `SearchSeesWholeGeneration` and
  `ConfirmedWithoutWriters` in `IndexSound`, which need messages delivered once;
* `SearchAnswersVisible`: a search sorts, filters and folds its candidates. What `SortSeq` and `SelectSeq`
  return is defined by recursion over the sequence, so their properties need induction over data;
* `SettingsAgree`: it compares what loaders compute from tables of settings, which are joined by `@@` and read
  by operators that take operators. TLC goes through every environment with at most
  `MaximumEdits` settings edited.

Proved and not run: `TypeCorrect`, `StreamTyped`, `SequencesUnique` and `CommittedKept`, and the inductive invariants.

## 5. Findings

Runs that TLC refutes, each with the line it contradicts in `PROJECT.json`:

1. `ingestion_late_selection`. The dispatch that ends a selection wait is keyed by the
   attempt. A late answer resumes the same attempt; when it fails, `Retry` upserts a
   dispatch of that attempt, finds the published row and stores nothing. The job stays in
   *retrying* with no message to come.
2. `ingestion_timeout`. After a wait timed out and the unfiltered attempt failed, the next
   attempt asks for a selection again under the same outbox sequence and is refused as
   conflicting. The upload goes to the dead-letter queue.
3. `retrieval_late_writer`. `completeDeletion` deletes the vectors, then counts writers. A
   writer past its check may upsert and settle in between; its points outlive the confirmed
   deletion.
4. `answer_guard`. The in-flight key has the normalized words but not the guard tokens the
   cache compares first: "Concurrency in C" and "Concurrency in C++", asked at once over the
   same evidence, get one answer.

Known limits of the code that no property speaks of: a chunks-ready fact after the outcome
stores the manifest without a status row, so the last row sent may still say the book cannot be
reindexed (`postgres_book_repository.go:247`); a finalization that fails for good is retried with
its attempts counted from zero (`postgres.go:807`); the hub keeps no version after a drain, so an
older event delivered later reaches the browser (`book_events.go:177`); what the queue's drop-head
discards is followed by no resync (`consumer.go:90`, the model's `lost`).

Two traces happen within the runs and are excepted there by name:

* `overtaken`, in `ingestion_live`: a duplicate upload during an attempt leaves a recovery dispatch at
  the lease's end; `Retry` merges the two due times by `LEAST` (`postgres.go:786`), the message
  returns before `next_attempt_at`, is deferred onto the row that is already published, and acknowledged. The
  job stays in *retrying*. It needs a delay longer than what is left of the lease: a third attempt, as delays grow.
* `hastened`, in `workers`: an attempt is late to `Complete` and its lease ends; a second delivery reclaims the job and
  works; a deletion is accepted and waits for the second lease. The late `Complete` meets the fence
  and sets `cleanup_after` to now (`postgres.go:698`), so the cleaner deletes and the deletion is
  acknowledged while the second attempt still writes. The intent of the barrier is in
  `postgres_integration_test.go:438`, "claimed before active writer lease elapsed".

Two more, seen with other constants of the same modules and without a run here:

* Retrieval, one shard, one duplicate: `UpsertChunks` always writes `indexed="false"`
  (`qdrant.go:549`); a duplicate delivery that stalls between its check and its upsert hides
  points of the generation the other delivery made visible. `SearchSeesWholeGeneration` is
  violated, which is why the *batches* and *outage* sides of `workers` have no duplicates. For the same
  reason `ConfirmedWithoutWriters` needs messages delivered once: a failing second delivery marks
  the batch failed while the first is between its check and its upsert.
* Retrieval, two shards, no fault: one shard fails for good, its job's points are deleted and
  the cleanup recorded (`worker.go:728`) while the writer of the other shard is past
  `CheckBatchActive`; its staged points stay. They are never visible to search.

More limits of the code met while modelling, none of them contradicting a statement of the
repository: Edge's watch of pending changes does not signal a change after it reconnects, so a
change in the gap waits for the next one; the e-mail batch size may be configured above the 100 the
repository admits, and the attempt limit above the 10 after which a mail is never claimed; a crash during the
tenth attempt loses the mail; an expired, unverified registration blocks a new one until the
clean-up or a resend; a fixed window admits up to twice its limit within one window length (in
`AdmissionExact`); `NegativeCompatible` compares the tokens of the lookup with themselves; and
the branch of the assessment without provider and without local assessment cannot be reached.

## 6. Not modelled

* **Parsing, layout, chunking, selection** (`extractor`, `layout`, `chunking`, `selection`, the
  layout worker's own classification): character-level processing of PDF, EPUB and text. Their
  output is data that the other models only compare; a faithful operator would repeat the code.
* **Catalog's preview and paging**: read-only; a page is rendered by an external tool.
* **HTTP and JSON of the providers** beyond the classification of an answer, the embedding client, and
  the text matching of the answer cache (normalisation, tokens, cosine), which enter as what two
  questions have in common.
* **Storage adapters, serverless adapters, bootstrap and entry points**: they call what is modelled,
  one call at a time; their failures are faults of the callers.
* **Tokens, passwords and sealed values**: cryptographic primitives.
* **Metrics, logging, diagnostics, topology and health tools**: no state a property is about.

External systems (RabbitMQ, Qdrant, object storage, PostgreSQL's locks, the text generator, chi)
appear as what the code's calls to them do, may fail to do, or repeat.

## 7. Plan

Done: the modules of section 2 and the theorems of section 4. Next theorem:
`SearchSeesWholeGeneration` of `RetrievalIndex` when every message is delivered once. Next models: an abstract
book that `CatalogBook` implements, and the pipeline of the three services around a deletion.
