--------------------------- MODULE RetrievalIndex ---------------------------
(***************************************************************************)
(* One book in Retrieval: the metadata and manifest facts and the planner, *)
(* the index job of each generation and its batches, the handlers that     *)
(* embed and write vectors, finalization, failure, reindexing, deletion,   *)
(* and the cleanup ticker that recovers what crashed handlers left.        *)
(*                                                                         *)
(* A repository method is one transaction and one action (lockBook-        *)
(* Projection serialises them per book); so is one call to the vector      *)
(* store. Between two of them every other handler may run. A handler's     *)
(* context ends before StaleBatchAge and FinalizationLease, so what a live *)
(* handler holds is never stale. Crashes, failed calls and failed          *)
(* publications are bounded by MaxFaults.                                  *)
(***************************************************************************)
EXTENDS Naturals, FiniteSets

CONSTANTS Workers,      \* concurrent handlers of the worker processes
          Shards,       \* shards of the manifest, one batch each
          MaxVersion,   \* bound on lifecycle versions
          MaxRetry,     \* configuration.MaxRetryAttempts
          Deletion,     \* Catalog may delete the book
          Duplicates,   \* bound on messages delivered twice
          MaxFaults     \* bound on crashes and failed calls

ASSUME RetrievalAssumption ==
    /\ Shards # {} /\ IsFiniteSet(Shards) /\ "document" \notin Shards
    /\ MaxVersion \in Nat \ {0} /\ MaxRetry \in Nat
    /\ Deletion \in BOOLEAN /\ Duplicates \in Nat /\ MaxFaults \in Nat

VARIABLES meta,      \* retrieval.metadata_facts
          manifest,  \* retrieval.manifest_facts
          life,      \* retrieval.book_lifecycle
          job,       \* retrieval.index_jobs, by lifecycle version
          batch,     \* retrieval.index_batches
          outbox,    \* retrieval.outbox, published_at IS NULL
          sent,      \* retrieval.outbox, published
          msgs,      \* messages in the four queues
          vec,       \* points of the book in the Qdrant collection
          worker,    \* handlers in progress
          ticker,    \* the cleanup ticker's current item
          catalog,   \* the lifecycle version Catalog last asked for
          faults,    \* faults still allowed
          dups,      \* duplicated messages still allowed
          dead       \* messages in the dead-letter queues

vars == <<meta, manifest, life, job, batch, outbox, sent, msgs, vec, worker,
          ticker, catalog, faults, dups, dead>>

(* What a handler of a message leaves alone. *)
outside == <<ticker, catalog, faults, dups, dead>>

-----------------------------------------------------------------------------
(* State *)

Versions == 1..MaxVersion

(* The chunk points of each shard, and the document's centroid. *)
Points == Shards \cup {"document"}

JobStates == {"none", "pending", "indexed", "failed"}

NoJob == [state |-> "none", inflight |-> FALSE, vclean |-> FALSE]

PendingJob == [NoJob EXCEPT !.state = "pending"]

(* A job whose points are still to be deleted. *)
FailedJob == [NoJob EXCEPT !.state = "failed", !.vclean = TRUE]

Row(kind, v, s) == [kind |-> kind, v |-> v, s |-> s]

Rows == [kind : {"request"}, v : Versions, s : Shards]
            \cup [kind : {"indexed", "failed", "deleted"}, v : Versions, s : {"document"}]

Requests(v) == {Row("request", v, s) : s \in Shards}

RowsOf(v) == Requests(v) \cup {Row(kind, v, "document") : kind \in {"indexed", "failed"}}

Msg(kind, v, s, attempt) == [kind |-> kind, v |-> v, s |-> s, attempt |-> attempt]

Msgs == [kind : {"metadata", "manifest", "batch", "reindex", "delete"},
         v : Versions, s : Points, attempt : 0..MaxRetry]

(* Where a handler is: the transaction or call it finished last. *)
Steps == {"idle", "projected", "snapshot", "begun", "checked", "upserted", "acquired",
          "prior", "documented", "activated", "finalized", "priorDeleted",
          "failing", "failed", "failedDeleted", "fenced", "bookDeleted"}

Idle == [at |-> "idle", msg |-> Msg("metadata", 1, "document", 0), prior |-> {}]

(* A live handler of a batch; a live holder of a finalization lease. *)
Writing(w, v, s) ==
    /\ worker[w].at \in {"begun", "checked", "upserted", "failing"}
    /\ worker[w].msg.v = v /\ worker[w].msg.s = s

Finalizing(w, v) ==
    /\ worker[w].at \in {"acquired", "prior", "documented", "activated"}
    /\ worker[w].msg.v = v

Init ==
    /\ meta = "none"
    /\ manifest = "none"
    /\ life = [version |-> 0, state |-> "none", active |-> 0, cleanup |-> FALSE]
    /\ job = [v \in Versions |-> NoJob]
    /\ batch = [v \in Versions |-> [s \in Shards |-> "none"]]
    /\ outbox = {} /\ sent = {}
    /\ msgs = {Msg("metadata", 1, "document", 0), Msg("manifest", 1, "document", 0)}
    /\ vec = [v \in Versions |-> [p \in Points |-> "none"]]
    /\ worker = [w \in Workers |-> Idle]
    /\ ticker = [at |-> "idle", v |-> 1]
    /\ catalog = [version |-> 1, deleted |-> FALSE]
    /\ faults = MaxFaults /\ dups = Duplicates /\ dead = {}

-----------------------------------------------------------------------------
(* Shared conditions of the repository's statements *)

(* Fault: a finished deletion no longer fences. *)
FencedWhileDeleting == life.state = "deleting"

lifecycleDeletionFenced == life.state \in {"deleting", "deleted"}

Current(v) == life.version = v /\ life.state \in {"active", "reindexing"}

(* Fault: a batch in progress is not counted. *)
RemainingPending(v) == {s \in Shards : batch[v][s] = "pending"}

Remaining(v) == {s \in Shards : batch[v][s] # "completed"}

(* Fault: the finalization lease is not looked at. *)
AcquirableTwice(v) == job[v].state = "pending" /\ Current(v)

acquirable(v) == job[v].state = "pending" /\ ~job[v].inflight /\ Current(v)

PriorIndexed(v) == {u \in Versions : u < v /\ job[u].state = "indexed"}

(* Search returns evidence of generation v (FilterIndexed, SearchLexical). *)
FilterIndexed(v) ==
    job[v].state = "indexed" /\ life.active = v /\ life.state \in {"active", "reindexing"}

(* Points of an unfinished generation are staged: their payload has indexed "false". *)
ChunksStaged(v, s) == [vec EXCEPT ![v][s] = "staged"]

DocumentStaged(v) == [vec EXCEPT ![v]["document"] = "staged"]

Activated(v) ==
    [vec EXCEPT ![v] = [p \in Points |-> IF @[p] = "none" THEN "none" ELSE "indexed"]]

WithoutPoints(v) == [vec EXCEPT ![v] = [p \in Points |-> "none"]]

NoPoints == [v \in Versions |-> [p \in Points |-> "none"]]

-----------------------------------------------------------------------------
(* Settling a delivery (Runtime.handle) *)

Take(w, m) == worker[w].at = "idle" /\ m \in msgs

Hold(w, m, at) == worker' = [worker EXCEPT ![w] = [at |-> at, msg |-> m, prior |-> {}]]

Continue(w, at) == worker' = [worker EXCEPT ![w].at = at] /\ UNCHANGED msgs

(* Ack, or Nack to the dead-letter queue: the message is gone. *)
Settle(w) == worker' = [worker EXCEPT ![w] = Idle]

Drop(w, m) == msgs' = msgs \ {m} /\ UNCHANGED worker

(* Nack(requeue=false): the message waits in a dead-letter queue for an operator. *)
Lost(m) == dead' = dead \cup {[kind |-> m.kind, v |-> m.v, s |-> m.s]}

(* A retryable error: publishRetry and Ack, or the terminal failure path. *)
RetryLater(w) ==
    LET m == worker[w].msg
    IN  \/ /\ m.attempt < MaxRetry
           /\ msgs' = msgs \cup {[m EXCEPT !.attempt = @ + 1]}
           /\ Settle(w)
           /\ UNCHANGED dead
        \/ m.attempt = MaxRetry /\ m.kind = "batch" /\ Continue(w, "failing") /\ UNCHANGED dead
        \/ m.attempt = MaxRetry /\ m.kind # "batch" /\ Settle(w) /\ Lost(m) /\ UNCHANGED msgs

-----------------------------------------------------------------------------
(* Facts and planning *)

(* materializeStoredFailedManifest: a failed job without batches, once. *)
materializeFailed(metaNow, manifestNow) ==
    IF metaNow # "none" /\ manifestNow = "failed" /\ job[1].state = "none"
    THEN /\ job' = [job EXCEPT ![1].state = "failed"]
         /\ outbox' = outbox \cup {Row("failed", 1, "document")}
    ELSE UNCHANGED <<job, outbox>>

ProjectMetadata(w, m) ==
    /\ Take(w, m) /\ m.kind = "metadata"
    /\ msgs' = msgs \ {m} /\ Hold(w, m, "projected")
    /\ meta' = IF lifecycleDeletionFenced THEN "scrubbed"
               ELSE IF meta = "none" THEN "full" ELSE meta
    /\ life' = IF life.state = "none" THEN [life EXCEPT !.version = 1, !.state = "active"] ELSE life
    /\ materializeFailed(meta', manifest)
    /\ UNCHANGED <<manifest, batch, sent, vec, outside>>

ProjectManifest(w, m) ==
    /\ Take(w, m) /\ m.kind = "manifest"
    /\ msgs' = msgs \ {m}
    /\ IF lifecycleDeletionFenced
       THEN UNCHANGED <<worker, manifest>>
       ELSE Hold(w, m, "projected") /\ manifest' = IF manifest = "none" THEN "ok" ELSE manifest
    /\ UNCHANGED <<meta, life, job, batch, outbox, sent, vec, outside>>

(* FailManifest: a terminal failure, unless the manifest was projected before. *)
recordFailure ==
    IF lifecycleDeletionFenced
    THEN UNCHANGED <<manifest, job, outbox>>
    ELSE /\ manifest' = IF manifest = "none" THEN "failed" ELSE manifest
         /\ materializeFailed(meta, manifest')

(* The manifest is corrupt or of an unsupported profile, at every delivery. *)
FailManifest(w, m) ==
    /\ Take(w, m) /\ m.kind = "manifest" /\ manifest # "ok"
    /\ Drop(w, m)
    /\ recordFailure
    /\ UNCHANGED <<meta, life, batch, sent, vec, outside>>

(* loadSnapshot: plan only with both facts, no job of them and no fence. *)
loadSnapshot(w) ==
    /\ worker[w].at = "projected"
    /\ IF /\ meta # "none" /\ manifest = "ok" /\ ~lifecycleDeletionFenced
          /\ \A v \in Versions : job[v].state = "none"
       THEN Continue(w, "snapshot")
       ELSE Settle(w) /\ UNCHANGED msgs
    /\ UNCHANGED <<meta, manifest, life, job, batch, outbox, sent, vec, outside>>

CommitPlan(w) ==
    /\ worker[w].at = "snapshot"
    /\ Settle(w)
    /\ IF lifecycleDeletionFenced \/ job[1].state # "none"
       THEN UNCHANGED <<life, job, batch, outbox>>
       ELSE /\ job' = [job EXCEPT ![1] = PendingJob]
            /\ life' = IF life.state = "none" THEN [life EXCEPT !.version = 1, !.state = "active"]
                       ELSE life
            /\ batch' = [batch EXCEPT ![1] = [s \in Shards |-> "pending"]]
            /\ outbox' = outbox \cup Requests(1)
    /\ UNCHANGED <<meta, manifest, sent, msgs, vec, outside>>

-----------------------------------------------------------------------------
(* One batch *)

BeginBatch(w, m) ==
    LET v == m.v
        state == batch[v][m.s]
        resume == state = "completed" /\ Remaining(v) = {} /\ acquirable(v)
    IN  /\ Take(w, m) /\ m.kind = "batch"
        /\ msgs' = msgs \ {m}
        /\ IF job[v].state # "pending" \/ manifest # "ok" \/ state = "failed"
              \/ (state = "completed" /\ ~resume)
           THEN UNCHANGED <<worker, job, batch>>
           ELSE IF resume
           THEN /\ job' = [job EXCEPT ![v].inflight = TRUE]
                /\ Hold(w, m, "acquired") /\ UNCHANGED batch
           ELSE /\ batch' = [batch EXCEPT ![v][m.s] = "processing"]
                /\ Hold(w, m, "begun") /\ UNCHANGED job
        /\ UNCHANGED <<meta, manifest, life, outbox, sent, vec, outside>>

CheckBatchActive(w) ==
    LET v == worker[w].msg.v
        s == worker[w].msg.s
    IN  /\ worker[w].at = "begun"
        /\ IF batch[v][s] = "processing" /\ job[v].state = "pending" /\ Current(v)
           THEN Continue(w, "checked") /\ UNCHANGED batch
           ELSE /\ Settle(w) /\ UNCHANGED msgs
                /\ batch' = IF batch[v][s] = "processing"
                            THEN [batch EXCEPT ![v][s] = "failed"] ELSE batch
        /\ UNCHANGED <<meta, manifest, life, job, outbox, sent, vec, outside>>

UpsertChunks(w) ==
    /\ worker[w].at = "checked"
    /\ Continue(w, "upserted")
    /\ vec' = ChunksStaged(worker[w].msg.v, worker[w].msg.s)
    /\ UNCHANGED <<meta, manifest, life, job, batch, outbox, sent, outside>>

CompleteBatch(w) ==
    LET v == worker[w].msg.v
        s == worker[w].msg.s
        last == Remaining(v) \ {s} = {}
        proceed == batch[v][s] \in {"processing", "completed"} /\ (last => acquirable(v))
    IN  /\ worker[w].at = "upserted"
        /\ \/ job[v].state = "none" /\ RetryLater(w) /\ UNCHANGED <<job, batch>>
           \/ /\ job[v].state \in {"indexed", "failed"}
              /\ batch' = IF batch[v][s] = "processing"
                          THEN [batch EXCEPT ![v][s] = "failed"] ELSE batch
              /\ Settle(w) /\ UNCHANGED <<job, msgs, dead>>
           \/ /\ job[v].state = "pending" /\ ~proceed
              /\ Settle(w) /\ UNCHANGED <<job, batch, msgs, dead>>
           \/ /\ job[v].state = "pending" /\ proceed
              /\ batch' = [batch EXCEPT ![v][s] = "completed"]
              /\ UNCHANGED <<msgs, dead>>
              /\ IF last
                 THEN job' = [job EXCEPT ![v].inflight = TRUE]
                      /\ worker' = [worker EXCEPT ![w].at = "acquired"]
                 ELSE UNCHANGED job /\ Settle(w)
        /\ UNCHANGED <<meta, manifest, life, outbox, sent, vec, ticker, catalog, faults, dups>>

(* A shard that is corrupt, or repeats a chunk, fails the job at once. *)
ManifestIntegrity(w) ==
    /\ worker[w].at \in {"begun", "upserted"}
    /\ Continue(w, "failing")
    /\ UNCHANGED <<meta, manifest, life, job, batch, outbox, sent, vec, outside>>

-----------------------------------------------------------------------------
(* Finalization *)

PriorIndexedJobIDs(w) ==
    LET v == worker[w].msg.v
    IN  /\ worker[w].at = "acquired"
        /\ UNCHANGED msgs
        /\ IF job[v].state = "pending" /\ job[v].inflight /\ Current(v)
           THEN worker' = [worker EXCEPT ![w].at = "prior", ![w].prior = PriorIndexed(v)]
           ELSE Settle(w)
        /\ UNCHANGED <<meta, manifest, life, job, batch, outbox, sent, vec, outside>>

(* DocumentRecord needs the job's rows; then the centroid is staged. *)
UpsertDocument(w) ==
    LET v == worker[w].msg.v
    IN  /\ worker[w].at = "prior"
        /\ IF job[v].state = "none"
           THEN RetryLater(w) /\ UNCHANGED vec
           ELSE /\ Continue(w, "documented") /\ UNCHANGED dead
                /\ vec' = DocumentStaged(v)
        /\ UNCHANGED <<meta, manifest, life, job, batch, outbox, sent, ticker, catalog, faults,
                       dups>>

ActivateJob(w) ==
    LET v == worker[w].msg.v
    IN  /\ worker[w].at = "documented"
        /\ Continue(w, "activated")
        /\ vec' = Activated(v)
        /\ UNCHANGED <<meta, manifest, life, job, batch, outbox, sent, outside>>

(* The new generation becomes the searched one and retires the earlier ones. *)
Publish(v) ==
    LET old == PriorIndexed(v)
    IN  /\ job' = [u \in Versions |->
                      IF u = v THEN [job[u] EXCEPT !.state = "indexed", !.inflight = FALSE]
                      ELSE IF u \in old THEN FailedJob
                      ELSE job[u]]
        /\ life' = [life EXCEPT !.active = v, !.state = "active", !.cleanup = FALSE]
        /\ outbox' = (outbox \ UNION {RowsOf(u) : u \in old}) \cup {Row("indexed", v, "document")}

FinalizeJob(w) ==
    LET v == worker[w].msg.v
    IN  /\ worker[w].at = "activated"
        /\ \/ /\ \/ job[v].state = "none"
                 \/ job[v].inflight /\ job[v].state = "pending" /\ Remaining(v) # {}
              /\ RetryLater(w) /\ UNCHANGED <<job, life, outbox>>
           \/ /\ job[v].state # "none" /\ ~job[v].inflight
              /\ Settle(w) /\ UNCHANGED <<job, life, outbox, msgs, dead>>
           \/ /\ job[v].inflight
              /\ job[v].state # "pending" \/ (Remaining(v) = {} /\ ~Current(v))
              /\ job' = [job EXCEPT ![v].inflight = FALSE]
              /\ Settle(w) /\ UNCHANGED <<life, outbox, msgs, dead>>
           \/ /\ job[v].inflight /\ job[v].state = "pending" /\ Current(v) /\ Remaining(v) = {}
              /\ Publish(v) /\ UNCHANGED <<msgs, dead>>
              /\ IF worker[w].prior = {} THEN Settle(w)
                 ELSE worker' = [worker EXCEPT ![w].at = "finalized"]
        /\ UNCHANGED <<meta, manifest, batch, sent, vec, ticker, catalog, faults, dups>>

(* The loop over priorJobIDs: DeleteJob, then CompleteVectorCleanup. *)
OldestPrior(w) == CHOOSE u \in worker[w].prior : \A x \in worker[w].prior : u <= x

DeletePrior(w) ==
    LET u == OldestPrior(w)
    IN  /\ worker[w].at = "finalized"
        /\ vec' = WithoutPoints(u)
        /\ Continue(w, "priorDeleted")
        /\ UNCHANGED <<meta, manifest, life, job, batch, outbox, sent, outside>>

CompletePriorCleanup(w) ==
    LET u == OldestPrior(w)
        rest == worker[w].prior \ {u}
    IN  /\ worker[w].at = "priorDeleted"
        /\ job' = [job EXCEPT ![u].vclean = FALSE]
        /\ worker' = [worker EXCEPT ![w] = IF rest = {} THEN Idle
                                           ELSE [@ EXCEPT !.at = "finalized", !.prior = rest]]
        /\ UNCHANGED <<meta, manifest, life, batch, outbox, sent, msgs, vec, outside>>

-----------------------------------------------------------------------------
(* Failure *)

(* Fault: a failed reindex forgets the earlier generation. *)
NoPrior(v) == 0

(* The newest earlier generation that is still indexed, or none. *)
NewestPrior(v) == CHOOSE u \in PriorIndexed(v) \cup {0} : \A x \in PriorIndexed(v) : x <= u

FailBatch(w) ==
    LET v == worker[w].msg.v
        s == worker[w].msg.s
    IN  /\ worker[w].at = "failing"
        /\ batch' = IF batch[v][s] \in {"none", "completed"} THEN batch
                    ELSE [batch EXCEPT ![v][s] = "failed"]
        /\ UNCHANGED msgs
        /\ IF job[v].state = "pending"
           THEN /\ job' = [job EXCEPT ![v] = FailedJob]
                /\ life' = IF life.version = v /\ life.state = "reindexing"
                           THEN [life EXCEPT !.state = "active", !.active = NewestPrior(v),
                                             !.cleanup = FALSE]
                           ELSE life
                /\ outbox' = outbox \cup {Row("failed", v, "document")}
                /\ worker' = [worker EXCEPT ![w].at = "failed"]
           ELSE /\ job' = [job EXCEPT ![v].inflight = FALSE]
                /\ Settle(w) /\ UNCHANGED <<life, outbox>>
        /\ UNCHANGED <<meta, manifest, sent, vec, outside>>

(* Runtime.failBatch: DeleteJob, and when it worked CompleteVectorCleanup. *)
DeleteFailed(w) ==
    /\ worker[w].at = "failed"
    /\ vec' = WithoutPoints(worker[w].msg.v)
    /\ Continue(w, "failedDeleted")
    /\ UNCHANGED <<meta, manifest, life, job, batch, outbox, sent, outside>>

CompleteFailedCleanup(w) ==
    /\ worker[w].at = "failedDeleted"
    /\ job' = [job EXCEPT ![worker[w].msg.v].vclean = FALSE]
    /\ Settle(w)
    /\ UNCHANGED <<meta, manifest, life, batch, outbox, sent, msgs, vec, outside>>

-----------------------------------------------------------------------------
(* Reindexing and deletion *)

(* checkLifecycleEvent: an event of the stored version is its duplicate. *)
Newer(m) == m.v > life.version

(* A new job, or the failed one of this version again: fresh rows either way. *)
prepareReindexJob(v) ==
    /\ job' = [u \in Versions |->
                   IF u = v THEN PendingJob
                   ELSE IF job[u].state = "pending"
                   THEN [job[u] EXCEPT !.state = "failed", !.vclean = TRUE]
                   ELSE job[u]]
    /\ batch' = [batch EXCEPT ![v] = [s \in Shards |-> "pending"]]
    /\ outbox' = (outbox \ RowsOf(v)) \cup Requests(v)
    /\ sent' = sent \ RowsOf(v)

ApplyReindex(w, m) ==
    /\ Take(w, m) /\ m.kind = "reindex"
    /\ Drop(w, m)
    /\ IF /\ life.state # "none" /\ Newer(m) /\ meta # "none" /\ manifest = "ok"
          /\ job[m.v].state \in {"none", "failed"}
       THEN /\ life' = [life EXCEPT !.version = m.v, !.state = "reindexing", !.cleanup = FALSE]
            /\ prepareReindexJob(m.v)
       ELSE UNCHANGED <<life, job, batch, outbox, sent>>
    /\ UNCHANGED <<meta, manifest, vec, outside>>

FenceDeletion(w, m) ==
    /\ Take(w, m) /\ m.kind = "delete"
    /\ msgs' = msgs \ {m}
    /\ IF Newer(m)
       THEN /\ life' = [version |-> m.v, state |-> "deleting", active |-> 0, cleanup |-> TRUE]
            /\ job' = [u \in Versions |-> IF job[u].state = "pending"
                                          THEN [job[u] EXCEPT !.state = "failed", !.vclean = FALSE]
                                          ELSE job[u]]
            /\ Hold(w, m, "fenced")
       ELSE /\ UNCHANGED <<life, job>>
            /\ IF m.v = life.version /\ life.cleanup THEN Hold(w, m, "fenced")
               ELSE UNCHANGED worker
    /\ UNCHANGED <<meta, manifest, batch, outbox, sent, vec, outside>>

(* completeDeletion: the points of every generation first, then the rows. *)
DeleteBook(w) ==
    /\ worker[w].at = "fenced"
    /\ vec' = NoPoints
    /\ Continue(w, "bookDeleted")
    /\ UNCHANGED <<meta, manifest, life, job, batch, outbox, sent, outside>>

activeWriters ==
    \E v \in Versions : job[v].inflight \/ \E s \in Shards : batch[v][s] = "processing"

(* The rows of the book go, the metadata is scrubbed, Catalog will be told. *)
deleteRows ==
    /\ manifest' = "none"
    /\ meta' = IF meta = "none" THEN "none" ELSE "scrubbed"
    /\ job' = [v \in Versions |-> NoJob]
    /\ batch' = [v \in Versions |-> [s \in Shards |-> "none"]]
    /\ life' = [life EXCEPT !.state = "deleted", !.active = 0, !.cleanup = FALSE]
    /\ outbox' = (outbox \ UNION {RowsOf(v) : v \in Versions})
                    \cup {Row("deleted", life.version, "document")}

CompleteDeletion(w) ==
    /\ worker[w].at = "bookDeleted"
    /\ IF life.state = "deleted"
       THEN Settle(w) /\ UNCHANGED <<meta, manifest, life, job, batch, outbox, msgs, dead>>
       ELSE IF activeWriters
       THEN RetryLater(w) /\ UNCHANGED <<meta, manifest, life, job, batch, outbox>>
       ELSE deleteRows /\ Settle(w) /\ UNCHANGED <<msgs, dead>>
    /\ UNCHANGED <<sent, vec, ticker, catalog, faults, dups>>

-----------------------------------------------------------------------------
(* The dispatch and cleanup tickers *)

dispatchOutbox(r) ==
    /\ r \in outbox
    /\ msgs' = IF r.kind = "request" THEN msgs \cup {Msg("batch", r.v, r.s, 0)} ELSE msgs
    /\ outbox' = outbox \ {r} /\ sent' = sent \cup {r}
    /\ UNCHANGED <<meta, manifest, life, job, batch, vec, worker, outside>>

(* The request goes out again. *)
Replay(r) == outbox' = outbox \cup {r} /\ sent' = sent \ {r}

(* A message that waited longer than StaleBatchAge is now there twice. *)
countDuplicate(v, s) ==
    IF \E m \in msgs : m.kind = "batch" /\ m.v = v /\ m.s = s
    THEN dups > 0 /\ dups' = dups - 1
    ELSE UNCHANGED dups

RecoverStaleBatch(v, s) ==
    /\ batch[v][s] = "processing" /\ \A w \in Workers : ~Writing(w, v, s)
    /\ IF job[v].state = "pending"
       THEN /\ batch' = [batch EXCEPT ![v][s] = "pending"]
            /\ Replay(Row("request", v, s))
            /\ countDuplicate(v, s)
       ELSE batch' = [batch EXCEPT ![v][s] = "failed"] /\ UNCHANGED <<outbox, sent, dups>>
    /\ UNCHANGED <<meta, manifest, life, job, msgs, vec, worker, ticker, catalog, faults, dead>>

(* Fault: the lease is released and nothing resumes. *)
ReleaseStaleFinalization(v) ==
    /\ job[v].inflight /\ \A w \in Workers : ~Finalizing(w, v)
    /\ job' = [job EXCEPT ![v].inflight = FALSE]
    /\ UNCHANGED <<meta, manifest, life, batch, outbox, sent, msgs, vec, worker, outside>>

(* The request replayed is the one with the smallest event id, which may   *)
(* be that of any shard.                                                   *)
RecoverStaleFinalization(v) ==
    /\ job[v].inflight /\ \A w \in Workers : ~Finalizing(w, v)
    /\ job' = [job EXCEPT ![v].inflight = FALSE,
                          ![v].vclean = IF job[v].state = "failed" THEN TRUE ELSE @]
    /\ IF job[v].state = "pending" THEN \E s \in Shards : Replay(Row("request", v, s))
       ELSE UNCHANGED <<outbox, sent>>
    /\ UNCHANGED <<meta, manifest, life, batch, msgs, vec, worker, outside>>

retryPendingVectorCleanup(v) ==
    /\ ticker.at = "idle" /\ job[v].state = "failed" /\ job[v].vclean
    /\ vec' = WithoutPoints(v)
    /\ ticker' = [at |-> "vectors", v |-> v]
    /\ UNCHANGED <<meta, manifest, life, job, batch, outbox, sent, msgs, worker, catalog, faults,
                   dups, dead>>

CompleteVectorCleanup ==
    /\ ticker.at = "vectors"
    /\ job' = [job EXCEPT ![ticker.v].vclean = FALSE]
    /\ ticker' = [ticker EXCEPT !.at = "idle"]
    /\ UNCHANGED <<meta, manifest, life, batch, outbox, sent, msgs, vec, worker, catalog, faults,
                   dups, dead>>

RetryDeletions ==
    /\ ticker.at = "idle" /\ life.state = "deleting" /\ life.cleanup
    /\ vec' = NoPoints
    /\ ticker' = [ticker EXCEPT !.at = "book"]
    /\ UNCHANGED <<meta, manifest, life, job, batch, outbox, sent, msgs, worker, catalog, faults,
                   dups, dead>>

(* CompleteDeletion, or RetryDeletionCleanup sets a later attempt. *)
TickerCompletesDeletion ==
    /\ ticker.at = "book"
    /\ ticker' = [ticker EXCEPT !.at = "idle"]
    /\ IF life.state = "deleting" /\ ~activeWriters THEN deleteRows
       ELSE UNCHANGED <<meta, manifest, life, job, batch, outbox>>
    /\ UNCHANGED <<sent, msgs, vec, worker, catalog, faults, dups, dead>>

-----------------------------------------------------------------------------
(* Catalog, external: it asks for a reindex of a finished generation only. *)

CatalogReindex ==
    LET v == catalog.version
    IN  /\ ~catalog.deleted /\ v < MaxVersion /\ manifest = "ok"
        /\ {Row("indexed", v, "document"), Row("failed", v, "document")} \cap sent # {}
        /\ catalog' = [catalog EXCEPT !.version = v + 1]
        /\ msgs' = msgs \cup {Msg("reindex", v + 1, "document", 0)}
        /\ UNCHANGED <<meta, manifest, life, job, batch, outbox, sent, vec, worker, ticker, faults,
                       dups, dead>>

CatalogDelete ==
    LET v == catalog.version
    IN  /\ Deletion /\ ~catalog.deleted /\ v < MaxVersion
        /\ catalog' = [version |-> v + 1, deleted |-> TRUE]
        /\ msgs' = msgs \cup {Msg("delete", v + 1, "document", 0)}
        /\ UNCHANGED <<meta, manifest, life, job, batch, outbox, sent, vec, worker, ticker, faults,
                       dups, dead>>

-----------------------------------------------------------------------------
(* Faults *)

(* The broker delivers a message again while it is handled: its row was     *)
(* published twice (MarkPublished failed, or a second dispatcher read it),  *)
(* or the Ack was lost.                                                     *)
DeliverTwice(w) ==
    /\ worker[w].at # "idle" /\ dups > 0
    /\ msgs' = msgs \cup {worker[w].msg} /\ dups' = dups - 1
    /\ UNCHANGED <<meta, manifest, life, job, batch, outbox, sent, vec, worker, ticker, catalog,
                   faults, dead>>

(* The broker redelivers; deliveryAttempt may count it (x-delivery-count). *)
Crash(w) ==
    LET m == worker[w].msg
    IN  /\ worker[w].at # "idle" /\ faults > 0
        /\ \E n \in {m.attempt, m.attempt + 1} :
               n <= MaxRetry /\ msgs' = msgs \cup {[m EXCEPT !.attempt = n]}
        /\ Settle(w)
        /\ faults' = faults - 1
        /\ UNCHANGED <<meta, manifest, life, job, batch, outbox, sent, vec, ticker, catalog, dups,
                       dead>>

(* A call to the vector store may fail after it took effect. *)
PartialCall(w) ==
    LET v == worker[w].msg.v
    IN  \/ vec' = vec
        \/ worker[w].at = "checked" /\ vec' = ChunksStaged(v, worker[w].msg.s)
        \/ worker[w].at = "prior" /\ job[v].state # "none" /\ vec' = DocumentStaged(v)
        \/ worker[w].at = "documented" /\ vec' = Activated(v)
        \/ worker[w].at = "finalized" /\ vec' = WithoutPoints(OldestPrior(w))
        \/ worker[w].at = "fenced" /\ vec' = NoPoints

(* The next call of a handler fails: a retry, or publishRetry fails as well. *)
CallFails(w) ==
    /\ worker[w].at \notin {"idle", "failing", "failed", "failedDeleted"} /\ faults > 0
    /\ faults' = faults - 1
    /\ PartialCall(w)
    /\ \/ RetryLater(w)
       \/ /\ worker[w].msg.attempt < MaxRetry
          /\ Settle(w) /\ Lost(worker[w].msg) /\ UNCHANGED msgs
    /\ UNCHANGED <<meta, manifest, life, job, batch, outbox, sent, ticker, catalog, dups>>

(* The first transaction of a handler fails. *)
FirstCallFails(w, m) ==
    /\ Take(w, m) /\ faults > 0
    /\ faults' = faults - 1
    /\ \/ /\ m.attempt < MaxRetry
          /\ msgs' = (msgs \ {m}) \cup {[m EXCEPT !.attempt = @ + 1]}
          /\ UNCHANGED <<worker, dead>>
       \/ /\ m.attempt = MaxRetry /\ m.kind = "batch"
          /\ msgs' = msgs \ {m} /\ Hold(w, m, "failing") /\ UNCHANGED dead
       \/ /\ m.attempt < MaxRetry \/ m.kind # "batch"
          /\ Drop(w, m) /\ Lost(m)
    /\ UNCHANGED <<meta, manifest, life, job, batch, outbox, sent, vec, ticker, catalog, dups>>

(* failManifestArtifactRead: the object store fails the last attempt too. *)
ManifestUnreadable(w, m) ==
    /\ Take(w, m) /\ m.kind = "manifest" /\ m.attempt = MaxRetry /\ faults > 0
    /\ faults' = faults - 1
    /\ Drop(w, m)
    /\ recordFailure
    /\ UNCHANGED <<meta, life, batch, sent, vec, ticker, catalog, dups, dead>>

(* FailBatch or CompleteVectorCleanup fails: failureRecordingRetryAttempt. *)
RecordFails(w) ==
    LET m == worker[w].msg
    IN  /\ worker[w].at \in {"failing", "failedDeleted"} /\ faults > 0
        /\ faults' = faults - 1
        /\ Settle(w)
        /\ \/ /\ m.attempt < MaxRetry
              /\ msgs' = msgs \cup {[m EXCEPT !.attempt = @ + 1]} /\ UNCHANGED dead
           \/ UNCHANGED msgs /\ Lost(m)
        /\ UNCHANGED <<meta, manifest, life, job, batch, outbox, sent, vec, ticker, catalog, dups>>

(* failBatch: a failed DeleteJob is left to the cleanup ticker. *)
DeleteFailedFails(w) ==
    /\ worker[w].at = "failed" /\ faults > 0
    /\ faults' = faults - 1
    /\ vec' \in {vec, WithoutPoints(worker[w].msg.v)}
    /\ Settle(w)
    /\ UNCHANGED <<meta, manifest, life, job, batch, outbox, sent, msgs, ticker, catalog, dups,
                   dead>>

TickerStops ==
    /\ ticker.at # "idle" /\ faults > 0
    /\ faults' = faults - 1
    /\ ticker' = [ticker EXCEPT !.at = "idle"]
    /\ UNCHANGED <<meta, manifest, life, job, batch, outbox, sent, msgs, vec, worker, catalog,
                   dups, dead>>

-----------------------------------------------------------------------------

Receive(w) ==
    \E m \in msgs :
        \/ ProjectMetadata(w, m) \/ ProjectManifest(w, m) \/ FailManifest(w, m)
        \/ BeginBatch(w, m) \/ ApplyReindex(w, m) \/ FenceDeletion(w, m)

Handle(w) ==
    \/ loadSnapshot(w) \/ CommitPlan(w)
    \/ CheckBatchActive(w) \/ UpsertChunks(w) \/ CompleteBatch(w) \/ ManifestIntegrity(w)
    \/ PriorIndexedJobIDs(w) \/ UpsertDocument(w) \/ ActivateJob(w) \/ FinalizeJob(w)
    \/ DeletePrior(w) \/ CompletePriorCleanup(w)
    \/ FailBatch(w) \/ DeleteFailed(w) \/ CompleteFailedCleanup(w)
    \/ DeleteBook(w) \/ CompleteDeletion(w)

Recover ==
    \E v \in Versions : RecoverStaleFinalization(v) \/ \E s \in Shards : RecoverStaleBatch(v, s)

Cleanup ==
    \/ \E v \in Versions : retryPendingVectorCleanup(v)
    \/ CompleteVectorCleanup \/ RetryDeletions \/ TickerCompletesDeletion

Fault ==
    \/ \E w \in Workers : \/ DeliverTwice(w) \/ Crash(w) \/ CallFails(w) \/ RecordFails(w)
                          \/ DeleteFailedFails(w)
                          \/ \E m \in msgs : FirstCallFails(w, m) \/ ManifestUnreadable(w, m)
    \/ TickerStops

Next ==
    \/ \E w \in Workers : Receive(w) \/ Handle(w)
    \/ \E r \in outbox : dispatchOutbox(r)
    \/ Recover \/ Cleanup \/ CatalogReindex \/ CatalogDelete \/ Fault

Spec == Init /\ [][Next]_vars

(* The consumers, the dispatch ticker and the cleanup ticker keep running. *)
Fairness ==
    /\ WF_vars(\E w \in Workers : Receive(w))
    /\ \A w \in Workers : WF_vars(Handle(w))
    /\ WF_vars(\E r \in outbox : dispatchOutbox(r))
    /\ WF_vars(Cleanup)

-----------------------------------------------------------------------------
(* Properties *)

(* The state keeps its types. *)
TypeOK ==
    /\ meta \in {"none", "full", "scrubbed"}
    /\ manifest \in {"none", "ok", "failed"}
    /\ life \in [version : 0..MaxVersion, active : 0..MaxVersion, cleanup : BOOLEAN,
                 state : {"none", "active", "reindexing", "deleting", "deleted"}]
    /\ job \in [Versions -> [state : JobStates, inflight : BOOLEAN, vclean : BOOLEAN]]
    /\ batch \in [Versions -> [Shards -> {"none", "pending", "processing", "completed", "failed"}]]
    /\ outbox \subseteq Rows /\ sent \subseteq Rows
    /\ msgs \subseteq Msgs
    /\ vec \in [Versions -> [Points -> {"none", "staged", "indexed"}]]
    /\ worker \in [Workers -> [at : Steps, msg : Msgs, prior : SUBSET Versions]]
    /\ ticker \in [at : {"idle", "vectors", "book"}, v : Versions]
    /\ catalog \in [version : Versions, deleted : BOOLEAN]
    /\ faults \in 0..MaxFaults /\ dups \in 0..Duplicates
    /\ dead \subseteq [kind : {"metadata", "manifest", "batch", "reindex", "delete"},
                      v : Versions, s : Points]

(* Search filters on the job's rows and on the points' payload: a generation *)
(* that FilterIndexed admits has every point of every shard, and its         *)
(* centroid, in the store and activated.                                     *)
SearchSeesWholeGeneration ==
    \A v \in Versions : FilterIndexed(v) => \A p \in Points : vec[v][p] = "indexed"

(* From its first finalization until its deletion is fenced a book stays     *)
(* searchable, in the same or a newer generation: through reindexing, failed *)
(* reindexing, crashes and retries.                                          *)
KeepsSearchable ==
    \A v \in Versions : FilterIndexed(v) =>
        lifecycleDeletionFenced' \/ \E u \in Versions : u >= v /\ FilterIndexed(u)'

(* Catalog is told one outcome of a generation, and it is the outcome of the *)
(* job: indexed rows belong to jobs that are searched or were retired by a   *)
(* newer generation, failed rows to failed jobs.                             *)
OutcomesAgree ==
    \A v \in Versions :
        LET told(kind) == Row(kind, v, "document") \in outbox \cup sent
        IN  /\ ~(told("indexed") /\ told("failed"))
            /\ told("indexed") => \/ FilterIndexed(v) \/ lifecycleDeletionFenced
                                  \/ job[v].state = "failed" /\ life.active > v
            /\ told("failed") => job[v].state = "failed" \/ life.state = "deleted"

(* The finalization lease admits one finalizer of a generation at a time, so *)
(* FinalizeJob is reached only by a handler that activated the points.       *)
OneFinalizer ==
    \A v \in Versions : \A w, x \in Workers : Finalizing(w, v) /\ Finalizing(x, v) => w = x

(* A generation has one finalizer and Catalog hears one outcome of it,       *)
(* whatever is delivered twice, crashes or fails.                            *)
OneOutcome == TypeOK /\ OutcomesAgree /\ OneFinalizer

(* No step takes a searchable generation away without a fence or a newer one. *)
StaysSearchable == [][KeepsSearchable]_vars

(* Once deletion is complete nothing brings the book back: no job, batch,    *)
(* manifest or readable metadata, and no event but the confirmation waits.   *)
DeletedBookHoldsNothing ==
    life.state = "deleted" =>
        /\ manifest = "none" /\ meta # "full"
        /\ \A v \in Versions : job[v].state = "none" /\ \A s \in Shards : batch[v][s] = "none"
        /\ \A r \in outbox : r.kind = "deleted"

(* A deletion is confirmed to Catalog only when no handler is between its    *)
(* check of the lifecycle and its vector write: the batch it works on is     *)
(* in processing. With Duplicates > 0 another delivery of the batch can fail *)
(* it meanwhile, so this is a property of messages delivered once.           *)
ConfirmedWithoutWriters ==
    life.state = "deleted" => \A w \in Workers : worker[w].at # "checked"

(* The vectors of a deleted book are gone once the deletion is confirmed.    *)
DeletionLeavesNoVectors ==
    life.state = "deleted" /\ (\A w \in Workers : worker[w].at = "idle") => vec = NoPoints

(* With both facts the book is planned, unless an outage dead-lettered one.  *)
PlanningHappens ==
    meta = "full" /\ manifest = "ok"
        ~> (\E v \in Versions : job[v].state # "none") \/ lifecycleDeletionFenced
            \/ \E d \in dead : d.kind \in {"metadata", "manifest"}

(* Every pending job is finalized or fails, whatever crashed, unless an      *)
(* outage dead-lettered one of its batch messages.                           *)
JobSettles ==
    \A v \in Versions :
        job[v].state = "pending"
            ~> job[v].state # "pending" \/ \E d \in dead : d.kind = "batch" /\ d.v = v

(* A deletion that Retrieval has recorded is confirmed in the end.           *)
DeletionSettles ==
    life.state = "deleting" ~> life.state = "deleted" /\ \E r \in sent : r.kind = "deleted"

(* What Retrieval owes Catalog comes in the end: the plan of a book, the     *)
(* outcome of every job, the confirmation of every deletion.                 *)
RetrievalSettles == PlanningHappens /\ JobSettles /\ DeletionSettles

=============================================================================
