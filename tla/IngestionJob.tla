---------------------------- MODULE IngestionJob ----------------------------
(***************************************************************************)
(* One upload on its way through Ingestion: the processing job and its     *)
(* lease, the deliveries that claim it, the optional wait for a content    *)
(* selection, the retry dispatches, the artifacts the worker writes, and   *)
(* the deletion that fences the book and removes them.                     *)
(*                                                                         *)
(* Each repository method is one database transaction and one action. What *)
(* a handler does between two transactions (extracting, writing objects)   *)
(* is a step of its own, so other handlers, the outbox worker, the cleaner *)
(* and the clock run in between. Time is a clock tick that counts every    *)
(* pending deadline down. Crashes, failed transactions, failed publishes   *)
(* and duplicated messages are bounded by one budget, MaxFaults.           *)
(***************************************************************************)
EXTENDS Naturals, FiniteSets

CONSTANTS Slots,           \* places for messages in the broker or in a handler
          MaxAttempts,     \* Config.MaximumAttempts
          MaxDeliveries,   \* BrokerPolicy.MaximumAttempts
          Lease,           \* Config.JobLease, in ticks
          Wait,            \* Policy.ContentSelectionWaitTimeout, in ticks
          RetryDelay,      \* the first, second and subsequent retry delays
          Selection,       \* content selection is enabled
          Deletion,        \* the book may be deleted
          MaxCompletions,  \* bound on completions of the layout worker
          MaxFaults        \* bound on crashes, failures and duplicates

ASSUME IngestionAssumption ==
    /\ MaxAttempts \in Nat \ {0} /\ MaxDeliveries \in Nat \ {0}
    /\ Lease \in Nat \ {0} /\ Wait \in Nat \ {0}
    /\ RetryDelay \in [1..3 -> Nat \ {0}]
    /\ Selection \in BOOLEAN /\ Deletion \in BOOLEAN
    /\ MaxCompletions \in Nat /\ MaxFaults \in Nat

VARIABLES fence,       \* ingestion.lifecycle_fences: the upload's generation, or deleted
          job,         \* ingestion.jobs
          stored,      \* a row of ingestion.content_selection_inbox exists
          dispatches,  \* ingestion.retry_dispatches, by attempt
          outbox,      \* ingestion.outbox: 1 started, 2 selection request, 3 terminal
          terminal,    \* the type of the terminal outbox row
          artifacts,   \* ingestion.artifact_sets
          objects,     \* what is in object storage under the job's prefix
          deletion,    \* ingestion.deletion_inbox and its acknowledgement
          slots,       \* deliveries: in the broker or being handled
          cleaner,     \* cleanup passes in progress
          completions, \* completions the layout worker has published
          dead,        \* deliveries sent to the dead-letter queue, and why
          faults,      \* faults still allowed
          overtaken,   \* history: the retry under way merged into an earlier dispatch
          hastened     \* history: a completion after the deletion cut the cleaner's wait short

vars == <<fence, job, stored, dispatches, outbox, terminal, artifacts, objects,
          deletion, slots, cleaner, completions, dead, faults>>

history == <<overtaken, hastened>>

-----------------------------------------------------------------------------
(* State *)

(* Every attempt past MaxAttempts follows a fault. *)
Attempts == 1..(MaxAttempts + MaxFaults + 1)

JobStates == {"absent", "processing", "awaiting_selection", "retrying",
              "completed", "failed"}

(***************************************************************************)
(* job.timer counts down to lease_expires_at, to the end of the selection  *)
(* wait or to next_attempt_at, whichever the state has. job.claim numbers  *)
(* the claims: it stands for the owner, attempt and expiry of ClaimToken.  *)
(***************************************************************************)
Job == [state : JobStates, attempts : Nat, claim : Nat, timer : Nat,
        manifest : BOOLEAN]

Dispatch == [status : {"none", "pending", "sent", "published"},
             next : Nat, after : Nat]

NoDispatch == [status |-> "none", next |-> 0, after |-> 0]

(* registered/committed; cleanup_after as a countdown once it is scheduled. *)
ArtifactSet == [state : {"none", "registered", "committed"},
                scheduled : BOOLEAN, cleanup : Nat, orphanDone : BOOLEAN,
                deletion : {"no", "pending", "done"}]

Files == {"shards", "manifest"}

MessageKinds == {"upload", "selection", "deletion"}

(***************************************************************************)
(* A delivery. delay counts down to its arrival, or to the next attempt    *)
(* its handler chose. header is the application's delivery count and       *)
(* redelivered the broker's, read only when the first is absent.           *)
(***************************************************************************)
Delivery == [kind : MessageKinds \cup {"none"},
             at : {"free", "queued", "requesting", "working", "persisting"},
             delay : Nat, header : Nat, redelivered : Nat, claim : Nat,
             wrote : SUBSET Files,
             outcome : {"none", "complete", "retry", "fail"}]

Free == [kind |-> "none", at |-> "free", delay |-> 0, header |-> 0,
         redelivered |-> 0, claim |-> 0, wrote |-> {}, outcome |-> "none"]

Message(kind, delay) == [Free EXCEPT !.kind = kind, !.at = "queued", !.delay = delay]

terminalState == {"completed", "failed"}

Init ==
    /\ fence = "none"
    /\ job = [state |-> "absent", attempts |-> 0, claim |-> 0, timer |-> 0,
              manifest |-> FALSE]
    /\ stored = FALSE
    /\ dispatches = [k \in Attempts |-> NoDispatch]
    /\ outbox = [i \in 1..3 |-> "none"]
    /\ terminal = "none"
    /\ artifacts = [state |-> "none", scheduled |-> FALSE, cleanup |-> 0,
                    orphanDone |-> FALSE, deletion |-> "no"]
    /\ objects = {}
    /\ deletion = "none"
    /\ \E s \in Slots : slots = [t \in Slots |-> IF t = s THEN Message("upload", 0) ELSE Free]
    /\ cleaner = [pass \in {"orphan", "deletion"} |-> "idle"]
    /\ completions = 0
    /\ dead = {}
    /\ faults = MaxFaults

-----------------------------------------------------------------------------
(* Settling a delivery *)

deliveryAttempt(m) == IF m.header > 0 THEN m.header ELSE m.redelivered

Acknowledge(s) == slots' = [slots EXCEPT ![s] = Free] /\ UNCHANGED dead

Reject(s) ==
    /\ slots' = [slots EXCEPT ![s] = Free]
    /\ dead' = dead \cup {<<slots[s].kind, "rejected">>}

retryRouteForAttempt(n) == IF n <= 1 THEN RetryDelay[1]
                           ELSE IF n <= 3 THEN RetryDelay[2] ELSE RetryDelay[3]

(* Consumer.retry: publish to a retry queue and acknowledge, or dead-letter. *)
Requeue(s) ==
    LET count == deliveryAttempt(slots[s])
        again == [Message(slots[s].kind, retryRouteForAttempt(count + 1))
                     EXCEPT !.header = count + 1]
    IN  IF count >= MaxDeliveries
        THEN /\ slots' = [slots EXCEPT ![s] = Free]
             /\ dead' = dead \cup {<<slots[s].kind, "exhausted">>}
        ELSE slots' = [slots EXCEPT ![s] = again] /\ UNCHANGED dead

Delivered(s, kind) ==
    slots[s].kind = kind /\ slots[s].at = "queued" /\ slots[s].delay = 0

-----------------------------------------------------------------------------
(* Retry dispatches: one row per attempt, written only while unpublished *)

Least(a, b) == IF a < b THEN a ELSE b

Upsert(d, next, after) ==
    IF d.status = "none" THEN [status |-> "pending", next |-> next, after |-> after]
    ELSE IF d.status = "published" THEN d
    ELSE [d EXCEPT !.next = Least(@, next), !.after = Least(@, after)]

(* Fault: nothing is scheduled. *)
scheduleUploadRecoveryNever(at) == UNCHANGED dispatches

scheduleUploadRecovery(at) ==
    dispatches' = [dispatches EXCEPT ![job.attempts] = Upsert(@, at, at)]

retryDelay(attempt) == RetryDelay[IF attempt <= 2 THEN attempt ELSE 3]

uploadRetryRouteForDelay(delay) ==
    IF delay <= RetryDelay[1] THEN RetryDelay[1]
    ELSE IF delay <= RetryDelay[2] THEN RetryDelay[2] ELSE RetryDelay[3]

-----------------------------------------------------------------------------
(* Accept: the upload *)

(* The step that follows a claim: work, or ask for a selection first. *)
AfterClaim(fallback) ==
    IF ~Selection \/ fallback \/ stored THEN "working" ELSE "requesting"

Handling(s, at, claim) ==
    slots' = [slots EXCEPT ![s] = [@ EXCEPT !.at = at, !.claim = claim]]

Claimed(attempts) ==
    [job EXCEPT !.state = "processing", !.attempts = attempts,
                !.claim = @ + 1, !.timer = Lease]

Fenced == fence = "deleted"

AcceptFenced(s) ==
    /\ Delivered(s, "upload") /\ Fenced
    /\ Acknowledge(s)
    /\ UNCHANGED <<fence, job, stored, dispatches, outbox, terminal, artifacts,
                   objects, deletion, cleaner, completions, faults>>

AcceptNew(s) ==
    /\ Delivered(s, "upload") /\ ~Fenced /\ job.state = "absent"
    /\ fence' = "live"
    /\ job' = Claimed(1)
    /\ outbox' = [outbox EXCEPT ![1] = "pending"]
    /\ artifacts' = [artifacts EXCEPT !.state = "registered"]
    /\ Handling(s, AfterClaim(FALSE), job.claim + 1)
    /\ UNCHANGED <<stored, dispatches, terminal, objects, deletion, cleaner,
                   completions, dead, faults>>

(* existingJobDecision: the job's deadline is past, so it may be claimed. *)
existingJobDecision == job.state \notin terminalState /\ job.timer = 0

AcceptReclaim(s) ==
    /\ Delivered(s, "upload") /\ ~Fenced /\ job.state # "absent"
    /\ existingJobDecision
    /\ job' = Claimed(job.attempts + 1)
    /\ Handling(s, AfterClaim(job.state = "awaiting_selection"), job.claim + 1)
    /\ UNCHANGED <<fence, stored, dispatches, outbox, terminal, artifacts, objects,
                   deletion, cleaner, completions, dead, faults>>

(* Too early: a recovery dispatch at the deadline, and the delivery is done. *)
AcceptDeferred(s) ==
    /\ Delivered(s, "upload") /\ ~Fenced /\ job.state # "absent"
    /\ ~existingJobDecision
    /\ IF job.state \in terminalState THEN UNCHANGED dispatches
       ELSE scheduleUploadRecovery(job.timer)
    /\ Acknowledge(s)
    /\ UNCHANGED <<fence, job, stored, outbox, terminal, artifacts, objects,
                   deletion, cleaner, completions, faults>>

-----------------------------------------------------------------------------
(* The wait for a content selection *)

(* Fault: the row is found by its identifier alone. *)
OwnsAnyClaim(s) == TRUE

(* The row still has the owner, attempt and expiry of the handler's claim. *)
OwnsClaim(s) == job.state = "processing" /\ job.claim = slots[s].claim

(***************************************************************************)
(* AwaitSelection. The request has a fresh identifier each time, so a      *)
(* second request for the job conflicts with the stored one: the           *)
(* transaction is rolled back and the delivery rejected.                   *)
(***************************************************************************)
AwaitSelection(s) ==
    /\ slots[s].at = "requesting"
    /\ IF ~OwnsClaim(s) THEN Requeue(s) /\ UNCHANGED <<job, outbox, dispatches>>
       ELSE IF outbox[2] # "none" THEN Reject(s) /\ UNCHANGED <<job, outbox, dispatches>>
       ELSE /\ job' = [job EXCEPT !.state = "awaiting_selection", !.timer = Wait]
            /\ outbox' = [outbox EXCEPT ![2] = "pending"]
            /\ scheduleUploadRecovery(Wait)
            /\ Acknowledge(s)
    /\ UNCHANGED <<fence, stored, terminal, artifacts, objects, deletion, cleaner,
                   completions, faults>>

(* The layout worker answers the request, late, twice or not at all. *)
LayoutCompletes(s) ==
    /\ Selection /\ outbox[2] = "published" /\ completions < MaxCompletions
    /\ slots[s] = Free
    /\ slots' = [slots EXCEPT ![s] = Message("selection", 0)]
    /\ completions' = completions + 1
    /\ UNCHANGED <<fence, job, stored, dispatches, outbox, terminal, artifacts,
                   objects, deletion, cleaner, dead, faults>>

(* A completed job whose manifest was cleared cannot be restored from its row. *)
Restorable == job.state = "completed" => job.manifest

(* Fault: a late result resumes a job that went on without it. *)
ResumeAnyTime(s) ==
    /\ Delivered(s, "selection") /\ ~Fenced /\ ~stored
    /\ job.state \in {"awaiting_selection", "processing"}
    /\ stored' = TRUE
    /\ job' = Claimed(job.attempts)
    /\ Handling(s, "working", job.claim + 1)
    /\ UNCHANGED <<fence, dispatches, outbox, terminal, artifacts, objects, deletion,
                   cleaner, completions, dead, faults>>

(* AcceptContentSelection, the first result: the same attempt goes on. *)
ResumeAfterSelection(s) ==
    /\ Delivered(s, "selection") /\ ~Fenced
    /\ job.state = "awaiting_selection"
    /\ stored' = TRUE
    /\ job' = Claimed(job.attempts)
    /\ dispatches' = [dispatches EXCEPT ![job.attempts] =
                         IF @.status = "published" THEN @ ELSE NoDispatch]
    /\ Handling(s, "working", job.claim + 1)
    /\ UNCHANGED <<fence, outbox, terminal, artifacts, objects, deletion, cleaner,
                   completions, dead, faults>>

(* acceptDuplicateContentSelection, the lease of the previous claim is over. *)
ReclaimSelected(s) ==
    /\ Delivered(s, "selection") /\ ~Fenced
    /\ stored /\ job.state = "processing" /\ job.timer = 0
    /\ job' = Claimed(job.attempts + 1)
    /\ Handling(s, "working", job.claim + 1)
    /\ UNCHANGED <<fence, stored, dispatches, outbox, terminal, artifacts, objects,
                   deletion, cleaner, completions, dead, faults>>

(* A second answer that differs: the layout worker's parser timed out once. *)
ConflictingSelection(s) ==
    /\ Delivered(s, "selection") /\ ~Fenced /\ stored
    /\ Reject(s)
    /\ UNCHANGED <<fence, job, stored, dispatches, outbox, terminal, artifacts,
                   objects, deletion, cleaner, completions, faults>>

(* Every other result: unreadable row, fence, late, duplicate. *)
SettleSelection(s) ==
    /\ Delivered(s, "selection")
    /\ IF ~Restorable THEN Requeue(s) /\ UNCHANGED dispatches
       ELSE IF Fenced THEN Acknowledge(s) /\ UNCHANGED dispatches
       ELSE /\ job.state # "awaiting_selection"
            /\ IF ~stored THEN Reject(s) /\ UNCHANGED dispatches
               ELSE IF job.state = "processing"
               THEN job.timer > 0 /\ scheduleUploadRecovery(job.timer) /\ Acknowledge(s)
               ELSE Acknowledge(s) /\ UNCHANGED dispatches
    /\ UNCHANGED <<fence, job, stored, outbox, terminal, artifacts, objects,
                   deletion, cleaner, completions, faults>>

-----------------------------------------------------------------------------
(* The work: chunk shards, then the manifest that commits them *)

WriteShards(s) ==
    /\ slots[s].at = "working" /\ "shards" \notin slots[s].wrote
    /\ objects' = objects \cup {"shards"}
    /\ slots' = [slots EXCEPT ![s].wrote = @ \cup {"shards"}]
    /\ UNCHANGED <<fence, job, stored, dispatches, outbox, terminal, artifacts,
                   deletion, cleaner, completions, dead, faults>>

Finalize(s) ==
    /\ slots[s].at = "working" /\ "shards" \in slots[s].wrote
    /\ objects' = objects \cup {"manifest"}
    /\ slots' = [slots EXCEPT ![s].at = "persisting", ![s].outcome = "complete"]
    /\ UNCHANGED <<fence, job, stored, dispatches, outbox, terminal, artifacts,
                   deletion, cleaner, completions, dead, faults>>

(***************************************************************************)
(* processClaimed fails. Abort removes what this writer wrote (an error of *)
(* Abort is ignored), then the failure is classified; a retry is dated     *)
(* now, before its transaction, so delay counts down to next_attempt_at.   *)
(***************************************************************************)
FailWork(s, permanent, aborted) ==
    LET retry == ~permanent /\ job.attempts < MaxAttempts
    IN  /\ slots[s].at = "working"
        /\ objects' = IF aborted THEN objects \ slots[s].wrote ELSE objects
        /\ slots' = [slots EXCEPT ![s].at = "persisting", ![s].wrote = {},
                        ![s].outcome = IF retry THEN "retry" ELSE "fail",
                        ![s].delay = IF retry THEN retryDelay(job.attempts) ELSE 0]
        /\ UNCHANGED <<fence, job, stored, dispatches, outbox, terminal, artifacts,
                       deletion, cleaner, completions, dead, faults>>

(* The first terminal event stays. *)
insertTerminalOutbox(type) ==
    IF outbox[3] = "none"
    THEN outbox' = [outbox EXCEPT ![3] = "pending"] /\ terminal' = type
    ELSE UNCHANGED <<outbox, terminal>>

(***************************************************************************)
(* Complete looks at the fence before the token: artifacts of a deleted    *)
(* book are handed to the cleaner again, the job is left as it is.         *)
(***************************************************************************)
Complete(s) ==
    /\ slots[s].at = "persisting" /\ slots[s].outcome = "complete"
    /\ IF Fenced
       THEN /\ artifacts' = IF artifacts.deletion = "no" THEN artifacts
                            ELSE [artifacts EXCEPT !.deletion = "pending",
                                     !.scheduled = TRUE, !.cleanup = 0]
            /\ Acknowledge(s) /\ UNCHANGED <<job, outbox, terminal>>
       ELSE IF ~OwnsClaim(s)
       THEN Requeue(s) /\ UNCHANGED <<job, outbox, terminal, artifacts>>
       ELSE /\ job' = [job EXCEPT !.state = "completed", !.timer = 0, !.manifest = TRUE]
            /\ artifacts' = [artifacts EXCEPT !.state = "committed"]
            /\ insertTerminalOutbox("ready")
            /\ Acknowledge(s)
    /\ UNCHANGED <<fence, stored, dispatches, objects, deletion, cleaner,
                   completions, faults>>

Fail(s) ==
    /\ slots[s].at = "persisting" /\ slots[s].outcome = "fail"
    /\ IF ~OwnsClaim(s)
       THEN Requeue(s) /\ UNCHANGED <<job, outbox, terminal, artifacts>>
       ELSE /\ job' = [job EXCEPT !.state = "failed", !.timer = 0]
            /\ insertTerminalOutbox("failed")
            /\ artifacts' = IF artifacts.state = "committed" THEN artifacts
                            ELSE [artifacts EXCEPT !.scheduled = TRUE, !.cleanup = 0]
            /\ Acknowledge(s)
    /\ UNCHANGED <<fence, stored, dispatches, objects, deletion, cleaner,
                   completions, faults>>

(* Fault: the job is rescheduled without a dispatch. *)
RetryWithoutDispatch(s) ==
    /\ slots[s].at = "persisting" /\ slots[s].outcome = "retry"
    /\ IF ~OwnsClaim(s) THEN Requeue(s) /\ UNCHANGED job
       ELSE /\ job' = [job EXCEPT !.state = "retrying", !.timer = slots[s].delay]
            /\ Acknowledge(s)
    /\ UNCHANGED <<fence, stored, dispatches, outbox, terminal, artifacts, objects,
                   deletion, cleaner, completions, faults>>

Retry(s) ==
    /\ slots[s].at = "persisting" /\ slots[s].outcome = "retry"
    /\ IF ~OwnsClaim(s) THEN Requeue(s) /\ UNCHANGED <<job, dispatches>>
       ELSE /\ job' = [job EXCEPT !.state = "retrying", !.timer = slots[s].delay]
            /\ dispatches' = [dispatches EXCEPT ![job.attempts] =
                                 Upsert(@, 0, slots[s].delay)]
            /\ Acknowledge(s)
    /\ UNCHANGED <<fence, stored, outbox, terminal, artifacts, objects, deletion,
                   cleaner, completions, faults>>

-----------------------------------------------------------------------------
(* Deletion of the book *)

RequestDeletion(s) ==
    /\ Deletion /\ deletion = "none" /\ slots[s] = Free
    /\ deletion' = "requested"
    /\ slots' = [slots EXCEPT ![s] = Message("deletion", 0)]
    /\ UNCHANGED <<fence, job, stored, dispatches, outbox, terminal, artifacts,
                   objects, cleaner, completions, dead, faults>>

Greatest(a, b) == IF a < b THEN b ELSE a

(* Fault: cleanup does not wait for the lease of the running attempt. *)
CleanupAfterNow == IF artifacts.scheduled THEN artifacts.cleanup ELSE 0

(* GREATEST(now, lease_expires_at, cleanup_after) *)
CleanupAfter ==
    Greatest(IF job.state = "processing" THEN job.timer ELSE 0,
             IF artifacts.scheduled THEN artifacts.cleanup ELSE 0)

(* A second delivery finds the inbox row and changes nothing. *)
AcceptDeletion(s) ==
    /\ Delivered(s, "deletion")
    /\ IF deletion = "requested"
       THEN /\ fence' = "deleted"
            /\ artifacts' = IF artifacts.state = "none" THEN artifacts
                            ELSE [artifacts EXCEPT !.deletion = "pending",
                                     !.scheduled = TRUE, !.cleanup = CleanupAfter]
            /\ deletion' = IF artifacts.state = "none" THEN "acknowledged" ELSE "pending"
       ELSE UNCHANGED <<fence, artifacts, deletion>>
    /\ Acknowledge(s)
    /\ UNCHANGED <<job, stored, dispatches, outbox, terminal, objects, cleaner,
                   completions, faults>>

(***************************************************************************)
(* The cleaner claims a due row, removes the prefix, records the cleanup.  *)
(***************************************************************************)
Orphan == artifacts.state = "registered" /\ ~artifacts.orphanDone

ClaimCleanup(pass) ==
    /\ cleaner[pass] = "idle" /\ artifacts.scheduled /\ artifacts.cleanup = 0
    /\ IF pass = "orphan" THEN Orphan ELSE artifacts.deletion = "pending"
    /\ cleaner' = [cleaner EXCEPT ![pass] = "claimed"]
    /\ UNCHANGED <<fence, job, stored, dispatches, outbox, terminal, artifacts,
                   objects, deletion, slots, completions, dead, faults>>

DeletePrefix(pass) ==
    /\ cleaner[pass] = "claimed"
    /\ objects' = {}
    /\ cleaner' = [cleaner EXCEPT ![pass] = "deleted"]
    /\ UNCHANGED <<fence, job, stored, dispatches, outbox, terminal, artifacts,
                   deletion, slots, completions, dead, faults>>

CompleteOrphanCleanup ==
    /\ cleaner["orphan"] = "deleted"
    /\ cleaner' = [cleaner EXCEPT !["orphan"] = "idle"]
    /\ artifacts' = IF artifacts.state = "committed" THEN artifacts
                    ELSE [artifacts EXCEPT !.orphanDone = TRUE]
    /\ UNCHANGED <<fence, job, stored, dispatches, outbox, terminal, objects,
                   deletion, slots, completions, dead, faults>>

(* The last artifact set of the book acknowledges the deletion, once. *)
CompleteDeletionArtifact ==
    /\ cleaner["deletion"] = "deleted"
    /\ cleaner' = [cleaner EXCEPT !["deletion"] = "idle"]
    /\ IF artifacts.deletion = "pending"
       THEN /\ artifacts' = [artifacts EXCEPT !.deletion = "done"]
            /\ job' = [job EXCEPT !.manifest = FALSE]
            /\ deletion' = "acknowledged"
       ELSE UNCHANGED <<artifacts, job, deletion>>
    /\ UNCHANGED <<fence, stored, dispatches, outbox, terminal, objects, slots,
                   completions, dead, faults>>

-----------------------------------------------------------------------------
(* The outbox worker *)

PublishOutbox(i) ==
    /\ outbox[i] = "pending" /\ \A j \in 1..(i - 1) : outbox[j] # "pending"
    /\ outbox' = [outbox EXCEPT ![i] = "published"]
    /\ UNCHANGED <<fence, job, stored, dispatches, terminal, artifacts, objects,
                   deletion, slots, cleaner, completions, dead, faults>>

(* The upload is published again, to the retry queue its delay selects. *)
PublishDispatch(k, s) ==
    /\ dispatches[k].status = "pending" /\ dispatches[k].next = 0
    /\ slots[s] = Free
    /\ dispatches' = [dispatches EXCEPT ![k].status = "sent"]
    /\ slots' = [slots EXCEPT ![s] =
                    Message("upload", uploadRetryRouteForDelay(dispatches[k].after))]
    /\ UNCHANGED <<fence, job, stored, outbox, terminal, artifacts, objects,
                   deletion, cleaner, completions, dead, faults>>

MarkRetryPublished(k) ==
    /\ dispatches[k].status = "sent"
    /\ dispatches' = [dispatches EXCEPT ![k] = [NoDispatch EXCEPT !.status = "published"]]
    /\ UNCHANGED <<fence, job, stored, outbox, terminal, artifacts, objects,
                   deletion, slots, cleaner, completions, dead, faults>>

-----------------------------------------------------------------------------
(* Faults *)

Fault == faults > 0 /\ faults' = faults - 1

(* The process stops: the broker delivers its messages again. *)
Crash(s) ==
    /\ Fault /\ slots[s].at \in {"requesting", "working", "persisting"}
    /\ slots' = [slots EXCEPT ![s] = [Message(slots[s].kind, 0) EXCEPT
                    !.header = slots[s].header, !.redelivered = slots[s].redelivered + 1]]
    /\ UNCHANGED <<fence, job, stored, dispatches, outbox, terminal, artifacts,
                   objects, deletion, cleaner, completions, dead>>

(* A transaction fails, before or after its commit: the delivery is requeued. *)
PersistenceFails(s) ==
    /\ Fault
    /\ \/ slots[s].at \in {"requesting", "persisting"}
       \/ slots[s].at = "queued" /\ slots[s].delay = 0
    /\ Requeue(s)
    /\ UNCHANGED <<fence, job, stored, dispatches, outbox, terminal, artifacts,
                   objects, deletion, cleaner, completions>>

(* An acknowledgement or a mark is lost: the message comes twice. *)
Duplicate(s, kind) ==
    /\ Fault /\ slots[s] = Free
    /\ kind = "deletion" => deletion # "none"
    /\ slots' = [slots EXCEPT ![s] = Message(kind, 0)]
    /\ UNCHANGED <<fence, job, stored, dispatches, outbox, terminal, artifacts,
                   objects, deletion, cleaner, completions, dead>>

(* The outbox worker stops between publish and mark: it publishes again. *)
LoseMark(k) ==
    /\ Fault /\ dispatches[k].status = "sent"
    /\ dispatches' = [dispatches EXCEPT ![k].status = "pending"]
    /\ UNCHANGED <<fence, job, stored, outbox, terminal, artifacts, objects,
                   deletion, slots, cleaner, completions, dead>>

(* RetryRetryDispatch: the publish failed and is tried again later. *)
RetryRetryDispatch(k) ==
    /\ Fault /\ dispatches[k].status = "pending" /\ dispatches[k].next = 0
    /\ dispatches' = [dispatches EXCEPT ![k].next = 1]
    /\ UNCHANGED <<fence, job, stored, outbox, terminal, artifacts, objects,
                   deletion, slots, cleaner, completions, dead>>

(* The cleaner stops, or storage fails and the row is rescheduled. *)
CleanerStops(pass, rescheduled) ==
    /\ Fault /\ cleaner[pass] \in {"claimed", "deleted"}
    /\ rescheduled => cleaner[pass] = "claimed"
    /\ cleaner' = [cleaner EXCEPT ![pass] = "idle"]
    /\ artifacts' = IF rescheduled THEN [artifacts EXCEPT !.cleanup = 1] ELSE artifacts
    /\ UNCHANGED <<fence, job, stored, dispatches, outbox, terminal, objects,
                   deletion, slots, completions, dead>>

-----------------------------------------------------------------------------
(* Time *)

Dec(n) == IF n > 0 THEN n - 1 ELSE 0

Advance ==
    /\ job' = [job EXCEPT !.timer = Dec(@)]
    /\ dispatches' = [k \in Attempts |-> [dispatches[k] EXCEPT !.next = Dec(@), !.after = Dec(@)]]
    /\ slots' = [s \in Slots |-> [slots[s] EXCEPT !.delay = Dec(@)]]
    /\ artifacts' = [artifacts EXCEPT !.cleanup = Dec(@)]
    /\ UNCHANGED <<fence, stored, outbox, terminal, objects, deletion, cleaner,
                   completions, dead>>

Waiting ==
    \/ job.timer > 0 \/ artifacts.cleanup > 0
    \/ \E k \in Attempts : dispatches[k].next > 0 \/ dispatches[k].after > 0
    \/ \E s \in Slots : slots[s].delay > 0

Holds(s) == slots[s].at \in {"requesting", "working", "persisting"} /\ OwnsClaim(s)

LeaseEnds == job.state = "processing" /\ job.timer = 1

(***************************************************************************)
(* The job lease outlasts the processing timeout by thirty seconds, so a   *)
(* worker stops working before its lease ends. Its last transaction may    *)
(* still be late, which counts as a fault.                                 *)
(***************************************************************************)
Tick ==
    /\ Waiting
    /\ LeaseEnds => \A s \in Slots : ~Holds(s)
    /\ Advance /\ UNCHANGED faults

LateTick ==
    /\ LeaseEnds /\ \E s \in Slots : Holds(s)
    /\ \A s \in Slots : Holds(s) => slots[s].at # "working"
    /\ Advance /\ Fault

-----------------------------------------------------------------------------
Handle(s) ==
    \/ AcceptFenced(s) \/ AcceptNew(s) \/ AcceptReclaim(s) \/ AcceptDeferred(s)
    \/ AwaitSelection(s)
    \/ ResumeAfterSelection(s) \/ ReclaimSelected(s)
    \/ ConflictingSelection(s) \/ SettleSelection(s)
    \/ WriteShards(s) \/ Finalize(s)
    \/ \E permanent, aborted \in BOOLEAN : FailWork(s, permanent, aborted)
    \/ Complete(s) \/ Fail(s) \/ Retry(s)
    \/ AcceptDeletion(s)

Clean ==
    \/ \E pass \in {"orphan", "deletion"} : ClaimCleanup(pass) \/ DeletePrefix(pass)
    \/ CompleteOrphanCleanup \/ CompleteDeletionArtifact

Publish ==
    \/ \E i \in 1..3 : PublishOutbox(i)
    \/ \E k \in Attempts, s \in Slots : PublishDispatch(k, s)
    \/ \E k \in Attempts : MarkRetryPublished(k)

Faulty ==
    \/ \E s \in Slots : Crash(s) \/ PersistenceFails(s)
    \/ \E s \in Slots, kind \in {"upload", "deletion"} : Duplicate(s, kind)
    \/ \E k \in Attempts : LoseMark(k) \/ RetryRetryDispatch(k)
    \/ \E pass \in {"orphan", "deletion"}, r \in BOOLEAN : CleanerStops(pass, r)

Next ==
    \/ \E s \in Slots : Handle(s)
    \/ \E s \in Slots : LayoutCompletes(s) \/ RequestDeletion(s)
    \/ Clean \/ Publish
    \/ Tick \/ LateTick
    \/ Faulty

-----------------------------------------------------------------------------
(* History: what the properties must remember.  No action reads it. *)

(***************************************************************************)
(* The dispatch of this attempt was there before its Retry and leaves, or  *)
(* has left, before the next attempt: the upsert keeps the earlier of two  *)
(* times and does not touch a published row.                               *)
(***************************************************************************)
Overtakes ==
    LET d == dispatches[job.attempts]
    IN  \/ d.status \in {"sent", "published"}
        \/ d.status = "pending" /\ d.after < job'.timer

Rescheduled == job.state = "processing" /\ job'.state = "retrying"

(* An attempt that lost its lease completes while its successor works. *)
Hastens(s) == Fenced /\ Complete(s) /\ \E t \in Slots : slots[t].at = "working"

Remember ==
    /\ overtaken' = IF Rescheduled THEN Overtakes ELSE overtaken /\ job'.state = "retrying"
    /\ hastened' = (hastened \/ \E s \in Slots : Hastens(s))

HistoryInit == overtaken = FALSE /\ hastened = FALSE

Spec == Init /\ HistoryInit /\ [][Next /\ Remember]_<<vars, history>>

(***************************************************************************)
(* Consumers, the outbox worker and the cleaner run for ever, and time     *)
(* passes. Nothing obliges the layout worker to answer.                    *)
(***************************************************************************)
Fairness ==
    /\ \A s \in Slots : WF_vars(Handle(s))
    /\ WF_vars(Clean) /\ WF_vars(Publish) /\ WF_vars(Tick)

-----------------------------------------------------------------------------
(* Properties *)

(* The state keeps its types. *)
TypeOK ==
    /\ fence \in {"none", "live", "deleted"}
    /\ job \in Job
    /\ stored \in BOOLEAN
    /\ dispatches \in [Attempts -> Dispatch]
    /\ outbox \in [1..3 -> {"none", "pending", "published"}]
    /\ terminal \in {"none", "ready", "failed"}
    /\ artifacts \in ArtifactSet
    /\ objects \subseteq Files
    /\ deletion \in {"none", "requested", "pending", "acknowledged"}
    /\ slots \in [Slots -> Delivery]
    /\ cleaner \in [{"orphan", "deletion"} -> {"idle", "claimed", "deleted"}]
    /\ completions \in 0..MaxCompletions
    /\ dead \subseteq MessageKinds \X {"rejected", "exhausted"}
    /\ faults \in 0..MaxFaults

HistoryOK == overtaken \in BOOLEAN /\ hastened \in BOOLEAN

(***************************************************************************)
(* Deliveries of one upload, its selection result and its recoveries are   *)
(* handled concurrently, and still at most one of them works on the job:   *)
(* the lease makes the work exclusive, and the worker's claim is current.  *)
(***************************************************************************)
OneWorker ==
    \A s \in Slots : slots[s].at = "working" =>
        /\ OwnsClaim(s)
        /\ \A t \in Slots \ {s} : slots[t].at # "working"

(***************************************************************************)
(* The terminal event in the outbox says what the job row says: no late    *)
(* transaction of an attempt that lost its lease ends a job another way.   *)
(***************************************************************************)
TerminalEventAgrees ==
    /\ terminal = "ready" <=> job.state = "completed"
    /\ terminal = "failed" <=> job.state = "failed"
    /\ terminal = "none" <=> outbox[3] = "none"

(***************************************************************************)
(* The lease of a job admits one worker among the deliveries of an upload, *)
(* its selection result and its recoveries, and the terminal event in      *)
(* Ingestion's outbox says what the job row says: a late transaction of an *)
(* attempt that lost its lease ends nothing.                               *)
(***************************************************************************)
LeaseExclusive == TypeOK /\ HistoryOK /\ OneWorker /\ TerminalEventAgrees

(***************************************************************************)
(* The artifacts a ready event points at are complete and stay: neither an *)
(* earlier attempt's Abort nor an orphan pass removes any of them.         *)
(***************************************************************************)
CommittedArtifactsKept ==
    job.state = "completed" /\ fence # "deleted" => objects = Files

(***************************************************************************)
(* Ingestion tells Catalog that the artifacts of a book are deleted only   *)
(* when there are none and none can appear: not while an attempt that      *)
(* started before the deletion is still writing.  The exception is in the  *)
(* formula: Complete dates cleanup_after back to now without looking at    *)
(* its token, so one whose lease ended and whose successor still works     *)
(* hastens the cleaner.                                                    *)
(***************************************************************************)
AcknowledgedMeansGone ==
    deletion = "acknowledged" /\ ~hastened =>
        objects = {} /\ \A s \in Slots : slots[s].at # "working"

(***************************************************************************)
(* The artifacts a ready event points at stay, whatever Abort and the      *)
(* orphan pass of other attempts remove; a deletion is acknowledged only   *)
(* when no artifact is left and no attempt can write one, unless the       *)
(* Complete of an attempt that had lost its lease to a third delivery      *)
(* hastened the cleaner.                                                   *)
(***************************************************************************)
ArtifactsKeptOrGone == CommittedArtifactsKept /\ AcknowledgedMeansGone

(***************************************************************************)
(* A selection is recorded only before anything was written without it:    *)
(* artifacts never mix filtered and unfiltered attempts, however late the  *)
(* layout worker answers.                                                  *)
(***************************************************************************)
SelectsBeforeWriting ==
    ~stored /\ stored' => objects = {} /\ \A s \in Slots : slots[s].at # "working"

(* Whatever the layout worker answers late, no step records it after a write. *)
SelectionFirst == [][SelectsBeforeWriting]_vars

(* A dispatch that is not yet published, or the upload in the broker. *)
RetryIntent ==
    \/ dispatches[job.attempts].status \in {"pending", "sent"}
    \/ \E s \in Slots : slots[s].kind = "upload"
    \/ <<"upload", "exhausted">> \in dead

(***************************************************************************)
(* A job in retrying has a durable retry intent: a dispatch that is not    *)
(* yet published, or the upload itself in the broker. Deletion ends it.    *)
(***************************************************************************)
RetryIntentDurable == job.state = "retrying" /\ fence # "deleted" => RetryIntent

(***************************************************************************)
(* The retry intent outlives crashes, lost marks, duplicates and early     *)
(* deliveries, for delays that grow from attempt to attempt, until it is   *)
(* taken up; the one exception is a retry that met a dispatch of its       *)
(* attempt with an earlier time, or one already published.                 *)
(***************************************************************************)
RetryKeptUnlessOvertaken ==
    job.state = "retrying" /\ fence # "deleted" /\ ~overtaken => RetryIntent

(***************************************************************************)
(* A book whose selection never came is processed without one: none of its *)
(* own deliveries is ever rejected as conflicting.                         *)
(***************************************************************************)
UploadNeverRejected == <<"upload", "rejected">> \notin dead

(***************************************************************************)
(* Every accepted upload ends: the job is completed or failed and Catalog  *)
(* is told, unless the book is deleted, its delivery dead-lettered, or its *)
(* retry overtaken by an earlier dispatch.                                 *)
(***************************************************************************)
JobSettles ==
    job.state # "absent" ~>
        outbox[3] = "published" \/ fence = "deleted" \/ dead # {} \/ overtaken

(* A failed job leaves nothing in storage, whatever its attempts wrote. *)
FailedLeavesNothing == job.state = "failed" ~> objects = {}

(* An accepted deletion is acknowledged to Catalog. *)
DeletionSettles == deletion = "pending" ~> deletion = "acknowledged"

(***************************************************************************)
(* What Ingestion owes comes in the end: the outcome of every upload whose *)
(* retry was not overtaken, the removal of what a failed job wrote, the    *)
(* acknowledgement of a deletion.                                          *)
(***************************************************************************)
IngestionSettles == JobSettles /\ FailedLeavesNothing /\ DeletionSettles
=============================================================================
