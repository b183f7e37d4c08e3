----------------------------- MODULE MCWorkers ------------------------------
(***************************************************************************)
(* The safety of the two worker services.  A behaviour is one of: an       *)
(* upload in Ingestion with the content-selection wait (the module's own), *)
(* a book of Retrieval with one shard through reindexing and deletion      *)
(* (Lifecycle), one with two shards (Batches), or one during an outage of  *)
(* two faults (Outage).  The services share no state.                      *)
(***************************************************************************)
EXTENDS MCIngestionJob

CONSTANTS d1, d2, Workers, Shards, MaxVersion, MaxRetry, Duplicates

VARIABLES side,
          meta, manifest, life, indexJob, batch, indexOutbox, sent, msgs, vec, worker, ticker,
          catalog, indexFaults, dups, indexDead

Lifecycle == INSTANCE RetrievalIndex WITH
               job <- indexJob, outbox <- indexOutbox, dead <- indexDead, faults <- indexFaults

Batches == INSTANCE RetrievalIndex WITH
             Shards <- {d1, d2}, MaxVersion <- 2, Duplicates <- 0,
             job <- indexJob, outbox <- indexOutbox, dead <- indexDead, faults <- indexFaults

Outage == INSTANCE RetrievalIndex WITH
            MaxVersion <- 2, Duplicates <- 0, MaxFaults <- 2,
            job <- indexJob, outbox <- indexOutbox, dead <- indexDead, faults <- indexFaults

indexVars == << meta, manifest, life, indexJob, batch, indexOutbox, sent, msgs, vec, worker, ticker,
                catalog, indexFaults, dups, indexDead >>

(* Handlers and shards are alike. *)
Alike == Permutations(Workers) \cup Permutations({d1, d2})

workersVars == << vars, history, indexVars, side >>

WorkersInit ==
  /\ side \in {"lifecycle", "batches", "outage", "upload"}
  /\ CASE side = "batches" -> Batches!Init [] side = "outage" -> Outage!Init [] OTHER -> Lifecycle!Init
  /\ FirstInit

(* Two generations meet a fault and a duplicate, three a fault; an upload  *)
(* meets a fault among three deliveries, or a second answer of the layout  *)
(* worker among two.                                                       *)
Disturbance == catalog'.version > 2 => dups' = Duplicates
UploadDisturbance == completions' > 1 => faults' = MaxFaults /\ \E s \in Slots : slots'[s] = Free

WorkersNext ==
  \/ side = "lifecycle" /\ Lifecycle!Next /\ Disturbance /\ UNCHANGED << vars, history, side >>
  \/ side = "batches"   /\ Batches!Next /\ UNCHANGED << vars, history, side >>
  \/ side = "outage"    /\ Outage!Next /\ UNCHANGED << vars, history, side >>
  \/ side = "upload"    /\ Next /\ Remember /\ FirstFree /\ UploadDisturbance /\ UNCHANGED << indexVars, side >>

WorkersSpec == WorkersInit /\ [][WorkersNext]_workersVars

(***************************************************************************)
(* Whatever is delivered twice (Lifecycle), a generation has one outcome   *)
(* and a deleted book keeps no row.  While every message is delivered once *)
(* (Batches, Outage), search sees a generation whole, every point of every *)
(* shard activated, or not at all, and a deletion is confirmed only when   *)
(* no handler is between its check of the lifecycle and its vector write.  *)
(* A second delivery of a batch breaks both: UpsertChunks hides points it  *)
(* writes again, and a failing twin ends the deletion's wait for the first *)
(* delivery.                                                               *)
(***************************************************************************)
IndexSound ==
  CASE side = "batches" -> Batches!SearchSeesWholeGeneration /\ Batches!ConfirmedWithoutWriters
    [] side = "outage"  -> Outage!SearchSeesWholeGeneration /\ Outage!ConfirmedWithoutWriters
    [] OTHER            -> Lifecycle!OneOutcome /\ Lifecycle!DeletedBookHoldsNothing
=============================================================================
