-------------------------- MODULE CatalogStatusFeed --------------------------
(***************************************************************************)
(* The contract between two services: Catalog queues status rows, the Edge *)
(* API decodes them and drops, without a trace, every event its validState *)
(* refuses. The writer sets status, stage, failure and detail in five      *)
(* transactions; the reader accepts only certain combinations of them.     *)
(***************************************************************************)
EXTENDS CatalogBook

validFailure == validFailureCategory \cup validIndexingFailureCategory

(* Edge: a row without a failure is at one of these stages. *)
validStages(status) ==
    IF status = "pending" THEN {"queued"}
    ELSE IF status = "processing" THEN {"extracting", "chunks_ready"}
    ELSE IF status = "indexed" THEN {"indexed"}
    ELSE IF status = "reindexing" THEN {"chunks_ready"}
    ELSE IF status = "deleting" THEN {"queued", "extracting", "chunks_ready", "indexed"}
    ELSE IF status = "deleted" THEN {""}
    ELSE {}

validState(r) ==
    \/ r.stage \in validStages(r.status) /\ r.failure = "" /\ r.detail = ""
    \/ r.status \in {"failed", "deleting"} /\ r.stage = "failed" /\ r.failure \in validFailure

-----------------------------------------------------------------------------

(* Ingestion ends a generation of a book once: chunks ready, or failed. *)
OneIngestionOutcome(b) ==
    \A e, f \in inbox :
        e.book = b /\ f.book = b /\ e.kind = "failed" /\ f.kind = "chunks_ready"
        => e.lifecycle # f.lifecycle

(***************************************************************************)
(* Edge accepts every status Catalog queues: whatever the order of facts,  *)
(* commands and acknowledgements, no row combines a status, a stage and a  *)
(* failure that the stream would drop. The reindex command resets the      *)
(* failure category and not the detail, so this rests on Ingestion never   *)
(* reporting both outcomes of one generation.                              *)
(***************************************************************************)
EdgeAcceptsStatus ==
    \A r \in outbox :
        r.type = "status_changed" /\ OneIngestionOutcome(r.book) => validState(r)
=============================================================================
