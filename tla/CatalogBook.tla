----------------------------- MODULE CatalogBook -----------------------------
(***************************************************************************)
(* Catalog's Book aggregate and the transactions that change it:           *)
(* upload, the reindex and delete commands, the facts Ingestion and        *)
(* Retrieval report, the three deletion acknowledgements, and the status   *)
(* rows each transaction adds to the outbox.                               *)
(*                                                                         *)
(* Every transaction locks the book's row (SELECT ... FOR UPDATE), so a    *)
(* transaction is one action. Facts and acknowledgements reach Catalog     *)
(* over two broker queues that may delay, duplicate and reorder them, and  *)
(* a command may be retried by the client: the actions take any such input *)
(* at any time. A transaction that fails leaves no trace (it rolls back),  *)
(* so a rejected input is a step that changes nothing and has no action.   *)
(***************************************************************************)
EXTENDS Naturals, FiniteSets

CONSTANTS Books,          \* book identifiers
          Commands,       \* client-chosen command identifiers
          EventIds,       \* identifiers of processing facts and acknowledgements
          Manifests,      \* manifest references with their checksum
          Categories,     \* the failure categories the facts of a run carry
          Details,        \* failure details, "" included
          MaxLifecycle    \* bound on lifecycle_version

VARIABLES books,      \* catalog.books
          inbox,      \* catalog.processing_inbox
          ackInbox,   \* catalog.lifecycle_inbox
          commands,   \* catalog.lifecycle_commands
          outbox,     \* catalog.outbox
          objects,    \* books whose original is in object storage
          marks       \* MarkOriginalDeleted calls in flight, original already gone

vars == <<books, inbox, ackInbox, commands, outbox, objects, marks>>

-----------------------------------------------------------------------------
(* Vocabulary *)

Statuses == {"pending", "processing", "indexed", "failed", "reindexing",
             "deleting", "deleted"}

Stages == {"queued", "extracting", "chunks_ready", "indexed", "failed"}

validFailureCategory ==
    {"encrypted_document", "extraction_not_permitted", "malformed_document",
     "unsupported_document", "no_extractable_text", "resource_limit_exceeded",
     "source_integrity_mismatch", "processing_timeout",
     "dependency_unavailable", "internal_processing_error"}

validIndexingFailureCategory ==
    {"manifest_integrity", "incompatible_profile", "embedding_unavailable",
     "vector_store_unavailable", "resource_limit_exceeded",
     "indexing_timeout", "internal_indexing_error"}

reindexableFailureCategory ==
    {"dependency_unavailable", "processing_timeout", "resource_limit_exceeded",
     "internal_processing_error", "embedding_unavailable",
     "vector_store_unavailable", "indexing_timeout", "internal_indexing_error"}

NoManifest == "no manifest"
NoCommand == "no command"

Kinds == {"started", "chunks_ready", "failed", "indexed", "indexing_failed"}

ASSUME CatalogAssumption ==
    /\ "" \in Details
    /\ NoManifest \notin Manifests
    /\ NoCommand \notin Commands
    /\ Categories \subseteq validFailureCategory \cup validIndexingFailureCategory
    /\ MaxLifecycle \in Nat \ {0}

(***************************************************************************)
(* A row of catalog.books; status "absent" stands for the absence of the   *)
(* row. The tombstone keeps the versions, the command and the flags only.  *)
(***************************************************************************)
Book == [status : Statuses \cup {"absent"}, stage : Stages \cup {""},
         failure : Categories \cup {""}, detail : Details,
         version : Nat, lifecycle : Nat,
         manifest : Manifests \cup {NoManifest},
         command : Commands \cup {NoCommand},
         originalDeleted : BOOLEAN, artifactsDeleted : BOOLEAN,
         indexDeleted : BOOLEAN]

NoBook == [status |-> "absent", stage |-> "", failure |-> "", detail |-> "",
           version |-> 0, lifecycle |-> 0, manifest |-> NoManifest,
           command |-> NoCommand, originalDeleted |-> FALSE,
           artifactsDeleted |-> FALSE, indexDeleted |-> FALSE]

Exists(b) == books[b].status # "absent"

(***************************************************************************)
(* A decoded processing event, with the checksum test of its source        *)
(* reduced to its outcome. A decoded fact carries a category and a detail  *)
(* of its own kind: indexing failures never carry a detail.                *)
(***************************************************************************)
Fact(kind) ==
    [id : EventIds, book : Books, kind : {kind}, lifecycle : 1..MaxLifecycle,
     sameSource : BOOLEAN,
     manifest : IF kind = "chunks_ready" THEN Manifests ELSE {NoManifest},
     failure : IF kind = "failed" THEN Categories \cap validFailureCategory
               ELSE IF kind = "indexing_failed"
                    THEN Categories \cap validIndexingFailureCategory
               ELSE {""},
     detail : IF kind = "failed" THEN Details ELSE {""}]

Event == UNION {Fact(kind) : kind \in Kinds}

Ack == [id : EventIds, book : Books, kind : {"artifacts_deleted", "index_deleted"},
        command : Commands, lifecycle : 1..MaxLifecycle]

(***************************************************************************)
(* An outbox row. Request rows (uploaded, reindex and deletion requests)   *)
(* repeat the versions the book has when they are written.                 *)
(***************************************************************************)
RequestTypes == {"uploaded", "reindex_requested", "deletion_requested"}

Deleters == {"command", "reconciler"}

CommandRow == [id : Commands, book : Books, kind : {"reindex", "delete"},
               lifecycle : Nat]

Mark == [by : Deleters, book : Books, command : Commands \cup {NoCommand},
         lifecycle : Nat]

OutboxRow == [book : Books, seq : Nat, type : RequestTypes \cup {"status_changed"},
              version : Nat, lifecycle : Nat, status : Statuses,
              stage : Stages \cup {""}, failure : Categories \cup {""},
              detail : Details, canReindex : BOOLEAN]

-----------------------------------------------------------------------------
(* The Book aggregate: pure functions of a row *)

(* Fault: the status is not looked at. *)
CanReindexAnyStatus(bk) == bk.manifest # NoManifest

CanReindex(bk) ==
    /\ bk.manifest # NoManifest
    /\ \/ bk.status = "indexed"
       \/ bk.status = "failed" /\ bk.failure \in reindexableFailureCategory

validTransition(current, next) ==
    \/ /\ next = "deleting"
       /\ current \in {"pending", "processing", "indexed", "failed", "reindexing"}
    \/ <<current, next>> \in
          {<<"pending", "processing">>, <<"processing", "indexed">>,
           <<"processing", "failed">>, <<"indexed", "reindexing">>,
           <<"reindexing", "indexed">>, <<"reindexing", "failed">>,
           <<"deleting", "deleted">>}

FailedInIndexing(bk) ==
    bk.stage = "failed" /\ bk.failure \in validIndexingFailureCategory

SameFailure(bk, f) ==
    bk.stage = "failed" /\ bk.failure = f.failure /\ bk.detail = f.detail

(* The fact is already reflected: accepted, nothing changes. *)
FactIgnored(bk, f) ==
    \/ f.kind = "started" /\ bk.stage \in Stages \ {"queued"}
    \/ /\ f.kind = "chunks_ready"
       /\ bk.stage \in {"chunks_ready", "indexed"} \/ FailedInIndexing(bk)
    \/ /\ f.kind = "failed"
       /\ bk.stage = "indexed" \/ FailedInIndexing(bk) \/ SameFailure(bk, f)
    \/ f.kind = "indexed" /\ bk.stage = "indexed" /\ bk.status = "indexed"
    \/ f.kind = "indexing_failed" /\ bk.status = "failed" /\ SameFailure(bk, f)

(* Fault: a late outcome repairs a failed book. *)
AwaitsIndexingOrFailed(bk) ==
    bk.status \in {"pending", "processing", "reindexing", "failed"}

(* The book waits for the outcome of indexing, for the first time or again. *)
AwaitsIndexing(bk) ==
    \/ bk.status = "reindexing" /\ bk.stage = "chunks_ready"
    \/ bk.status = "pending" /\ bk.stage = "queued"
    \/ bk.status = "processing" /\ bk.stage \in {"queued", "extracting", "chunks_ready"}

(* The fact moves the book; a fact that neither moves it nor is ignored conflicts. *)
FactApplies(bk, f) ==
    /\ ~FactIgnored(bk, f)
    /\ \/ f.kind = "started" /\ bk.status = "pending" /\ bk.stage = "queued"
       \/ /\ f.kind = "chunks_ready"
          /\ bk.stage # "failed"
          /\ bk.status \in {"pending", "processing"}
       \/ /\ f.kind = "failed"
          /\ bk.stage # "chunks_ready"
          /\ bk.status = "pending" \/ validTransition(bk.status, "failed")
       \/ f.kind \in {"indexed", "indexing_failed"} /\ AwaitsIndexing(bk)

StatusAfter(kind) ==
    IF kind \in {"started", "chunks_ready"} THEN "processing"
    ELSE IF kind = "indexed" THEN "indexed" ELSE "failed"

StageAfter(kind) ==
    IF kind = "started" THEN "extracting"
    ELSE IF kind = "indexing_failed" THEN "failed" ELSE kind

(* Fault: the projection version is not advanced. *)
FactResultSameVersion(bk, f) ==
    [bk EXCEPT !.status = StatusAfter(f.kind), !.stage = StageAfter(f.kind)]

FactResult(bk, f) ==
    [bk EXCEPT !.status = StatusAfter(f.kind), !.stage = StageAfter(f.kind),
               !.failure = IF f.kind = "started" THEN @ ELSE f.failure,
               !.detail = IF f.kind = "started" THEN @ ELSE f.detail,
               !.version = @ + 1]

-----------------------------------------------------------------------------
(* Outbox rows *)

RowsOf(b) == {r \in outbox : r.book = b}

(* COALESCE(MAX(sequence),-1)+1 *)
NextSequence(b) ==
    IF RowsOf(b) = {} THEN 0
    ELSE 1 + CHOOSE m \in {r.seq : r \in RowsOf(b)} :
                 \A r \in RowsOf(b) : r.seq <= m

Row(b, bk, seq, type) ==
    [book |-> b, seq |-> seq, type |-> type, version |-> bk.version,
     lifecycle |-> bk.lifecycle, status |-> bk.status, stage |-> bk.stage,
     failure |-> bk.failure, detail |-> bk.detail, canReindex |-> CanReindex(bk)]

(* One status row after the rows the book already has. *)
AppendStatus(b, bk) ==
    outbox' = outbox \cup {Row(b, bk, NextSequence(b), "status_changed")}

-----------------------------------------------------------------------------
(* Transactions *)

Init ==
    /\ books = [b \in Books |-> NoBook]
    /\ inbox = {}
    /\ ackInbox = {}
    /\ commands = {}
    /\ outbox = {}
    /\ objects = {}
    /\ marks = {}

(***************************************************************************)
(* UploadBook: the original is stored, then Create inserts the row with    *)
(* the uploaded event at sequence 0 and the status at sequence             *)
(* ProcessingVersion. CatalogUpload models what happens when it fails.     *)
(***************************************************************************)
NewBook == [NoBook EXCEPT !.status = "pending", !.stage = "queued",
                          !.version = 1, !.lifecycle = 1]

UploadBook(b) ==
    /\ ~Exists(b)
    /\ books' = [books EXCEPT ![b] = NewBook]
    /\ outbox' = outbox \cup {Row(b, NewBook, 0, "uploaded"),
                              Row(b, NewBook, NewBook.version, "status_changed")}
    /\ objects' = objects \cup {b}
    /\ UNCHANGED <<inbox, ackInbox, commands, marks>>

(***************************************************************************)
(* ApplyProcessingEvent: deduplicate on the event identifier, refuse a     *)
(* tombstone, another source and another generation, apply the fact. A     *)
(* chunks-ready fact records its manifest whether it moved the book or not.*)
(***************************************************************************)
Fenced(e) ==
    /\ Exists(e.book) /\ books[e.book].status # "deleted"
    /\ e.sameSource
    /\ e.lifecycle = books[e.book].lifecycle

ApplyProcessingEvent(e) ==
    LET bk == books[e.book]
        moved == IF FactApplies(bk, e) THEN FactResult(bk, e) ELSE bk
        next == IF e.kind = "chunks_ready"
                THEN [moved EXCEPT !.manifest = e.manifest] ELSE moved
    IN  /\ \A old \in inbox : old.id # e.id
        /\ Fenced(e)
        /\ FactIgnored(bk, e) \/ FactApplies(bk, e)
        /\ inbox' = inbox \cup {e}
        /\ books' = [books EXCEPT ![e.book] = next]
        /\ IF FactApplies(bk, e) THEN AppendStatus(e.book, next)
                                 ELSE UNCHANGED outbox
        /\ UNCHANGED <<ackInbox, commands, objects, marks>>

(* ApplyLifecycleCommand *)

(* Fault: the failure of the previous generation is kept. *)
ReindexedKeepingFailure(bk, c) ==
    [bk EXCEPT !.status = "reindexing", !.stage = "chunks_ready",
               !.lifecycle = @ + 1, !.version = @ + 1, !.command = c]

Reindexed(bk, c) ==
    [bk EXCEPT !.status = "reindexing", !.stage = "chunks_ready", !.failure = "",
               !.lifecycle = @ + 1, !.version = @ + 1, !.command = c]

MarkedDeleting(bk, c) ==
    [bk EXCEPT !.status = "deleting", !.originalDeleted = FALSE,
               !.artifactsDeleted = FALSE, !.indexDeleted = FALSE,
               !.lifecycle = @ + 1, !.version = @ + 1, !.command = c]

(* Fault: the command identifier is not looked up. *)
AcceptReplayed(b, c, kind, bk, request) ==
    /\ books[b].lifecycle < MaxLifecycle
    /\ books' = [books EXCEPT ![b] = bk]
    /\ commands' = commands \cup
           {[id |-> c, book |-> b, kind |-> kind, lifecycle |-> bk.lifecycle]}
    /\ outbox' = outbox \cup {Row(b, bk, NextSequence(b), request),
                              Row(b, bk, NextSequence(b) + 1, "status_changed")}
    /\ UNCHANGED <<inbox, ackInbox, objects, marks>>

(***************************************************************************)
(* A command identifier is accepted once: a replay                         *)
(* returns the book, and reuse for another book, kind or generation is an  *)
(* error; neither changes anything.                                        *)
(***************************************************************************)
Accept(b, c, kind, bk, request) ==
    /\ \A old \in commands : old.id # c
    /\ books[b].lifecycle < MaxLifecycle
    /\ books' = [books EXCEPT ![b] = bk]
    /\ commands' = commands \cup
           {[id |-> c, book |-> b, kind |-> kind, lifecycle |-> bk.lifecycle]}
    /\ outbox' = outbox \cup {Row(b, bk, NextSequence(b), request),
                              Row(b, bk, NextSequence(b) + 1, "status_changed")}
    /\ UNCHANGED <<inbox, ackInbox, objects, marks>>

ReindexBook(b, c) ==
    /\ CanReindex(books[b])
    /\ Accept(b, c, "reindex", Reindexed(books[b], c), "reindex_requested")

DeleteBook(b, c) ==
    /\ validTransition(books[b].status, "deleting")
    /\ Accept(b, c, "delete", MarkedDeleting(books[b], c), "deletion_requested")

(***************************************************************************)
(* The original is removed by DeleteBook after its transaction, by a       *)
(* replay of the command, or by a reconciliation pass. Each first deletes  *)
(* the object (idempotent), then calls MarkOriginalDeleted with what it    *)
(* read. The process may stop in between: the mark is never made.          *)
(***************************************************************************)
DeleteOriginal(b, by) ==
    /\ books[b].status = "deleting" /\ ~books[b].originalDeleted
    /\ objects' = objects \ {b}
    /\ marks' = marks \cup {[by |-> by, book |-> b, command |-> books[b].command,
                             lifecycle |-> books[b].lifecycle]}
    /\ UNCHANGED <<books, inbox, ackInbox, commands, outbox>>

LoseMark(m) ==
    /\ marks' = marks \ {m}
    /\ UNCHANGED <<books, inbox, ackInbox, commands, outbox, objects>>

(* The row is locked and still the one the caller acted on. *)
DeletionCurrent(m) ==
    /\ books[m.book].command = m.command
    /\ books[m.book].lifecycle = m.lifecycle
    /\ books[m.book].status \in {"deleting", "deleted"}

Tombstone(bk) ==
    [bk EXCEPT !.status = "deleted", !.version = @ + 1, !.stage = "",
               !.failure = "", !.detail = "", !.manifest = NoManifest]

(* Fault: the original is not waited for. *)
DerivedDeleted(bk) == bk.artifactsDeleted /\ bk.indexDeleted

AllDeleted(bk) == bk.originalDeleted /\ bk.artifactsDeleted /\ bk.indexDeleted

(* The last flag finalizes: tombstone, outbox purged, one last status row. *)
Settle(b, bk) ==
    IF AllDeleted(bk)
    THEN LET dead == Tombstone(bk)
         IN  /\ books' = [books EXCEPT ![b] = dead]
             /\ outbox' = (outbox \ RowsOf(b)) \cup {Row(b, dead, 0, "status_changed")}
    ELSE /\ books' = [books EXCEPT ![b] = bk]
         /\ UNCHANGED outbox

MarkOriginalDeleted(m) ==
    /\ marks' = marks \ {m}
    /\ IF DeletionCurrent(m) /\ ~books[m.book].originalDeleted
       THEN Settle(m.book, [books[m.book] EXCEPT !.originalDeleted = TRUE])
       ELSE UNCHANGED <<books, outbox>>
    /\ UNCHANGED <<inbox, ackInbox, commands, objects>>

(* ApplyLifecycleAck: an acknowledgement whose flag is set is only recorded. *)
AckFlagged(bk, kind) ==
    IF kind = "artifacts_deleted" THEN bk.artifactsDeleted ELSE bk.indexDeleted

WithAck(bk, kind) ==
    IF kind = "artifacts_deleted" THEN [bk EXCEPT !.artifactsDeleted = TRUE]
                                  ELSE [bk EXCEPT !.indexDeleted = TRUE]

ApplyLifecycleAck(a) ==
    /\ \A old \in ackInbox : old.id # a.id
    /\ Exists(a.book) /\ DeletionCurrent(a)
    /\ ackInbox' = ackInbox \cup {a}
    /\ IF AckFlagged(books[a.book], a.kind)
       THEN UNCHANGED <<books, outbox>>
       ELSE Settle(a.book, WithAck(books[a.book], a.kind))
    /\ UNCHANGED <<inbox, commands, objects, marks>>

Next ==
    \/ \E b \in Books : UploadBook(b)
    \/ \E b \in Books, by \in Deleters : DeleteOriginal(b, by)
    \/ \E b \in Books, c \in Commands : ReindexBook(b, c) \/ DeleteBook(b, c)
    \/ \E e \in Event : ApplyProcessingEvent(e)
    \/ \E m \in marks : MarkOriginalDeleted(m) \/ LoseMark(m)
    \/ \E a \in Ack : ApplyLifecycleAck(a)

Spec == Init /\ [][Next]_vars

-----------------------------------------------------------------------------
(* Properties *)

(* The state keeps its types. *)
TypeOK ==
    /\ books \in [Books -> Book]
    /\ inbox \subseteq Event
    /\ ackInbox \subseteq Ack
    /\ commands \subseteq CommandRow
    /\ outbox \subseteq OutboxRow
    /\ objects \subseteq Books
    /\ marks \subseteq Mark

(***************************************************************************)
(* The transactions allocate sequences so that the unique index            *)
(* (aggregate_id, sequence) is never hit: an insert that hit it would fail *)
(* its whole transaction on every retry.                                   *)
(***************************************************************************)
SequencesUnique ==
    \A r, q \in outbox : r.book = q.book /\ r.seq = q.seq => r = q

(***************************************************************************)
(* Status rows are published in sequence order, and readers drop a version *)
(* that is not newer: so a later sequence must carry a later version.      *)
(***************************************************************************)
StatusVersionsOrdered ==
    \A r, q \in outbox :
        /\ r.book = q.book /\ r.type = "status_changed" /\ q.type = "status_changed"
        /\ r.seq < q.seq
        => r.version < q.version

(***************************************************************************)
(* What a reader of the book sees has a status row that says so: no        *)
(* interleaving of commands, facts and acknowledgements changes the book's *)
(* visible state without queuing the notification of it.                   *)
(***************************************************************************)
CurrentStatusQueued ==
    \A b \in Books : Exists(b) =>
        \E r \in outbox :
            /\ r.book = b /\ r.type = "status_changed"
            /\ r.version = books[b].version /\ r.lifecycle = books[b].lifecycle
            /\ r.status = books[b].status /\ r.stage = books[b].stage
            /\ r.failure = books[b].failure /\ r.detail = books[b].detail

(***************************************************************************)
(* Generations and commands correspond: each generation after the first    *)
(* was opened by exactly one accepted command, and the row names the       *)
(* command of its current generation. Replayed or reused command           *)
(* identifiers never open a generation.                                    *)
(***************************************************************************)
CommandsOf(b) == {c \in commands : c.book = b}

GenerationsAccounted ==
    /\ \A c, d \in commands : c.id = d.id => c = d
    /\ \A b \in Books : Exists(b) =>
           /\ {c.lifecycle : c \in CommandsOf(b)} = 2..books[b].lifecycle
           /\ \A c, d \in CommandsOf(b) : c.lifecycle = d.lifecycle => c = d
           /\ \A c \in CommandsOf(b) :
                  c.lifecycle = books[b].lifecycle => c.id = books[b].command

(***************************************************************************)
(* The three parties that confirm a deletion (object storage, Ingestion,   *)
(* Retrieval) do so in any order and any number of times; the last one to  *)
(* confirm finalizes. No order leaves a book with all confirmations in     *)
(* "deleting" for ever, and no tombstone misses a confirmation.            *)
(***************************************************************************)
DeletionConverges ==
    \A b \in Books :
        /\ (/\ books[b].originalDeleted
            /\ books[b].artifactsDeleted
            /\ books[b].indexDeleted) <=> books[b].status = "deleted"
        /\ \/ books[b].originalDeleted
           \/ books[b].artifactsDeleted
           \/ books[b].indexDeleted
           => books[b].status \in {"deleting", "deleted"}

(***************************************************************************)
(* The original outlives every state in which the book may still be read   *)
(* or reprocessed, and a row that records its removal records a fact.      *)
(***************************************************************************)
OriginalKept ==
    \A b \in Books : Exists(b) =>
        /\ books[b].status \notin {"deleting", "deleted"} => b \in objects
        /\ books[b].originalDeleted => b \notin objects

(***************************************************************************)
(* An outcome belongs to the generation that shows it: a book reported     *)
(* indexed or failed was reported so by a fact of its present generation.  *)
(* In particular the outcome of the first indexing, delivered late, never  *)
(* ends a reindex.                                                         *)
(***************************************************************************)
OutcomeOfThisGeneration ==
    \A b \in Books : books[b].status \in {"indexed", "failed"} =>
        \E e \in inbox :
            /\ e.book = b /\ e.lifecycle = books[b].lifecycle
            /\ e.failure = books[b].failure
            /\ IF books[b].status = "indexed" THEN e.kind = "indexed"
               ELSE e.kind \in {"failed", "indexing_failed"}

(***************************************************************************)
(* Nothing revives a book: once its deletion is accepted only deletion can *)
(* follow, whatever facts of earlier generations are still in flight, and  *)
(* a tombstone never changes.                                              *)
(***************************************************************************)
DeletionIrreversible ==
    [][\A b \in Books :
          /\ books[b].status = "deleting" => books'[b].status \in {"deleting", "deleted"}
          /\ books[b].status = "deleted" => books'[b] = books[b]]_vars

(***************************************************************************)
(* The first terminal outcome of a generation stands: late, duplicate or   *)
(* contradictory facts never turn an indexed book into a failed one, a     *)
(* failed one into an indexed one, or one failure into another.            *)
(***************************************************************************)
FirstOutcomeStands ==
    [][\A b \in Books :
          /\ books[b].stage \in {"indexed", "failed"}
          /\ books'[b].lifecycle = books[b].lifecycle
          /\ books'[b].status # "deleted"
          => /\ books'[b].stage = books[b].stage
             /\ books'[b].failure = books[b].failure
             /\ books'[b].status = books[b].status]_vars

(***************************************************************************)
(* The row of a book is accounted for by what happened to it: its visible  *)
(* state is queued as a notification, each generation by the one command   *)
(* that opened it, an outcome by a fact of its generation, and the         *)
(* original is there as long as the book may be read or reprocessed.       *)
(***************************************************************************)
BookAccounted ==
    CurrentStatusQueued /\ GenerationsAccounted /\ OriginalKept /\ OutcomeOfThisGeneration
=============================================================================
