------------------------- MODULE CatalogBook_proofs -------------------------
(***************************************************************************)
(* Proofs about CatalogBook for every number of books, commands and        *)
(* generations.                                                            *)
(***************************************************************************)
EXTENDS CatalogStatusFeed, WellFoundedInduction, TLAPS

(***************************************************************************)
(* Every outbox row belongs to a stored book and its sequence stays below  *)
(* the sum of the book's versions: a fact raises the sum by one and adds   *)
(* one row, a command raises it by two and adds two.                       *)
(***************************************************************************)
SequenceBound ==
    \A r \in outbox :
        /\ Exists(r.book)
        /\ r.seq < books[r.book].version + books[r.book].lifecycle

(***************************************************************************)
(* A deleter that has a mark in flight has removed the original of a book  *)
(* whose deletion was accepted before.                                     *)
(***************************************************************************)
MarksFollowDeletion ==
    \A m \in marks : /\ books[m.book].status \in {"deleting", "deleted"}
                     /\ m.book \notin objects

-----------------------------------------------------------------------------
(* Facts about the operators *)

(* The components of a decoded fact. *)
LEMMA EventFields ==
    ASSUME NEW e \in Event
    PROVE  /\ e.id \in EventIds
           /\ e.book \in Books
           /\ e.kind \in Kinds
           /\ e.lifecycle \in Nat
           /\ e.failure \in Categories \cup {""}
           /\ e.detail \in Details
           /\ e.kind = "chunks_ready" => e.manifest \in Manifests
<1>1. PICK kind \in Kinds : e \in Fact(kind)
  BY DEF Event
<1>2. "" \in Details /\ MaxLifecycle \in Nat
  BY CatalogAssumption DEF CatalogAssumption
<1>3. /\ e.id \in EventIds /\ e.book \in Books /\ e.kind = kind
      /\ e.lifecycle \in 1..MaxLifecycle
      /\ e.manifest \in IF kind = "chunks_ready" THEN Manifests ELSE {NoManifest}
      /\ e.detail \in IF kind = "failed" THEN Details ELSE {""}
  BY <1>1 DEF Fact
<1>4. e.lifecycle \in Nat
  <2>1. e.lifecycle \in 1..MaxLifecycle
    BY <1>3
  <2>2. MaxLifecycle \in Nat
    BY <1>2
  <2> QED
    BY <2>1, <2>2
<1>5. e.detail \in Details
  BY <1>2, <1>3
<1>6. e.failure \in Categories \cup {""}
  <2>1. CASE kind = "failed"
    BY <1>1, <2>1 DEF Fact
  <2>2. CASE kind = "indexing_failed"
    BY <1>1, <2>2 DEF Fact
  <2>3. CASE kind # "failed" /\ kind # "indexing_failed"
    BY <1>1, <2>3 DEF Fact
  <2> QED
    BY <2>1, <2>2, <2>3
<1> QED
  BY <1>3, <1>4, <1>5, <1>6

(* The successor of a book's version is a version. *)
LEMMA VersionSucc ==
    ASSUME NEW bk \in Book
    PROVE  bk.version + 1 \in Nat /\ bk.lifecycle + 1 \in Nat
<1>1. bk.version \in Nat /\ bk.lifecycle \in Nat
  BY DEF Book
<1> QED
  BY <1>1

(* A fact that moves a book leaves it a well-typed row. *)
LEMMA FactResultType ==
    ASSUME NEW bk \in Book, NEW e \in Event
    PROVE  FactResult(bk, e) \in Book
<1>1. /\ e.kind \in Kinds
      /\ e.failure \in Categories \cup {""}
      /\ e.detail \in Details
  BY EventFields
<1>2. StatusAfter(e.kind) \in Statuses /\ StageAfter(e.kind) \in Stages
  BY <1>1 DEF StatusAfter, StageAfter, Kinds, Statuses, Stages
<1> DEFINE failure == IF e.kind = "started" THEN bk.failure ELSE e.failure
           detail == IF e.kind = "started" THEN bk.detail ELSE e.detail
<1>3. failure \in Categories \cup {""} /\ detail \in Details
  BY <1>1 DEF Book
<1> HIDE DEF failure, detail
<1>4. [bk EXCEPT !.status = StatusAfter(e.kind), !.stage = StageAfter(e.kind),
                 !.failure = failure, !.detail = detail,
                 !.version = @ + 1] \in Book
  BY <1>2, <1>3, VersionSucc DEF Book
<1> QED
  BY <1>4 DEF FactResult, failure, detail

(* Every row written for a well-typed book is a well-typed outbox row. *)
LEMMA RowType ==
    ASSUME NEW b \in Books, NEW bk \in Book, bk.status # "absent",
           NEW seq \in Nat, NEW type \in RequestTypes \cup {"status_changed"}
    PROVE  Row(b, bk, seq, type) \in OutboxRow
<1>1. CanReindex(bk) \in BOOLEAN
  BY DEF CanReindex
<1> QED
  BY <1>1 DEF Row, OutboxRow, Book

(* The rows of accepted commands and the tombstone are well typed. *)
LEMMA CommandResultType ==
    ASSUME NEW bk \in Book, NEW c \in Commands
    PROVE  Reindexed(bk, c) \in Book /\ MarkedDeleting(bk, c) \in Book
<1>1. Reindexed(bk, c) \in Book
  BY VersionSucc DEF Reindexed, Book, Statuses, Stages
<1>2. MarkedDeleting(bk, c) \in Book
  BY VersionSucc DEF MarkedDeleting, Book, Statuses
<1> QED
  BY <1>1, <1>2

LEMMA TombstoneType ==
    ASSUME NEW bk \in Book
    PROVE  Tombstone(bk) \in Book
<1>1. "" \in Details
  BY CatalogAssumption DEF CatalogAssumption
<1> QED
  BY <1>1, VersionSucc DEF Tombstone, Book, Statuses

(* A non-empty set of naturals below a bound has a greatest element. *)
LEMMA BoundedMax ==
    ASSUME NEW S \in SUBSET Nat, S # {}, NEW k \in Nat, \A n \in S : n < k
    PROVE  \E m \in S : \A n \in S : n <= m
<1> DEFINE T == {k - n : n \in S}
<1>1. T \subseteq Nat /\ T # {}
  <2>1. ASSUME NEW n \in S PROVE k - n \in Nat
    BY n \in Nat, n < k
  <2>2. \A u \in T : \E n \in S : u = k - n
    OBVIOUS
  <2>3. PICK n \in S : TRUE
    OBVIOUS
  <2>4. k - n \in T
    OBVIOUS
  <2> QED
    BY <2>1, <2>2, <2>4
<1>2. PICK t \in T : \A u \in T : <<u, t>> \notin OpToRel(<, Nat)
  <2> HIDE DEF T
  <2> QED
    BY <1>1, NatLessThanWellFounded, WFMin
<1>3. PICK m \in S : t = k - m
  OBVIOUS
<1>4. ASSUME NEW n \in S PROVE n <= m
  <2>1. k - n \in T /\ k - n \in Nat /\ t \in Nat
    BY <1>1
  <2>2. <<k - n, t>> \notin OpToRel(<, Nat)
    BY <1>2, <2>1
  <2>3. ~(k - n < t)
    <3> DEFINE u == k - n
    <3>1. u \in Nat /\ <<u, t>> \notin OpToRel(<, Nat)
      BY <2>1, <2>2
    <3> HIDE DEF u
    <3>2. ~(u < t)
      BY <3>1, <2>1 DEF OpToRel
    <3> QED
      BY <3>2 DEF u
  <2> QED
    BY <2>3, <1>3, n \in Nat, m \in Nat
<1> QED
  BY <1>4

(* What MAX(sequence)+1 computes: a sequence after every row of the book. *)
LEMMA NextSequenceFresh ==
    ASSUME TypeOK, SequenceBound, NEW b \in Books
    PROVE  /\ NextSequence(b) \in Nat
           /\ NextSequence(b) <= books[b].version + books[b].lifecycle
           /\ \A r \in RowsOf(b) : r.seq < NextSequence(b)
<1>1. books[b].version \in Nat /\ books[b].lifecycle \in Nat
  BY DEF TypeOK, Book
<1>2. CASE RowsOf(b) = {}
  BY <1>1, <1>2 DEF NextSequence
<1>3. CASE RowsOf(b) # {}
  <2> DEFINE S == {r.seq : r \in RowsOf(b)}
             k == books[b].version + books[b].lifecycle
  <2>1. \A r \in RowsOf(b) : r.seq \in Nat /\ r.seq < k
    BY DEF TypeOK, RowsOf, OutboxRow, SequenceBound
  <2>2. S \in SUBSET Nat /\ S # {} /\ k \in Nat /\ \A n \in S : n < k
    BY <1>1, <1>3, <2>1
  <2>3. \E m \in S : \A n \in S : n <= m
    <3> HIDE DEF S, k
    <3> QED BY <2>2, BoundedMax
  <2>4. \E m \in S : \A r \in RowsOf(b) : r.seq <= m
    BY <2>3
  <2> DEFINE top == CHOOSE m \in S : \A r \in RowsOf(b) : r.seq <= m
  <2>5. top \in S /\ \A r \in RowsOf(b) : r.seq <= top
    BY <2>4
  <2>6. NextSequence(b) = 1 + top
    BY <1>3 DEF NextSequence
  <2>7. top \in Nat /\ top < k
    BY <2>2, <2>5
  <2> HIDE DEF top, S
  <2>8. \A r \in RowsOf(b) : r.seq < 1 + top
    BY <2>1, <2>5, <2>7
  <2> QED
    BY <1>1, <2>6, <2>7, <2>8
<1> QED
  BY <1>2, <1>3

(***************************************************************************)
(* A step that replaces the row of one book, keeps its versions from       *)
(* falling and adds only rows of that book below the new sum.              *)
(***************************************************************************)
LEMMA SequenceBoundStep ==
    ASSUME TypeOK, SequenceBound, NEW b \in Books, NEW bk \in Book,
           bk.status # "absent",
           books' = [books EXCEPT ![b] = bk],
           Exists(b) => books[b].version + books[b].lifecycle
                            <= bk.version + bk.lifecycle,
           NEW new \in SUBSET OutboxRow, outbox' \subseteq outbox \cup new,
           \A r \in new : r.book = b /\ r.seq < bk.version + bk.lifecycle
    PROVE  SequenceBound'
<1>1. SUFFICES ASSUME NEW r \in outbox'
               PROVE  /\ books'[r.book].status # "absent"
                      /\ r.seq < books'[r.book].version + books'[r.book].lifecycle
  BY DEF SequenceBound, Exists
<1>2. r \in OutboxRow /\ r.book \in Books /\ r.seq \in Nat
  BY <1>1 DEF TypeOK, OutboxRow
<1>3. CASE r \in new
  <2>1. books'[r.book] = bk
    BY <1>3 DEF TypeOK
  <2> QED
    BY <1>3, <2>1
<1>4. CASE r \in outbox /\ r.book # b
  <2>1. books'[r.book] = books[r.book]
    BY <1>2, <1>4 DEF TypeOK
  <2> QED
    BY <1>4, <2>1 DEF SequenceBound, Exists
<1>5. CASE r \in outbox /\ r.book = b
  <2>1. books'[r.book] = bk
    BY <1>2, <1>5 DEF TypeOK
  <2>2. Exists(b) /\ r.seq < books[b].version + books[b].lifecycle
    BY <1>5 DEF SequenceBound
  <2>3. /\ books[b].version \in Nat /\ books[b].lifecycle \in Nat
        /\ bk.version \in Nat /\ bk.lifecycle \in Nat
    BY DEF TypeOK, Book
  <2> QED
    BY <1>2, <2>1, <2>2, <2>3
<1> QED
  BY <1>1, <1>3, <1>4, <1>5

-----------------------------------------------------------------------------
(* Type correctness *)

LEMMA UploadBookType ==
    ASSUME TypeOK, SequenceBound, NEW b \in Books, UploadBook(b)
    PROVE  TypeOK' /\ SequenceBound'
<1>1. NewBook \in Book /\ NewBook.status = "pending"
      /\ NewBook.version = 1 /\ NewBook.lifecycle = 1
  BY CatalogAssumption
     DEF CatalogAssumption, NewBook, NoBook, Book, Statuses, Stages
<1> DEFINE new == {Row(b, NewBook, 0, "uploaded"),
                   Row(b, NewBook, NewBook.version, "status_changed")}
<1>2. new \in SUBSET OutboxRow
  BY <1>1, RowType DEF RequestTypes
<1>3. \A r \in new : r.book = b /\ (r.seq = 0 \/ r.seq = 1)
  BY <1>1 DEF Row
<1>4. TypeOK'
  BY <1>1, <1>2 DEF UploadBook, TypeOK
<1>5. SequenceBound'
  <2>1. ~Exists(b) /\ books' = [books EXCEPT ![b] = NewBook] /\ outbox' = outbox \cup new
    BY DEF UploadBook
  <2>2. \A r \in new : r.book = b /\ r.seq < NewBook.version + NewBook.lifecycle
    BY <1>1, <1>3
  <2> HIDE DEF new
  <2> QED
    BY <1>1, <1>2, <2>1, <2>2, SequenceBoundStep
<1> QED
  BY <1>4, <1>5

(* The row a fact leaves behind, and how its versions moved. *)
LEMMA ApplyProcessingEventType ==
    ASSUME TypeOK, SequenceBound, NEW e \in Event, ApplyProcessingEvent(e)
    PROVE  TypeOK' /\ SequenceBound'
<1> DEFINE b == e.book
           bk == books[b]
           moved == IF FactApplies(bk, e) THEN FactResult(bk, e) ELSE bk
           next == IF e.kind = "chunks_ready"
                   THEN [moved EXCEPT !.manifest = e.manifest] ELSE moved
<1>1. b \in Books /\ (e.kind = "chunks_ready" => e.manifest \in Manifests)
  BY EventFields
<1>2. bk \in Book /\ bk.status # "absent"
  BY <1>1 DEF TypeOK, ApplyProcessingEvent, Fenced, Exists
<1>3. moved \in Book /\ moved.lifecycle = bk.lifecycle /\ moved.status # "absent"
      /\ moved.version = IF FactApplies(bk, e) THEN bk.version + 1 ELSE bk.version
  <2>1. FactResult(bk, e) \in Book
    BY <1>2, FactResultType
  <2>2. /\ FactResult(bk, e).lifecycle = bk.lifecycle
        /\ FactResult(bk, e).version = bk.version + 1
        /\ FactResult(bk, e).status # "absent"
    BY <1>2 DEF FactResult, Book, StatusAfter
  <2> QED
    BY <1>2, <2>1, <2>2
<1>4. next \in Book /\ next.lifecycle = bk.lifecycle /\ next.status # "absent"
      /\ next.version = IF FactApplies(bk, e) THEN bk.version + 1 ELSE bk.version
  <2> HIDE DEF moved
  <2> QED
    BY <1>1, <1>3 DEF Book
<1>5. /\ books' = [books EXCEPT ![b] = next]
      /\ IF FactApplies(bk, e) THEN AppendStatus(b, next) ELSE outbox' = outbox
      /\ inbox' = inbox \cup {e}
      /\ UNCHANGED <<ackInbox, commands, objects, marks>>
  BY DEF ApplyProcessingEvent
<1> HIDE DEF next, moved
<1> DEFINE new == IF FactApplies(bk, e)
                  THEN {Row(b, next, NextSequence(b), "status_changed")} ELSE {}
<1>6. outbox' = outbox \cup new
  BY <1>5 DEF AppendStatus
<1>7. /\ NextSequence(b) \in Nat
      /\ NextSequence(b) <= bk.version + bk.lifecycle
  BY <1>1, NextSequenceFresh
<1>8. new \in SUBSET OutboxRow
  BY <1>1, <1>4, <1>7, RowType
<1>9. TypeOK'
  BY <1>4, <1>5, <1>6, <1>8 DEF TypeOK
<1>10. bk.version \in Nat /\ bk.lifecycle \in Nat
  BY <1>2 DEF Book
<1>11. bk.version + bk.lifecycle <= next.version + next.lifecycle
  BY <1>4, <1>10
<1>12. \A r \in new : r.book = b /\ r.seq < next.version + next.lifecycle
  <2>1. CASE FactApplies(bk, e)
    <3>1. next.version + next.lifecycle = bk.version + bk.lifecycle + 1
      BY <1>4, <1>10, <2>1
    <3>2. NextSequence(b) < next.version + next.lifecycle
      BY <1>7, <1>10, <3>1
    <3> QED
      BY <3>2, <2>1 DEF Row
  <2>2. CASE ~FactApplies(bk, e)
    BY <2>2
  <2> QED
    BY <2>1, <2>2
<1>13. SequenceBound'
  <2> HIDE DEF new
  <2> QED
    BY <1>1, <1>4, <1>5, <1>6, <1>8, <1>11, <1>12, SequenceBoundStep
<1> QED
  BY <1>9, <1>13

(* An accepted command, whatever row it leaves. *)
LEMMA AcceptType ==
    ASSUME TypeOK, SequenceBound, NEW b \in Books, NEW c \in Commands,
           NEW kind \in {"reindex", "delete"}, NEW bk \in Book,
           NEW request \in RequestTypes, bk.status # "absent",
           bk.version = books[b].version + 1,
           bk.lifecycle = books[b].lifecycle + 1,
           Accept(b, c, kind, bk, request)
    PROVE  TypeOK' /\ SequenceBound'
<1> DEFINE n == NextSequence(b)
           new == {Row(b, bk, n, request), Row(b, bk, n + 1, "status_changed")}
           row == [id |-> c, book |-> b, kind |-> kind, lifecycle |-> bk.lifecycle]
<1>1. n \in Nat /\ n <= books[b].version + books[b].lifecycle
  BY NextSequenceFresh
<1>2. books[b].version \in Nat /\ books[b].lifecycle \in Nat
  BY DEF TypeOK, Book
<1>3. /\ books' = [books EXCEPT ![b] = bk]
      /\ commands' = commands \cup {row}
      /\ outbox' = outbox \cup new
      /\ UNCHANGED <<inbox, ackInbox, objects, marks>>
  BY DEF Accept
<1> HIDE DEF n
<1>4. n + 1 \in Nat
  BY <1>1
<1>5. new \in SUBSET OutboxRow
  BY <1>1, <1>4, RowType
<1>6. row \in CommandRow
  BY DEF CommandRow, Book
<1>7. TypeOK'
  <2> HIDE DEF new, row
  <2> QED
    BY <1>3, <1>5, <1>6 DEF TypeOK
<1>8. /\ books[b].version + books[b].lifecycle <= bk.version + bk.lifecycle
      /\ n < bk.version + bk.lifecycle
      /\ n + 1 < bk.version + bk.lifecycle
  BY <1>1, <1>2
<1>9. \A r \in new : r.book = b /\ r.seq < bk.version + bk.lifecycle
  BY <1>8 DEF Row
<1>10. SequenceBound'
  <2> HIDE DEF new
  <2> QED
    BY <1>3, <1>5, <1>8, <1>9, SequenceBoundStep
<1> QED
  BY <1>7, <1>10

LEMMA ReindexBookType ==
    ASSUME TypeOK, SequenceBound, NEW b \in Books, NEW c \in Commands,
           ReindexBook(b, c)
    PROVE  TypeOK' /\ SequenceBound'
<1> DEFINE bk == Reindexed(books[b], c)
<1>1. books[b] \in Book
  BY DEF TypeOK
<1>2. bk \in Book
  BY <1>1, CommandResultType
<1>3. /\ bk.status # "absent"
      /\ bk.version = books[b].version + 1
      /\ bk.lifecycle = books[b].lifecycle + 1
  BY <1>1 DEF Reindexed, Book
<1>4. Accept(b, c, "reindex", bk, "reindex_requested")
  BY DEF ReindexBook
<1> HIDE DEF bk
<1> QED
  BY <1>2, <1>3, <1>4, AcceptType DEF RequestTypes

LEMMA DeleteBookType ==
    ASSUME TypeOK, SequenceBound, NEW b \in Books, NEW c \in Commands,
           DeleteBook(b, c)
    PROVE  TypeOK' /\ SequenceBound'
<1> DEFINE bk == MarkedDeleting(books[b], c)
<1>1. books[b] \in Book
  BY DEF TypeOK
<1>2. bk \in Book
  BY <1>1, CommandResultType
<1>3. /\ bk.status # "absent"
      /\ bk.version = books[b].version + 1
      /\ bk.lifecycle = books[b].lifecycle + 1
  BY <1>1 DEF MarkedDeleting, Book
<1>4. Accept(b, c, "delete", bk, "deletion_requested")
  BY DEF DeleteBook
<1> HIDE DEF bk
<1> QED
  BY <1>2, <1>3, <1>4, AcceptType DEF RequestTypes

(* Settling a confirmation, whether it finalizes or not. *)
LEMMA SettleType ==
    ASSUME TypeOK, SequenceBound, NEW b \in Books, NEW bk \in Book,
           bk.status # "absent", bk.version = books[b].version,
           bk.lifecycle = books[b].lifecycle, Settle(b, bk)
    PROVE  /\ books' \in [Books -> Book]
           /\ outbox' \subseteq OutboxRow
           /\ SequenceBound'
<1>1. bk.version \in Nat /\ bk.lifecycle \in Nat
  BY DEF Book
<1>2. CASE AllDeleted(bk)
  <2> DEFINE dead == Tombstone(bk)
             new == {Row(b, dead, 0, "status_changed")}
  <2>1. dead \in Book
    BY TombstoneType
  <2>2. dead.status # "absent" /\ dead.version = bk.version + 1
        /\ dead.lifecycle = bk.lifecycle
    BY DEF Tombstone, Book
  <2>3. books' = [books EXCEPT ![b] = dead]
        /\ outbox' = (outbox \ RowsOf(b)) \cup new
    BY <1>2 DEF Settle
  <2> HIDE DEF dead
  <2>4. new \in SUBSET OutboxRow
    BY <2>1, <2>2, RowType
  <2>5. \A r \in new : r.book = b /\ r.seq = 0
    BY DEF Row
  <2> HIDE DEF new
  <2>6. /\ books[b].version + books[b].lifecycle <= dead.version + dead.lifecycle
        /\ 0 < dead.version + dead.lifecycle
    BY <1>1, <2>2
  <2>7. \A r \in new : r.book = b /\ r.seq < dead.version + dead.lifecycle
    BY <2>5, <2>6
  <2>8. outbox' \subseteq outbox \cup new
    BY <2>3
  <2>9. SequenceBound'
    BY <2>1, <2>2, <2>3, <2>4, <2>6, <2>7, <2>8, SequenceBoundStep
  <2> QED
    BY <2>1, <2>3, <2>4, <2>8, <2>9 DEF TypeOK
<1>3. CASE ~AllDeleted(bk)
  <2>1. books' = [books EXCEPT ![b] = bk] /\ outbox' = outbox \cup {}
    BY <1>3 DEF Settle
  <2>2. books[b].version + books[b].lifecycle <= bk.version + bk.lifecycle
    BY <1>1
  <2> DEFINE none == {}
  <2>3. /\ none \in SUBSET OutboxRow /\ outbox' \subseteq outbox \cup none
        /\ \A r \in none : r.book = b /\ r.seq < bk.version + bk.lifecycle
    BY <2>1
  <2> HIDE DEF none
  <2>4. SequenceBound'
    BY <2>1, <2>2, <2>3, SequenceBoundStep
  <2> QED
    BY <2>1, <2>4 DEF TypeOK
<1> QED
  BY <1>2, <1>3

LEMMA MarkOriginalDeletedType ==
    ASSUME TypeOK, SequenceBound, NEW m \in marks, MarkOriginalDeleted(m)
    PROVE  TypeOK' /\ SequenceBound'
<1>1. m.book \in Books /\ books[m.book] \in Book
  BY DEF TypeOK, Mark
<1>2. marks' \subseteq marks /\ UNCHANGED <<inbox, ackInbox, commands, objects>>
  BY DEF MarkOriginalDeleted
<1>3. CASE DeletionCurrent(m) /\ ~books[m.book].originalDeleted
  <2> DEFINE bk == [books[m.book] EXCEPT !.originalDeleted = TRUE]
  <2>1. /\ bk \in Book /\ bk.status # "absent"
        /\ bk.version = books[m.book].version
        /\ bk.lifecycle = books[m.book].lifecycle
    BY <1>1, <1>3 DEF Book, DeletionCurrent
  <2>2. Settle(m.book, bk)
    BY <1>3 DEF MarkOriginalDeleted
  <2> HIDE DEF bk
  <2>3. /\ books' \in [Books -> Book] /\ outbox' \subseteq OutboxRow
        /\ SequenceBound'
    BY <1>1, <2>1, <2>2, SettleType
  <2> QED
    BY <1>2, <2>3 DEF TypeOK
<1>4. CASE ~(DeletionCurrent(m) /\ ~books[m.book].originalDeleted)
  <2>1. UNCHANGED <<books, outbox>>
    BY <1>4 DEF MarkOriginalDeleted
  <2> QED
    BY <1>2, <2>1 DEF TypeOK, SequenceBound, Exists
<1> QED
  BY <1>3, <1>4

LEMMA ApplyLifecycleAckType ==
    ASSUME TypeOK, SequenceBound, NEW a \in Ack, ApplyLifecycleAck(a)
    PROVE  TypeOK' /\ SequenceBound'
<1>1. a.book \in Books /\ books[a.book] \in Book /\ books[a.book].status # "absent"
  BY DEF TypeOK, Ack, ApplyLifecycleAck, Exists
<1>2. ackInbox' = ackInbox \cup {a} /\ UNCHANGED <<inbox, commands, objects, marks>>
  BY DEF ApplyLifecycleAck
<1>3. CASE AckFlagged(books[a.book], a.kind)
  <2>1. UNCHANGED <<books, outbox>>
    BY <1>3 DEF ApplyLifecycleAck
  <2> QED
    BY <1>2, <2>1 DEF TypeOK, SequenceBound, Exists
<1>4. CASE ~AckFlagged(books[a.book], a.kind)
  <2> DEFINE bk == WithAck(books[a.book], a.kind)
  <2>1. /\ bk \in Book /\ bk.status # "absent"
        /\ bk.version = books[a.book].version
        /\ bk.lifecycle = books[a.book].lifecycle
    BY <1>1 DEF Book, WithAck
  <2>2. Settle(a.book, bk)
    BY <1>4 DEF ApplyLifecycleAck
  <2> HIDE DEF bk
  <2>3. /\ books' \in [Books -> Book] /\ outbox' \subseteq OutboxRow
        /\ SequenceBound'
    BY <1>1, <2>1, <2>2, SettleType
  <2> QED
    BY <1>2, <2>3 DEF TypeOK
<1> QED
  BY <1>3, <1>4

(* Deleting the original and losing a mark touch neither rows nor versions. *)
LEMMA DeleterType ==
    ASSUME TypeOK, SequenceBound,
           \/ \E b \in Books, by \in Deleters : DeleteOriginal(b, by)
           \/ \E m \in marks : LoseMark(m)
    PROVE  TypeOK' /\ SequenceBound'
<1>1. ASSUME NEW b \in Books, NEW by \in Deleters, DeleteOriginal(b, by)
      PROVE  TypeOK' /\ SequenceBound'
  <2> DEFINE m == [by |-> by, book |-> b, command |-> books[b].command,
                   lifecycle |-> books[b].lifecycle]
  <2>1. m \in Mark
    BY DEF TypeOK, Book, Mark
  <2>2. /\ marks' = marks \cup {m} /\ objects' \subseteq objects
        /\ UNCHANGED <<books, inbox, ackInbox, commands, outbox>>
    BY <1>1 DEF DeleteOriginal
  <2> HIDE DEF m
  <2> QED
    BY <2>1, <2>2 DEF TypeOK, SequenceBound, Exists
<1>2. ASSUME NEW m \in marks, LoseMark(m)
      PROVE  TypeOK' /\ SequenceBound'
  BY <1>2 DEF LoseMark, TypeOK, SequenceBound, Exists
<1> QED
  BY <1>1, <1>2

(***************************************************************************)
(* The tables stay well typed, and no row outgrows its book's versions.    *)
(***************************************************************************)
THEOREM TypeCorrect == Spec => [](TypeOK /\ SequenceBound)
<1>1. Init => TypeOK /\ SequenceBound
  <2>1. NoBook \in Book
    BY CatalogAssumption DEF CatalogAssumption, NoBook, Book
  <2> QED
    BY <2>1 DEF Init, TypeOK, SequenceBound
<1>2. TypeOK /\ SequenceBound /\ [Next]_vars => (TypeOK /\ SequenceBound)'
  <2> SUFFICES ASSUME TypeOK, SequenceBound, [Next]_vars
               PROVE  TypeOK' /\ SequenceBound'
    OBVIOUS
  <2>1. CASE UNCHANGED vars
    BY <2>1 DEF vars, TypeOK, SequenceBound, Exists
  <2>2. CASE \E b \in Books : UploadBook(b)
    BY <2>2, UploadBookType
  <2>3. CASE \E b \in Books, by \in Deleters : DeleteOriginal(b, by)
    BY <2>3, DeleterType
  <2>4. CASE \E b \in Books, c \in Commands : ReindexBook(b, c) \/ DeleteBook(b, c)
    BY <2>4, ReindexBookType, DeleteBookType
  <2>5. CASE \E e \in Event : ApplyProcessingEvent(e)
    BY <2>5, ApplyProcessingEventType
  <2>6. CASE \E m \in marks : MarkOriginalDeleted(m) \/ LoseMark(m)
    BY <2>6, MarkOriginalDeletedType, DeleterType
  <2>7. CASE \E a \in Ack : ApplyLifecycleAck(a)
    BY <2>7, ApplyLifecycleAckType
  <2> QED
    BY <2>1, <2>2, <2>3, <2>4, <2>5, <2>6, <2>7 DEF Next
<1> QED
  BY <1>1, <1>2, PTL DEF Spec

-----------------------------------------------------------------------------
(* Deletion *)

Live == {"pending", "processing", "indexed", "failed", "reindexing"}

SameFlags(old, new) ==
    /\ new.originalDeleted = old.originalDeleted
    /\ new.artifactsDeleted = old.artifactsDeleted
    /\ new.indexDeleted = old.indexDeleted

(***************************************************************************)
(* How one step may change the status and the deletion flags of a row: not *)
(* at all, by a fact or a reindex command, by a delete command,            *)
(***************************************************************************)
MoveStep(old, new) ==
    \/ new.status = old.status /\ SameFlags(old, new) /\ old.status # "deleted"
    \/ new = old
    \/ /\ old.status \in Live /\ new.status \in Live
       /\ SameFlags(old, new)
    \/ /\ old.status \in Live /\ new.status = "deleting"
       /\ ~new.originalDeleted /\ ~new.artifactsDeleted /\ ~new.indexDeleted

(* or by upload or a confirmation that was still missing. *)
RowStep(old, new) ==
    \/ MoveStep(old, new)
    \/ /\ old.status = "absent" /\ new.status = "pending"
       /\ ~new.originalDeleted /\ ~new.artifactsDeleted /\ ~new.indexDeleted
    \/ /\ old.status \in {"deleting", "deleted"}
       /\ ~AllDeleted(old)
       /\ old.originalDeleted => new.originalDeleted
       /\ old.artifactsDeleted => new.artifactsDeleted
       /\ old.indexDeleted => new.indexDeleted
       /\ new.status = IF AllDeleted(new) THEN "deleted" ELSE old.status

(* Settling a missing confirmation is the last kind of step. *)
LEMMA SettleRowStep ==
    ASSUME TypeOK, NEW b \in Books, NEW bk \in Book,
           books[b].status \in {"deleting", "deleted"},
           bk.status = books[b].status, ~AllDeleted(books[b]),
           books[b].originalDeleted => bk.originalDeleted,
           books[b].artifactsDeleted => bk.artifactsDeleted,
           books[b].indexDeleted => bk.indexDeleted,
           Settle(b, bk)
    PROVE  \A d \in Books : RowStep(books[d], books'[d])
<1>1. books \in [Books -> Book]
  BY DEF TypeOK
<1>2. CASE AllDeleted(bk)
  <2>1. books' = [books EXCEPT ![b] = Tombstone(bk)]
    BY <1>2 DEF Settle
  <2>2. /\ SameFlags(bk, Tombstone(bk))
        /\ Tombstone(bk).status = "deleted"
    BY DEF Tombstone, Book, SameFlags
  <2> QED
    BY <1>1, <1>2, <2>1, <2>2 DEF RowStep, MoveStep, SameFlags, AllDeleted
<1>3. CASE ~AllDeleted(bk)
  <2>1. books' = [books EXCEPT ![b] = bk]
    BY <1>3 DEF Settle
  <2> QED
    BY <1>1, <1>3, <2>1 DEF RowStep, MoveStep
<1> QED
  BY <1>2, <1>3

(* A fact leaves the deletion flags alone and moves live books only. *)
LEMMA FactRowStep ==
    ASSUME TypeOK, NEW e \in Event, ApplyProcessingEvent(e)
    PROVE  \A d \in Books : MoveStep(books[d], books'[d])
<1> DEFINE bk == books[e.book]
           moved == IF FactApplies(bk, e) THEN FactResult(bk, e) ELSE bk
           next == IF e.kind = "chunks_ready"
                   THEN [moved EXCEPT !.manifest = e.manifest] ELSE moved
<1>1. e.book \in Books /\ e.kind \in Kinds
  BY EventFields
<1>2. bk \in Book /\ bk.status # "absent" /\ bk.status # "deleted"
  BY <1>1 DEF TypeOK, ApplyProcessingEvent, Fenced, Exists
<1>3. CASE FactApplies(bk, e)
  <2>1. bk.status \in Live
    BY <1>3 DEF FactApplies, AwaitsIndexing, validTransition, Live
  <2>2. /\ FactResult(bk, e).status \in Live
        /\ SameFlags(bk, FactResult(bk, e))
        /\ FactResult(bk, e) \in Book
    <3>1. StatusAfter(e.kind) \in Live
      BY DEF StatusAfter, Live
    <3>2. FactResult(bk, e).status = StatusAfter(e.kind)
      BY <1>2 DEF FactResult, Book
    <3>3. SameFlags(bk, FactResult(bk, e))
      BY <1>2 DEF FactResult, Book, SameFlags
    <3> QED
      BY <1>2, <3>1, <3>2, <3>3, FactResultType
  <2>3. next.status \in Live /\ SameFlags(bk, next)
    BY <1>3, <2>2 DEF SameFlags, Book
  <2>4. MoveStep(bk, next)
    <3> HIDE DEF next, moved
    <3> QED
      BY <2>1, <2>3 DEF MoveStep
  <2> QED
    BY <1>1, <2>4 DEF ApplyProcessingEvent, TypeOK, MoveStep
<1>4. CASE ~FactApplies(bk, e)
  <2>1. next.status = bk.status /\ SameFlags(bk, next)
    BY <1>2, <1>4 DEF SameFlags, Book
  <2>2. MoveStep(bk, next)
    <3> HIDE DEF next, moved
    <3> QED
      BY <1>2, <2>1 DEF MoveStep
  <2> QED
    BY <1>1, <2>2 DEF ApplyProcessingEvent, TypeOK, MoveStep
<1> QED
  BY <1>3, <1>4

(* An accepted command is one of the two command steps. *)
LEMMA CommandRowStep ==
    ASSUME TypeOK, NEW b \in Books, NEW c \in Commands,
           ReindexBook(b, c) \/ DeleteBook(b, c)
    PROVE  \A d \in Books : MoveStep(books[d], books'[d])
<1>1. books \in [Books -> Book] /\ books[b] \in Book
  BY DEF TypeOK
<1>2. CASE ReindexBook(b, c)
  <2>1. books' = [books EXCEPT ![b] = Reindexed(books[b], c)]
        /\ books[b].status \in {"indexed", "failed"}
    BY <1>2 DEF ReindexBook, Accept, CanReindex
  <2>2. /\ Reindexed(books[b], c).status = "reindexing"
        /\ SameFlags(books[b], Reindexed(books[b], c))
    BY <1>1 DEF Reindexed, Book, SameFlags
  <2> QED
    BY <1>1, <2>1, <2>2 DEF MoveStep, Live
<1>3. CASE DeleteBook(b, c)
  <2>1. books' = [books EXCEPT ![b] = MarkedDeleting(books[b], c)]
        /\ books[b].status \in Live
    BY <1>3 DEF DeleteBook, Accept, validTransition, Live
  <2>2. LET new == MarkedDeleting(books[b], c)
        IN  /\ new.status = "deleting"
            /\ ~new.originalDeleted /\ ~new.artifactsDeleted /\ ~new.indexDeleted
    BY <1>1 DEF MarkedDeleting, Book
  <2> QED
    BY <1>1, <2>1, <2>2 DEF MoveStep, Live
<1> QED
  BY <1>2, <1>3

(* Every step changes every row in one of the ways RowStep lists. *)
LEMMA NextRowStep ==
    ASSUME TypeOK, [Next]_vars
    PROVE  \A d \in Books : RowStep(books[d], books'[d])
<1>1. CASE UNCHANGED books
  BY <1>1 DEF RowStep, MoveStep
<1>2. ASSUME NEW b \in Books, UploadBook(b)
      PROVE  \A d \in Books : RowStep(books[d], books'[d])
  <2>1. /\ NewBook.status = "pending" /\ ~NewBook.originalDeleted
        /\ ~NewBook.artifactsDeleted /\ ~NewBook.indexDeleted
    BY DEF NewBook, NoBook
  <2> QED
    BY <1>2, <2>1 DEF UploadBook, Exists, RowStep, MoveStep, TypeOK
<1>3. ASSUME NEW b \in Books, NEW c \in Commands, ReindexBook(b, c) \/ DeleteBook(b, c)
      PROVE  \A d \in Books : RowStep(books[d], books'[d])
  BY <1>3, CommandRowStep DEF RowStep
<1>4. ASSUME NEW e \in Event, ApplyProcessingEvent(e)
      PROVE  \A d \in Books : RowStep(books[d], books'[d])
  BY <1>4, FactRowStep DEF RowStep
<1>5. ASSUME NEW m \in marks, MarkOriginalDeleted(m), ~UNCHANGED books
      PROVE  \A d \in Books : RowStep(books[d], books'[d])
  <2> DEFINE bk == [books[m.book] EXCEPT !.originalDeleted = TRUE]
  <2>1. m.book \in Books /\ books[m.book] \in Book
    BY DEF TypeOK, Mark
  <2>2. DeletionCurrent(m) /\ ~books[m.book].originalDeleted /\ Settle(m.book, bk)
    BY <1>5 DEF MarkOriginalDeleted
  <2>3. /\ bk \in Book /\ bk.status = books[m.book].status /\ bk.originalDeleted
        /\ bk.artifactsDeleted = books[m.book].artifactsDeleted
        /\ bk.indexDeleted = books[m.book].indexDeleted
    BY <2>1 DEF Book
  <2>4. books[m.book].status \in {"deleting", "deleted"} /\ ~AllDeleted(books[m.book])
    BY <2>2 DEF DeletionCurrent, AllDeleted
  <2> HIDE DEF bk
  <2> QED
    BY <2>1, <2>2, <2>3, <2>4, SettleRowStep
<1>6. ASSUME NEW a \in Ack, ApplyLifecycleAck(a), ~UNCHANGED books
      PROVE  \A d \in Books : RowStep(books[d], books'[d])
  <2> DEFINE bk == WithAck(books[a.book], a.kind)
  <2>1. a.book \in Books /\ books[a.book] \in Book
    BY DEF TypeOK, Ack
  <2>2. /\ DeletionCurrent(a) /\ ~AckFlagged(books[a.book], a.kind)
        /\ Settle(a.book, bk)
    BY <1>6 DEF ApplyLifecycleAck
  <2>3. /\ bk \in Book /\ bk.status = books[a.book].status
        /\ bk.originalDeleted = books[a.book].originalDeleted
        /\ books[a.book].artifactsDeleted => bk.artifactsDeleted
        /\ books[a.book].indexDeleted => bk.indexDeleted
    BY <2>1 DEF Book, WithAck
  <2>4. books[a.book].status \in {"deleting", "deleted"} /\ ~AllDeleted(books[a.book])
    BY <2>2 DEF DeletionCurrent, AllDeleted, AckFlagged
  <2> HIDE DEF bk
  <2> QED
    BY <2>1, <2>2, <2>3, <2>4, SettleRowStep
<1>7. ASSUME \/ \E b \in Books, by \in Deleters : DeleteOriginal(b, by)
             \/ \E m \in marks : LoseMark(m)
             \/ UNCHANGED vars
      PROVE  UNCHANGED books
  BY <1>7 DEF DeleteOriginal, LoseMark, vars
<1> QED
  BY <1>1, <1>2, <1>3, <1>4, <1>5, <1>6, <1>7 DEF Next

DeletionInv == DeletionConverges /\ OriginalKept /\ MarksFollowDeletion

(* A confirmed original was removed before, and no step brings it back. *)
LEMMA OriginalStep ==
    ASSUME TypeOK, DeletionInv, [Next]_vars
    PROVE  OriginalKept' /\ MarksFollowDeletion'
<1>1. books \in [Books -> Book] /\ marks \subseteq Mark /\ objects \subseteq Books
  BY DEF TypeOK
<1>2. \A d \in Books : RowStep(books[d], books'[d])
  BY NextRowStep
<1>3. \A d \in Books : books[d].status \in {"deleting", "deleted"} =>
                           books'[d].status \in {"deleting", "deleted"}
  BY <1>2 DEF RowStep, MoveStep, Live
<1>4. ASSUME UNCHANGED <<objects, marks>>,
             \A d \in Books : /\ Exists(d)' => Exists(d)
                              /\ books'[d].originalDeleted => books[d].originalDeleted
      PROVE  OriginalKept' /\ MarksFollowDeletion'
  <2>1. OriginalKept'
    BY <1>3, <1>4 DEF DeletionInv, OriginalKept, Exists
  <2>2. MarksFollowDeletion'
    BY <1>1, <1>3, <1>4 DEF DeletionInv, MarksFollowDeletion, Mark
  <2> QED
    BY <2>1, <2>2
<1>5. ASSUME NEW b \in Books, UploadBook(b)
      PROVE  OriginalKept' /\ MarksFollowDeletion'
  <2>1. /\ books' = [books EXCEPT ![b] = NewBook] /\ books[b].status = "absent"
        /\ objects' = objects \cup {b} /\ marks' = marks
    BY <1>5 DEF UploadBook, Exists
  <2>2. NewBook.status = "pending" /\ ~NewBook.originalDeleted
    BY DEF NewBook, NoBook
  <2>3. OriginalKept'
    BY <1>1, <2>1, <2>2 DEF DeletionInv, OriginalKept, Exists
  <2>4. MarksFollowDeletion'
    BY <1>1, <1>3, <2>1 DEF DeletionInv, MarksFollowDeletion, Mark
  <2> QED
    BY <2>3, <2>4
<1>6. ASSUME \A d \in Books : MoveStep(books[d], books'[d]), UNCHANGED <<objects, marks>>
      PROVE  OriginalKept' /\ MarksFollowDeletion'
  <2>1. \A d \in Books : /\ Exists(d)' => Exists(d)
                         /\ books'[d].originalDeleted => books[d].originalDeleted
    BY <1>6 DEF MoveStep, SameFlags, Exists, Live
  <2> QED
    BY <1>4, <1>6, <2>1
<1>7. ASSUME NEW e \in Event, ApplyProcessingEvent(e)
      PROVE  OriginalKept' /\ MarksFollowDeletion'
  BY <1>6, <1>7, FactRowStep DEF ApplyProcessingEvent
<1>8. ASSUME NEW b \in Books, NEW c \in Commands, ReindexBook(b, c) \/ DeleteBook(b, c)
      PROVE  OriginalKept' /\ MarksFollowDeletion'
  BY <1>6, <1>8, CommandRowStep DEF ReindexBook, DeleteBook, Accept
<1>9. ASSUME NEW b \in Books, NEW by \in Deleters, DeleteOriginal(b, by)
      PROVE  OriginalKept' /\ MarksFollowDeletion'
  <2> DEFINE m == [by |-> by, book |-> b, command |-> books[b].command,
                   lifecycle |-> books[b].lifecycle]
  <2>1. /\ books[b].status = "deleting" /\ books' = books
        /\ objects' = objects \ {b} /\ marks' = marks \cup {m}
    BY <1>9 DEF DeleteOriginal
  <2>2. m.book = b
    OBVIOUS
  <2> HIDE DEF m
  <2> QED
    BY <2>1, <2>2 DEF DeletionInv, OriginalKept, MarksFollowDeletion, Exists
<1>10. ASSUME NEW m \in marks, LoseMark(m)
       PROVE  OriginalKept' /\ MarksFollowDeletion'
  BY <1>10 DEF LoseMark, DeletionInv, OriginalKept, MarksFollowDeletion, Exists
<1>11. ASSUME NEW m \in marks, MarkOriginalDeleted(m)
       PROVE  OriginalKept' /\ MarksFollowDeletion'
  <2>1. /\ m.book \in Books /\ m.book \notin objects
        /\ books[m.book].status \in {"deleting", "deleted"}
    BY DEF DeletionInv, MarksFollowDeletion, TypeOK, Mark
  <2>2. objects' = objects /\ marks' \subseteq marks
    BY <1>11 DEF MarkOriginalDeleted
  <2>3. \A d \in Books : d # m.book => books'[d] = books[d]
    BY <1>1, <1>11 DEF MarkOriginalDeleted, Settle
  <2>4. OriginalKept'
    BY <1>3, <2>1, <2>2, <2>3 DEF DeletionInv, OriginalKept, Exists
  <2>5. MarksFollowDeletion'
    BY <1>1, <1>3, <2>2 DEF DeletionInv, MarksFollowDeletion, Mark
  <2> QED
    BY <2>4, <2>5
<1>12. ASSUME NEW a \in Ack, ApplyLifecycleAck(a)
       PROVE  OriginalKept' /\ MarksFollowDeletion'
  <2> DEFINE bk == WithAck(books[a.book], a.kind)
  <2>1. a.book \in Books /\ UNCHANGED <<objects, marks>> /\ books[a.book] \in Book
        /\ Exists(a.book)
    BY <1>1, <1>12 DEF ApplyLifecycleAck, Ack
  <2>2. /\ bk.originalDeleted = books[a.book].originalDeleted
        /\ Tombstone(bk).originalDeleted = books[a.book].originalDeleted
    BY <2>1 DEF Book, WithAck, Tombstone
  <2>3. \/ UNCHANGED books
        \/ books' = [books EXCEPT ![a.book] = bk]
        \/ books' = [books EXCEPT ![a.book] = Tombstone(bk)]
    BY <1>12 DEF ApplyLifecycleAck, Settle
  <2> HIDE DEF bk
  <2>4. \A d \in Books : /\ Exists(d)' => Exists(d)
                         /\ books'[d].originalDeleted => books[d].originalDeleted
    BY <1>1, <2>1, <2>2, <2>3 DEF Exists
  <2> QED
    BY <1>4, <2>1, <2>4
<1>13. CASE UNCHANGED vars
  BY <1>13 DEF vars, DeletionInv, OriginalKept, MarksFollowDeletion, Exists
<1> QED
  BY <1>5, <1>7, <1>8, <1>9, <1>10, <1>11, <1>12, <1>13 DEF Next

(* The confirmations and the status agree after every step. *)
LEMMA DeletionConvergesStep ==
    ASSUME TypeOK, DeletionConverges, [Next]_vars
    PROVE  DeletionConverges'
<1>1. \A d \in Books : RowStep(books[d], books'[d])
  BY NextRowStep
<1>2. ASSUME NEW d \in Books
      PROVE  /\ AllDeleted(books'[d]) <=> books'[d].status = "deleted"
             /\ \/ books'[d].originalDeleted
                \/ books'[d].artifactsDeleted
                \/ books'[d].indexDeleted
                => books'[d].status \in {"deleting", "deleted"}
  <2> DEFINE old == books[d]
             new == books'[d]
  <2>1. /\ AllDeleted(old) <=> old.status = "deleted"
        /\ old.originalDeleted \/ old.artifactsDeleted \/ old.indexDeleted
           => old.status \in {"deleting", "deleted"}
    BY DEF DeletionConverges, AllDeleted
  <2>2. RowStep(old, new)
    BY <1>1
  <2> HIDE DEF old, new
  <2>3. /\ AllDeleted(new) <=> new.status = "deleted"
        /\ new.originalDeleted \/ new.artifactsDeleted \/ new.indexDeleted
           => new.status \in {"deleting", "deleted"}
    BY <2>1, <2>2 DEF RowStep, MoveStep, SameFlags, AllDeleted, Live
  <2> QED
    BY <2>3 DEF new
<1> QED
  BY <1>2 DEF DeletionConverges, AllDeleted

(***************************************************************************)
(* Deletion converges in whatever order the confirmations arrive, and the  *)
(* original is there as long as the book is readable. The mark of a        *)
(* deleter that is still in flight is what makes this inductive.           *)
(***************************************************************************)
THEOREM DeletionSafe == Spec => [](DeletionConverges /\ OriginalKept)
<1>1. Init => DeletionInv
  <2> SUFFICES ASSUME Init PROVE DeletionInv
    OBVIOUS
  <2>1. /\ NoBook.status = "absent" /\ ~NoBook.originalDeleted
        /\ ~NoBook.artifactsDeleted /\ ~NoBook.indexDeleted
    BY DEF NoBook
  <2>2. marks = {} /\ \A b \in Books : books[b] = NoBook
    BY DEF Init
  <2> QED
    BY <2>1, <2>2 DEF DeletionInv, DeletionConverges, OriginalKept,
                      MarksFollowDeletion, Exists
<1>2. TypeOK /\ DeletionInv /\ [Next]_vars => DeletionInv'
  BY OriginalStep, DeletionConvergesStep DEF DeletionInv
<1>3. DeletionInv => DeletionConverges /\ OriginalKept
  BY DEF DeletionInv
<1> QED
  BY <1>1, <1>2, <1>3, TypeCorrect, PTL DEF Spec

(***************************************************************************)
(* No fact, command or acknowledgement takes a book out of deletion, and a *)
(* tombstone is final.                                                     *)
(***************************************************************************)
THEOREM DeletionFinal == Spec => DeletionIrreversible
<1>1. TypeOK /\ DeletionConverges /\ [Next]_vars =>
        [\A b \in Books :
            /\ books[b].status = "deleting" => books'[b].status \in {"deleting", "deleted"}
            /\ books[b].status = "deleted" => books'[b] = books[b]]_vars
  <2> SUFFICES ASSUME TypeOK, DeletionConverges, [Next]_vars, NEW b \in Books
               PROVE  /\ books[b].status = "deleting" =>
                             books'[b].status \in {"deleting", "deleted"}
                      /\ books[b].status = "deleted" => books'[b] = books[b]
    OBVIOUS
  <2> DEFINE old == books[b]
             new == books'[b]
  <2>1. RowStep(old, new)
    BY NextRowStep
  <2>2. old.status = "deleted" => AllDeleted(old)
    BY DEF DeletionConverges, AllDeleted
  <2> HIDE DEF old, new
  <2>3. /\ old.status = "deleting" => new.status \in {"deleting", "deleted"}
        /\ old.status = "deleted" => new = old
    BY <2>1, <2>2 DEF RowStep, MoveStep, Live
  <2> QED
    BY <2>3 DEF old, new
<1> QED
  BY <1>1, TypeCorrect, DeletionSafe, PTL DEF Spec, DeletionIrreversible

-----------------------------------------------------------------------------
(* The outbox *)

(***************************************************************************)
(* No row of the outbox is ahead of its book, so a row written for the     *)
(* next version is later than all of them.                                 *)
(***************************************************************************)
VersionBound == \A r \in outbox : r.version <= books[r.book].version

OutboxInv == SequencesUnique /\ StatusVersionsOrdered /\ VersionBound

(***************************************************************************)
(* A step that moves one book to a later version and adds rows of it with  *)
(* that version: one request row at most before one status row, both after *)
(* the book's earlier rows.                                                *)
(***************************************************************************)
LEMMA OutboxAppend ==
    ASSUME TypeOK, OutboxInv, NEW b \in Books, NEW bk \in Book,
           books' = [books EXCEPT ![b] = bk],
           books[b].version < bk.version,
           NEW new \in SUBSET OutboxRow,
           outbox' = outbox \cup new,
           \A r \in new : r.book = b /\ r.version = bk.version,
           \A r, q \in new : r.seq = q.seq => r = q,
           \A r, q \in new : r.type = "status_changed" /\ q.type = "status_changed"
                             => r = q,
           \A r \in new, q \in RowsOf(b) : q.seq < r.seq
    PROVE  OutboxInv'
<1>1. books \in [Books -> Book] /\ outbox \subseteq OutboxRow
  BY DEF TypeOK
<1>2. \A r \in outbox' : r.book \in Books /\ r.seq \in Nat /\ r.version \in Nat
  BY <1>1 DEF OutboxRow
<1>3. books[b].version \in Nat /\ bk.version \in Nat
  BY <1>1 DEF Book
<1>4. \A r \in new, q \in outbox : r.book = q.book => q.seq < r.seq
  BY DEF RowsOf
<1>5. \A r \in new, q \in outbox : r.book = q.book => q.version < r.version
  <2> SUFFICES ASSUME NEW r \in new, NEW q \in outbox, r.book = q.book
               PROVE  q.version < r.version
    OBVIOUS
  <2>1. q.version <= books[b].version /\ q.version \in Nat
    BY <1>2 DEF OutboxInv, VersionBound
  <2> QED
    BY <1>3, <2>1
<1>6. SequencesUnique'
  <2> SUFFICES ASSUME NEW r \in outbox', NEW q \in outbox',
                      r.book = q.book, r.seq = q.seq
               PROVE  r = q
    BY DEF SequencesUnique
  <2>1. CASE r \in outbox /\ q \in outbox
    BY <2>1 DEF OutboxInv, SequencesUnique
  <2>2. CASE r \in new /\ q \in new
    BY <2>2
  <2>3. CASE r \in new /\ q \in outbox
    BY <1>2, <1>4, <2>3
  <2>4. CASE r \in outbox /\ q \in new
    BY <1>2, <1>4, <2>4
  <2> QED
    BY <2>1, <2>2, <2>3, <2>4
<1>7. StatusVersionsOrdered'
  <2> SUFFICES ASSUME NEW r \in outbox', NEW q \in outbox', r.book = q.book,
                      r.type = "status_changed", q.type = "status_changed",
                      r.seq < q.seq
               PROVE  r.version < q.version
    BY DEF StatusVersionsOrdered
  <2>1. CASE r \in outbox /\ q \in outbox
    BY <2>1 DEF OutboxInv, StatusVersionsOrdered
  <2>2. CASE r \in new /\ q \in new
    <3>1. r = q
      BY <2>2
    <3> QED
      BY <1>2, <3>1
  <2>3. CASE r \in new /\ q \in outbox
    <3>1. q.seq < r.seq
      BY <1>4, <2>3
    <3> QED
      BY <1>2, <3>1
  <2>4. CASE r \in outbox /\ q \in new
    BY <1>5, <2>4
  <2> QED
    BY <2>1, <2>2, <2>3, <2>4
<1>8. VersionBound'
  <2> SUFFICES ASSUME NEW r \in outbox' PROVE r.version <= books'[r.book].version
    BY DEF VersionBound
  <2>1. CASE r \in new
    BY <1>1, <1>2, <1>3, <2>1
  <2>2. CASE r \in outbox /\ r.book # b
    BY <1>1, <1>2, <2>2 DEF OutboxInv, VersionBound
  <2>3. CASE r \in outbox /\ r.book = b
    <3>1. r.version <= books[b].version /\ r.version \in Nat /\ books'[r.book] = bk
      BY <1>1, <1>2, <2>3 DEF OutboxInv, VersionBound
    <3> QED
      BY <1>3, <3>1
  <2> QED
    BY <2>1, <2>2, <2>3
<1> QED
  BY <1>6, <1>7, <1>8 DEF OutboxInv

(* A step that writes no row and leaves the versions as they are. *)
LEMMA OutboxSame ==
    ASSUME TypeOK, OutboxInv, outbox' = outbox,
           \A d \in Books : books'[d].version = books[d].version
    PROVE  OutboxInv'
<1>1. \A r \in outbox : r.book \in Books
  BY DEF TypeOK, OutboxRow
<1> QED
  BY <1>1 DEF OutboxInv, SequencesUnique, StatusVersionsOrdered, VersionBound

LEMMA UploadBookOutbox ==
    ASSUME TypeOK, SequenceBound, OutboxInv, NEW b \in Books, UploadBook(b)
    PROVE  OutboxInv'
<1>1. NewBook \in Book /\ NewBook.version = 1 /\ NewBook.status # "absent"
  BY CatalogAssumption
     DEF CatalogAssumption, NewBook, NoBook, Book, Statuses, Stages
<1> DEFINE r0 == Row(b, NewBook, 0, "uploaded")
           r1 == Row(b, NewBook, NewBook.version, "status_changed")
<1>2. RowsOf(b) = {}
  BY DEF UploadBook, RowsOf, SequenceBound
<1>3. /\ r0.book = b /\ r0.seq = 0 /\ r0.type = "uploaded" /\ r0.version = 1
      /\ r1.book = b /\ r1.seq = 1 /\ r1.type = "status_changed" /\ r1.version = 1
  BY <1>1 DEF Row
<1>4. r0 \in OutboxRow /\ r1 \in OutboxRow
  BY <1>1, RowType DEF RequestTypes
<1>5. books' = [books EXCEPT ![b] = NewBook] /\ outbox' = outbox \cup {r0, r1}
  BY DEF UploadBook
<1> HIDE DEF r0, r1
<1>6. \A r \in outbox : r.book # b
  BY <1>2 DEF RowsOf
<1>7. SequencesUnique'
  BY <1>3, <1>5, <1>6 DEF SequencesUnique, OutboxInv
<1>8. StatusVersionsOrdered'
  BY <1>3, <1>5, <1>6 DEF StatusVersionsOrdered, OutboxInv
<1>9. VersionBound'
  <2>1. \A r \in outbox : r.book \in Books
    BY DEF TypeOK, OutboxRow
  <2> QED
    BY <1>1, <1>3, <1>5, <1>6, <2>1 DEF VersionBound, OutboxInv, TypeOK
<1> QED
  BY <1>7, <1>8, <1>9 DEF OutboxInv

LEMMA ApplyProcessingEventOutbox ==
    ASSUME TypeOK, SequenceBound, OutboxInv, NEW e \in Event, ApplyProcessingEvent(e)
    PROVE  OutboxInv'
<1> DEFINE b == e.book
           bk == books[b]
           moved == IF FactApplies(bk, e) THEN FactResult(bk, e) ELSE bk
           next == IF e.kind = "chunks_ready"
                   THEN [moved EXCEPT !.manifest = e.manifest] ELSE moved
<1>1. b \in Books /\ bk \in Book /\ bk.version \in Nat /\ bk.status # "absent"
      /\ (e.kind = "chunks_ready" => e.manifest \in Manifests)
  BY EventFields DEF TypeOK, Book, ApplyProcessingEvent, Fenced, Exists
<1>2. books' = [books EXCEPT ![b] = next]
  BY DEF ApplyProcessingEvent
<1>3. CASE FactApplies(bk, e)
  <2>1. /\ moved \in Book /\ moved.version = bk.version + 1
        /\ moved.status # "absent"
    <3>1. FactResult(bk, e) \in Book
      BY <1>1, FactResultType
    <3>2. bk \in Book
      BY <1>1
    <3>3. /\ FactResult(bk, e).version = bk.version + 1
          /\ FactResult(bk, e).status # "absent"
      BY <3>2 DEF FactResult, Book, StatusAfter
    <3> QED
      BY <1>3, <3>1, <3>3
  <2>2. next \in Book /\ next.version = bk.version + 1 /\ next.status # "absent"
    <3> HIDE DEF moved
    <3> QED
      BY <1>1, <2>1 DEF Book
  <2> DEFINE r == Row(b, next, NextSequence(b), "status_changed")
  <2>3. outbox' = outbox \cup {r}
    BY <1>3 DEF ApplyProcessingEvent, AppendStatus
  <2> HIDE DEF next, moved
  <2>4. NextSequence(b) \in Nat /\ \A q \in RowsOf(b) : q.seq < NextSequence(b)
    BY <1>1, NextSequenceFresh
  <2>5. r \in OutboxRow /\ r.book = b /\ r.version = next.version
        /\ r.seq = NextSequence(b)
    BY <1>1, <2>2, <2>4, RowType DEF Row
  <2>6. bk.version < next.version
    BY <1>1, <2>2
  <2> HIDE DEF r
  <2> DEFINE new == {r}
  <2>7. /\ new \in SUBSET OutboxRow /\ outbox' = outbox \cup new
        /\ \A x \in new : x.book = b /\ x.version = next.version
        /\ \A x, y \in new : x.seq = y.seq => x = y
        /\ \A x, y \in new : x.type = "status_changed" /\ y.type = "status_changed"
                             => x = y
        /\ \A x \in new, q \in RowsOf(b) : q.seq < x.seq
    <3> HIDE DEF b
    <3> QED
      BY <2>3, <2>4, <2>5
  <2> HIDE DEF new
  <2> QED
    BY <1>1, <1>2, <2>2, <2>6, <2>7, OutboxAppend
<1>4. CASE ~FactApplies(bk, e)
  <2>1. outbox' = outbox
    BY <1>4 DEF ApplyProcessingEvent
  <2>2. next.version = bk.version
    BY <1>1, <1>4 DEF Book
  <2> HIDE DEF next, moved
  <2>3. \A d \in Books : books'[d].version = books[d].version
    BY <1>1, <1>2, <2>2 DEF TypeOK
  <2> QED
    BY <2>1, <2>3, OutboxSame
<1> QED
  BY <1>3, <1>4

LEMMA AcceptOutbox ==
    ASSUME TypeOK, SequenceBound, OutboxInv, NEW b \in Books, NEW c, NEW kind,
           NEW bk \in Book, NEW request \in RequestTypes, bk.status # "absent",
           bk.version = books[b].version + 1, Accept(b, c, kind, bk, request)
    PROVE  OutboxInv'
<1> DEFINE n == NextSequence(b)
           r0 == Row(b, bk, n, request)
           r1 == Row(b, bk, n + 1, "status_changed")
           new == {r0, r1}
<1>1. n \in Nat /\ \A q \in RowsOf(b) : q.seq < n
  BY NextSequenceFresh
<1>2. books[b].version \in Nat /\ \A q \in RowsOf(b) : q.seq \in Nat
  BY DEF TypeOK, Book, RowsOf, OutboxRow
<1>3. books' = [books EXCEPT ![b] = bk] /\ outbox' = outbox \cup new
  BY DEF Accept
<1> HIDE DEF n
<1>4. n + 1 \in Nat /\ n # n + 1 /\ (\A q \in RowsOf(b) : q.seq < n + 1)
      /\ books[b].version < bk.version
  BY <1>1, <1>2
<1>5. r0 \in OutboxRow /\ r1 \in OutboxRow
  BY <1>1, <1>4, RowType
<1>6. /\ r0.book = b /\ r0.seq = n /\ r0.type = request /\ r0.version = bk.version
      /\ r1.book = b /\ r1.seq = n + 1 /\ r1.version = bk.version
  BY DEF Row
<1>7. request # "status_changed"
  BY DEF RequestTypes
<1> HIDE DEF r0, r1
<1>8. /\ new \in SUBSET OutboxRow
      /\ \A x \in new : x.book = b /\ x.version = bk.version
      /\ \A x, y \in new : x.seq = y.seq => x = y
      /\ \A x, y \in new : x.type = "status_changed" /\ y.type = "status_changed"
                           => x = y
      /\ \A x \in new, q \in RowsOf(b) : q.seq < x.seq
  BY <1>1, <1>4, <1>5, <1>6, <1>7
<1> HIDE DEF new
<1> QED
  BY <1>3, <1>4, <1>8, OutboxAppend

(* The purge leaves the tombstone's row as the only one of its book. *)
LEMMA SettleOutbox ==
    ASSUME TypeOK, OutboxInv, NEW b \in Books, NEW bk \in Book,
           bk.version = books[b].version, Settle(b, bk)
    PROVE  OutboxInv'
<1>1. CASE AllDeleted(bk)
  <2> DEFINE dead == Tombstone(bk)
             r == Row(b, dead, 0, "status_changed")
  <2>1. /\ books' = [books EXCEPT ![b] = dead]
        /\ outbox' = (outbox \ RowsOf(b)) \cup {r}
    BY <1>1 DEF Settle
  <2>2. r.book = b /\ r.version = dead.version /\ r.seq = 0
    BY DEF Row
  <2>3. dead.version \in Nat
    BY TombstoneType DEF Book
  <2> HIDE DEF dead, r
  <2>4. \A q \in outbox' : q = r \/ (q \in outbox /\ q.book # b)
    BY <2>1 DEF RowsOf
  <2>5. SequencesUnique'
    BY <2>2, <2>4 DEF OutboxInv, SequencesUnique
  <2>6. StatusVersionsOrdered'
    BY <2>2, <2>4 DEF OutboxInv, StatusVersionsOrdered
  <2>7. VersionBound'
    <3> SUFFICES ASSUME NEW q \in outbox' PROVE q.version <= books'[q.book].version
      BY DEF VersionBound
    <3>1. CASE q = r
      BY <2>1, <2>2, <2>3, <3>1 DEF TypeOK
    <3>2. CASE q \in outbox /\ q.book # b
      <4>1. q.book \in Books
        BY <3>2 DEF TypeOK, OutboxRow
      <4> QED
        BY <2>1, <3>2, <4>1 DEF TypeOK, OutboxInv, VersionBound
    <3> QED
      BY <2>4, <3>1, <3>2
  <2> QED
    BY <2>5, <2>6, <2>7 DEF OutboxInv
<1>2. CASE ~AllDeleted(bk)
  <2>1. books' = [books EXCEPT ![b] = bk] /\ outbox' = outbox
    BY <1>2 DEF Settle
  <2>2. \A d \in Books : books'[d].version = books[d].version
    BY <2>1 DEF TypeOK
  <2> QED
    BY <2>1, <2>2, OutboxSame
<1> QED
  BY <1>1, <1>2

(***************************************************************************)
(* The sequences of a book are unique and its status rows carry versions   *)
(* in their order, so publication in sequence order is publication in      *)
(* version order, through every purge of the outbox.                       *)
(***************************************************************************)
THEOREM OutboxOrdered == Spec => [](SequencesUnique /\ StatusVersionsOrdered)
<1>1. Init => OutboxInv
  BY DEF Init, OutboxInv, SequencesUnique, StatusVersionsOrdered, VersionBound
<1>2. TypeOK /\ SequenceBound /\ OutboxInv /\ [Next]_vars => OutboxInv'
  <2> SUFFICES ASSUME TypeOK, SequenceBound, OutboxInv, [Next]_vars
               PROVE  OutboxInv'
    OBVIOUS
  <2>1. CASE UNCHANGED <<books, outbox>>
    BY <2>1, OutboxSame
  <2>2. ASSUME NEW b \in Books, NEW c \in Commands, ReindexBook(b, c)
        PROVE  OutboxInv'
    <3> DEFINE bk == Reindexed(books[b], c)
    <3>1. books[b] \in Book
      BY DEF TypeOK
    <3>2. bk \in Book
      BY <3>1, CommandResultType
    <3>3. bk.status # "absent" /\ bk.version = books[b].version + 1
      BY <3>1 DEF Reindexed, Book
    <3>4. Accept(b, c, "reindex", bk, "reindex_requested")
      BY <2>2 DEF ReindexBook
    <3> HIDE DEF bk
    <3> QED
      BY <3>2, <3>3, <3>4, AcceptOutbox DEF RequestTypes
  <2>3. ASSUME NEW b \in Books, NEW c \in Commands, DeleteBook(b, c)
        PROVE  OutboxInv'
    <3> DEFINE bk == MarkedDeleting(books[b], c)
    <3>1. books[b] \in Book
      BY DEF TypeOK
    <3>2. bk \in Book
      BY <3>1, CommandResultType
    <3>3. bk.status # "absent" /\ bk.version = books[b].version + 1
      BY <3>1 DEF MarkedDeleting, Book
    <3>4. Accept(b, c, "delete", bk, "deletion_requested")
      BY <2>3 DEF DeleteBook
    <3> HIDE DEF bk
    <3> QED
      BY <3>2, <3>3, <3>4, AcceptOutbox DEF RequestTypes
  <2>4. ASSUME NEW m \in marks, MarkOriginalDeleted(m)
        PROVE  OutboxInv'
    <3> DEFINE bk == [books[m.book] EXCEPT !.originalDeleted = TRUE]
    <3>1. m.book \in Books /\ books[m.book] \in Book
      BY DEF TypeOK, Mark
    <3>2. bk \in Book /\ bk.version = books[m.book].version
      BY <3>1 DEF Book
    <3>3. UNCHANGED <<books, outbox>> \/ Settle(m.book, bk)
      BY <2>4 DEF MarkOriginalDeleted
    <3> HIDE DEF bk
    <3> QED
      BY <2>1, <3>1, <3>2, <3>3, SettleOutbox
  <2>5. ASSUME NEW a \in Ack, ApplyLifecycleAck(a)
        PROVE  OutboxInv'
    <3> DEFINE bk == WithAck(books[a.book], a.kind)
    <3>1. a.book \in Books /\ books[a.book] \in Book
      BY DEF TypeOK, Ack
    <3>2. bk \in Book /\ bk.version = books[a.book].version
      BY <3>1 DEF Book, WithAck
    <3>3. UNCHANGED <<books, outbox>> \/ Settle(a.book, bk)
      BY <2>5 DEF ApplyLifecycleAck
    <3> HIDE DEF bk
    <3> QED
      BY <2>1, <3>1, <3>2, <3>3, SettleOutbox
  <2>6. ASSUME \/ \E b \in Books, by \in Deleters : DeleteOriginal(b, by)
               \/ \E m \in marks : LoseMark(m)
               \/ UNCHANGED vars
        PROVE  OutboxInv'
    BY <2>1, <2>6 DEF DeleteOriginal, LoseMark, vars
  <2>7. ASSUME NEW b \in Books, UploadBook(b)
        PROVE  OutboxInv'
    BY <2>7, UploadBookOutbox
  <2>8. ASSUME NEW e \in Event, ApplyProcessingEvent(e)
        PROVE  OutboxInv'
    BY <2>8, ApplyProcessingEventOutbox
  <2> QED
    BY <2>2, <2>3, <2>4, <2>5, <2>6, <2>7, <2>8 DEF Next
<1>3. OutboxInv => SequencesUnique /\ StatusVersionsOrdered
  BY DEF OutboxInv
<1> QED
  BY <1>1, <1>2, <1>3, TypeCorrect, PTL DEF Spec

-----------------------------------------------------------------------------
(* What accounts for the row of a book *)

SameView(old, new) ==
    /\ new.version = old.version /\ new.lifecycle = old.lifecycle
    /\ new.status = old.status /\ new.stage = old.stage
    /\ new.failure = old.failure /\ new.detail = old.detail

(* A status row that says what bk shows. *)
Said(b, bk, rows) ==
    \E r \in rows :
        /\ r.book = b /\ r.type = "status_changed"
        /\ r.version = bk.version /\ r.lifecycle = bk.lifecycle
        /\ r.status = bk.status /\ r.stage = bk.stage
        /\ r.failure = bk.failure /\ r.detail = bk.detail

(* The fact that an outcome comes from. *)
Reported(b, bk, facts) ==
    bk.status \in {"indexed", "failed"} =>
        \E e \in facts :
            /\ e.book = b /\ e.lifecycle = bk.lifecycle
            /\ e.failure = bk.failure
            /\ IF bk.status = "indexed" THEN e.kind = "indexed"
               ELSE e.kind \in {"failed", "indexing_failed"}

(* A book in a final stage is no longer being processed. *)
StageFits(bk) ==
    bk.stage \in {"indexed", "failed"} =>
        bk.status \in {"indexed", "failed", "deleting", "deleted"}

StagesFit == \A b \in Books : StageFits(books[b])

(* Only a stored book has commands, and its generations start at one. *)
CommandsOfBooks ==
    /\ \A c \in commands : Exists(c.book)
    /\ \A b \in Books : Exists(b) => books[b].lifecycle >= 1

ShownInv == CurrentStatusQueued /\ OutcomeOfThisGeneration /\ StagesFit

CommandInv == GenerationsAccounted /\ CommandsOfBooks

LEMMA RowSays ==
    ASSUME NEW b, NEW bk, NEW n, NEW rows, Row(b, bk, n, "status_changed") \in rows
    PROVE  Said(b, bk, rows)
<1> DEFINE r == Row(b, bk, n, "status_changed")
<1>1. /\ r.book = b /\ r.type = "status_changed"
      /\ r.version = bk.version /\ r.lifecycle = bk.lifecycle
      /\ r.status = bk.status /\ r.stage = bk.stage
      /\ r.failure = bk.failure /\ r.detail = bk.detail
  BY DEF Row
<1>2. r \in rows
  OBVIOUS
<1> HIDE DEF r
<1> QED
  BY <1>1, <1>2 DEF Said

LEMMA SameViewSays ==
    ASSUME NEW b, NEW old, NEW new, SameView(old, new), NEW rows, Said(b, old, rows)
    PROVE  Said(b, new, rows)
  BY DEF SameView, Said

(* The parts of ShownInv, book by book. *)
LEMMA ShownByBook ==
    /\ CurrentStatusQueued <=> \A b \in Books : Exists(b) => Said(b, books[b], outbox)
    /\ OutcomeOfThisGeneration <=> \A b \in Books : Reported(b, books[b], inbox)
  BY DEF CurrentStatusQueued, OutcomeOfThisGeneration, Said, Reported

LEMMA ShownByBookNext ==
    /\ CurrentStatusQueued' <=> \A b \in Books : Exists(b)' => Said(b, books'[b], outbox')
    /\ OutcomeOfThisGeneration' <=> \A b \in Books : Reported(b, books'[b], inbox')
  BY DEF CurrentStatusQueued, OutcomeOfThisGeneration, Said, Reported

(* A step that replaces the row of one book and keeps the rows of the others. *)
LEMMA ShownStep ==
    ASSUME TypeOK, ShownInv, NEW b \in Books, NEW bk \in Book,
           books' = [books EXCEPT ![b] = bk],
           \A r \in outbox : r.book # b => r \in outbox',
           inbox \subseteq inbox',
           Said(b, bk, outbox'), Reported(b, bk, inbox'), StageFits(bk)
    PROVE  ShownInv'
<1>1. /\ books'[b] = bk
      /\ \A d \in Books : d # b => books'[d] = books[d]
  BY DEF TypeOK
<1>2. ASSUME NEW d \in Books, Exists(d)' PROVE Said(d, books'[d], outbox')
  <2>1. CASE d = b
    BY <1>1, <2>1
  <2>2. CASE d # b
    <3>1. books'[d] = books[d] /\ Exists(d)
      BY <1>1, <1>2, <2>2 DEF Exists
    <3>2. Said(d, books[d], outbox)
      BY <3>1, ShownByBook DEF ShownInv
    <3> QED
      BY <2>2, <3>1, <3>2 DEF Said
  <2> QED
    BY <2>1, <2>2
<1>3. ASSUME NEW d \in Books PROVE Reported(d, books'[d], inbox')
  <2>1. CASE d = b
    BY <1>1, <2>1
  <2>2. CASE d # b
    <3>1. books'[d] = books[d] /\ Reported(d, books[d], inbox)
      BY <1>1, <2>2, ShownByBook DEF ShownInv
    <3> QED
      BY <3>1 DEF Reported
  <2> QED
    BY <2>1, <2>2
<1>4. StagesFit'
  BY <1>1 DEF ShownInv, StagesFit
<1> QED
  BY <1>2, <1>3, <1>4, ShownByBookNext DEF ShownInv

(* A step that neither accepts a command nor stores a book. *)
LEMMA CommandsKept ==
    ASSUME TypeOK, CommandInv, UNCHANGED commands,
           \A d \in Books : /\ Exists(d)' <=> Exists(d)
                            /\ books'[d].lifecycle = books[d].lifecycle
                            /\ books'[d].command = books[d].command
    PROVE  CommandInv'
<1>1. \A c \in commands : c.book \in Books
  BY DEF TypeOK, CommandRow
<1>2. \A d \in Books : CommandsOf(d)' = CommandsOf(d)
  BY DEF CommandsOf
<1>3. GenerationsAccounted'
  BY <1>2 DEF CommandInv, GenerationsAccounted
<1>4. CommandsOfBooks'
  BY <1>1 DEF CommandInv, CommandsOfBooks
<1> QED
  BY <1>3, <1>4 DEF CommandInv

(* What one step may do to one row, for the outcome it shows. *)
Stands(old, new) ==
    /\ old.stage \in {"indexed", "failed"}
    /\ new.lifecycle = old.lifecycle
    /\ new.status # "deleted"
    => new.stage = old.stage /\ new.failure = old.failure /\ new.status = old.status

(* UploadBook *)
LEMMA UploadBookAccount ==
    ASSUME TypeOK, SequenceBound, ShownInv, CommandInv, NEW b \in Books, UploadBook(b)
    PROVE  /\ ShownInv' /\ CommandInv'
           /\ \A d \in Books : Stands(books[d], books'[d])
<1>1. /\ NewBook \in Book /\ NewBook.version = 1 /\ NewBook.lifecycle = 1
      /\ NewBook.status = "pending" /\ NewBook.stage = "queued"
  BY CatalogAssumption
     DEF CatalogAssumption, NewBook, NoBook, Book, Statuses, Stages
<1>2. /\ books[b].status = "absent" /\ books' = [books EXCEPT ![b] = NewBook]
      /\ outbox' = outbox \cup {Row(b, NewBook, 0, "uploaded"),
                                Row(b, NewBook, NewBook.version, "status_changed")}
      /\ UNCHANGED <<inbox, commands>>
  BY DEF UploadBook, Exists
<1>3. ShownInv'
  <2>1. Said(b, NewBook, outbox')
    BY <1>2, RowSays
  <2>2. Reported(b, NewBook, inbox') /\ StageFits(NewBook)
    BY <1>1 DEF Reported, StageFits
  <2> QED
    BY <1>1, <1>2, <2>1, <2>2, ShownStep
<1>4. /\ books'[b] = NewBook
      /\ \A d \in Books : d # b => books'[d] = books[d]
  BY <1>2 DEF TypeOK
<1>5. CommandInv'
  <2>1. \A c \in commands : c.book \in Books /\ c.book # b
    BY <1>2 DEF TypeOK, CommandRow, CommandInv, CommandsOfBooks, Exists
  <2>2. /\ CommandsOf(b)' = {}
        /\ \A d \in Books : d # b => CommandsOf(d)' = CommandsOf(d)
    BY <1>2, <2>1 DEF CommandsOf
  <2>3. GenerationsAccounted'
    <3>1. \A c, d \in commands' : c.id = d.id => c = d
      BY <1>2 DEF CommandInv, GenerationsAccounted
    <3>2. {c.lifecycle : c \in CommandsOf(b)'} = 2..books'[b].lifecycle
      BY <1>1, <1>4, <2>2
    <3>3. ASSUME NEW d \in Books, Exists(d)', d # b
          PROVE  /\ {c.lifecycle : c \in CommandsOf(d)'} = 2..books'[d].lifecycle
                 /\ \A x, y \in CommandsOf(d)' : x.lifecycle = y.lifecycle => x = y
                 /\ \A x \in CommandsOf(d)' :
                        x.lifecycle = books'[d].lifecycle => x.id = books'[d].command
      BY <1>4, <2>2, <3>3 DEF CommandInv, GenerationsAccounted, Exists
    <3> QED
      BY <2>2, <3>1, <3>2, <3>3 DEF GenerationsAccounted
  <2>4. CommandsOfBooks'
    BY <1>1, <1>2, <1>4, <2>1 DEF CommandInv, CommandsOfBooks, Exists
  <2> QED
    BY <2>3, <2>4 DEF CommandInv
<1>6. \A d \in Books : Stands(books[d], books'[d])
  BY <1>2, <1>4 DEF Stands, ShownInv, StagesFit, StageFits
<1> QED
  BY <1>3, <1>5, <1>6

(* ApplyProcessingEvent *)

(* A fact that moves a book finds it in no final stage, and explains what it leaves. *)
LEMMA FactMoves ==
    ASSUME NEW bk \in Book, NEW e \in Event, StageFits(bk), FactApplies(bk, e)
    PROVE  /\ bk.stage \notin {"indexed", "failed"}
           /\ StageFits(FactResult(bk, e))
           /\ FactResult(bk, e).status \notin {"absent", "deleted"}
           /\ FactResult(bk, e).lifecycle = bk.lifecycle
           /\ FactResult(bk, e).command = bk.command
           /\ FactResult(bk, e).status = "indexed" => e.kind = "indexed"
           /\ FactResult(bk, e).status = "failed" => e.kind \in {"failed", "indexing_failed"}
           /\ FactResult(bk, e).status \in {"indexed", "failed"} =>
                  FactResult(bk, e).failure = e.failure
<1>1. e.kind \in Kinds
  BY EventFields
<1>2. bk.stage \in Stages \cup {""}
  BY DEF Book
<1>3. bk.stage \notin {"indexed", "failed"}
  BY <1>1, <1>2 DEF FactApplies, FactIgnored, AwaitsIndexing, validTransition, StageFits,
                    Kinds, Stages
<1> DEFINE new == FactResult(bk, e)
<1>4. /\ new.status = StatusAfter(e.kind) /\ new.stage = StageAfter(e.kind)
      /\ new.failure = IF e.kind = "started" THEN bk.failure ELSE e.failure
      /\ new.lifecycle = bk.lifecycle /\ new.command = bk.command
  BY DEF FactResult, Book
<1> HIDE DEF new
<1>5. /\ StageFits(new) /\ new.status \notin {"absent", "deleted"}
      /\ new.status = "indexed" => e.kind = "indexed"
      /\ new.status = "failed" => e.kind \in {"failed", "indexing_failed"}
      /\ new.status \in {"indexed", "failed"} => new.failure = e.failure
  BY <1>1, <1>4 DEF StageFits, StatusAfter, StageAfter, Kinds
<1> QED
  BY <1>3, <1>4, <1>5 DEF new

LEMMA ApplyProcessingEventAccount ==
    ASSUME TypeOK, ShownInv, CommandInv, NEW e \in Event, ApplyProcessingEvent(e)
    PROVE  /\ ShownInv' /\ CommandInv'
           /\ \A d \in Books : Stands(books[d], books'[d])
<1> DEFINE bk == books[e.book]
           moved == IF FactApplies(bk, e) THEN FactResult(bk, e) ELSE bk
           next == IF e.kind = "chunks_ready"
                   THEN [moved EXCEPT !.manifest = e.manifest] ELSE moved
<1>1. e.book \in Books /\ bk \in Book /\ Exists(e.book) /\ e.lifecycle = bk.lifecycle
      /\ bk.status # "absent"
  BY EventFields DEF ApplyProcessingEvent, Fenced, TypeOK, Exists
<1>2. /\ books' = [books EXCEPT ![e.book] = next]
      /\ inbox' = inbox \cup {e} /\ UNCHANGED commands
      /\ IF FactApplies(bk, e) THEN AppendStatus(e.book, next) ELSE UNCHANGED outbox
  BY DEF ApplyProcessingEvent
<1>3. moved \in Book
  BY <1>1, FactResultType
<1>4. next \in Book /\ SameView(moved, next) /\ next.command = moved.command
  <2>1. e.kind = "chunks_ready" => e.manifest \in Manifests
    BY EventFields
  <2> HIDE DEF moved
  <2> QED
    BY <1>3, <2>1 DEF Book, SameView
<1>5. StageFits(bk) /\ Said(e.book, bk, outbox) /\ Reported(e.book, bk, inbox)
  <2>1. \A d \in Books : Exists(d) => Said(d, books[d], outbox)
    BY ShownByBook DEF ShownInv
  <2>2. \A d \in Books : Reported(d, books[d], inbox)
    BY ShownByBook DEF ShownInv
  <2> QED
    BY <1>1, <2>1, <2>2 DEF ShownInv, StagesFit
<1>6. /\ moved.lifecycle = bk.lifecycle /\ moved.command = bk.command
      /\ moved.status # "absent" /\ StageFits(moved)
      /\ Reported(e.book, moved, inbox')
  <2>1. CASE FactApplies(bk, e)
    <3>1. moved = FactResult(bk, e)
      BY <2>1
    <3> HIDE DEF moved, bk
    <3> QED
      BY <1>1, <1>2, <1>5, <2>1, <3>1, FactMoves DEF Reported
  <2>2. CASE ~FactApplies(bk, e)
    <3>1. moved = bk
      BY <2>2
    <3> HIDE DEF moved, bk
    <3> QED
      BY <1>1, <1>2, <1>5, <3>1 DEF Reported
  <2> QED
    BY <2>1, <2>2
<1>7. Said(e.book, next, outbox')
  <2>1. CASE FactApplies(bk, e)
    <3>1. Row(e.book, next, NextSequence(e.book), "status_changed") \in outbox'
      BY <1>2, <2>1 DEF AppendStatus
    <3> HIDE DEF next
    <3> QED
      BY <3>1, RowSays
  <2>2. CASE ~FactApplies(bk, e)
    <3>1. SameView(bk, next) /\ outbox' = outbox
      BY <1>2, <1>4, <2>2
    <3> HIDE DEF next, moved, bk
    <3> QED
      BY <1>5, <3>1, SameViewSays
  <2> QED
    BY <2>1, <2>2
<1>8. outbox \subseteq outbox'
  BY <1>2 DEF AppendStatus
<1>9. ASSUME FactApplies(bk, e) PROVE bk.stage \notin {"indexed", "failed"}
  <2> HIDE DEF bk
  <2> QED
    BY <1>1, <1>5, <1>9, FactMoves
<1>10. ~FactApplies(bk, e) => moved = bk
  OBVIOUS
<1>11. Stands(bk, next)
  <2> HIDE DEF next, moved, bk
  <2> QED
    BY <1>4, <1>9, <1>10 DEF Stands, SameView
<1>12. /\ next.lifecycle = bk.lifecycle /\ next.command = bk.command /\ next.status # "absent"
       /\ StageFits(next) /\ Reported(e.book, next, inbox')
  <2> HIDE DEF next, moved, bk
  <2> QED
    BY <1>4, <1>6 DEF SameView, StageFits, Reported
<1> HIDE DEF next, moved
<1>13. ShownInv'
  BY <1>1, <1>2, <1>4, <1>7, <1>8, <1>12, ShownStep
<1>14. /\ books'[e.book] = next
       /\ \A d \in Books : d # e.book => books'[d] = books[d]
  BY <1>1, <1>2 DEF TypeOK
<1>15. CommandInv'
  <2>1. \A d \in Books : /\ Exists(d)' <=> Exists(d)
                         /\ books'[d].lifecycle = books[d].lifecycle
                         /\ books'[d].command = books[d].command
    BY <1>1, <1>12, <1>14 DEF Exists
  <2> QED
    BY <1>2, <2>1, CommandsKept
<1>16. \A d \in Books : Stands(books[d], books'[d])
  BY <1>11, <1>14 DEF Stands
<1> QED
  BY <1>13, <1>15, <1>16

(* The two commands *)
LEMMA AcceptAccount ==
    ASSUME TypeOK, ShownInv, CommandInv, NEW b \in Books, NEW c \in Commands, NEW kind,
           NEW bk \in Book, NEW request, Accept(b, c, kind, bk, request), Exists(b),
           bk.status \in {"reindexing", "deleting"}, StageFits(bk),
           bk.lifecycle = books[b].lifecycle + 1, bk.command = c
    PROVE  /\ ShownInv' /\ CommandInv'
           /\ \A d \in Books : Stands(books[d], books'[d])
<1> DEFINE new == [id |-> c, book |-> b, kind |-> kind, lifecycle |-> bk.lifecycle]
           n == books[b].lifecycle
<1>1. /\ \A old \in commands : old.id # c
      /\ books' = [books EXCEPT ![b] = bk] /\ commands' = commands \cup {new}
      /\ outbox' = outbox \cup {Row(b, bk, NextSequence(b), request),
                                Row(b, bk, NextSequence(b) + 1, "status_changed")}
      /\ UNCHANGED inbox
  BY DEF Accept
<1>2. /\ new.id = c /\ new.book = b /\ new.lifecycle = n + 1
      /\ n \in Nat /\ n >= 1
  BY DEF TypeOK, Book, CommandInv, CommandsOfBooks
<1>3. /\ books'[b] = bk
      /\ \A d \in Books : d # b => books'[d] = books[d]
  BY <1>1 DEF TypeOK
<1>4. ShownInv'
  <2>1. Said(b, bk, outbox')
    <3> DEFINE k == NextSequence(b) + 1
    <3>1. Row(b, bk, k, "status_changed") \in outbox'
      BY <1>1
    <3> HIDE DEF k
    <3> QED
      BY <3>1, RowSays
  <2>2. Reported(b, bk, inbox')
    BY DEF Reported
  <2> QED
    BY <1>1, <2>1, <2>2, ShownStep
<1>5. n # bk.lifecycle
  BY <1>2
<1> HIDE DEF new, n
<1>6. /\ CommandsOf(b)' = CommandsOf(b) \cup {new}
      /\ \A d \in Books : d # b => CommandsOf(d)' = CommandsOf(d)
  BY <1>1, <1>2 DEF CommandsOf
<1>7. /\ {x.lifecycle : x \in CommandsOf(b)} = 2..n
      /\ \A x, y \in CommandsOf(b) : x.lifecycle = y.lifecycle => x = y
      /\ \A x, y \in commands : x.id = y.id => x = y
  BY DEF CommandInv, GenerationsAccounted, n
<1>8. \A x \in CommandsOf(b) : x.lifecycle \in 2..n
  BY <1>7
<1>9. \A x \in CommandsOf(b) : x.lifecycle # n + 1
  BY <1>2, <1>8
<1>10. {x.lifecycle : x \in CommandsOf(b)'} = 2..(n + 1)
  <2>1. {x.lifecycle : x \in CommandsOf(b)'} = (2..n) \cup {n + 1}
    BY <1>2, <1>6, <1>7
  <2>2. (2..n) \cup {n + 1} = 2..(n + 1)
    BY <1>2
  <2> QED
    BY <2>1, <2>2
<1>11. bk.lifecycle = n + 1
  BY DEF n
<1>12. /\ \A x, y \in CommandsOf(b)' : x.lifecycle = y.lifecycle => x = y
       /\ \A x \in CommandsOf(b)' : x.lifecycle = books'[b].lifecycle => x.id = books'[b].command
  BY <1>2, <1>3, <1>6, <1>7, <1>9, <1>11
<1>13. \A x, y \in commands' : x.id = y.id => x = y
  BY <1>1, <1>2, <1>7
<1>14. GenerationsAccounted'
  <2>1. ASSUME NEW d \in Books, Exists(d)', d # b
        PROVE  /\ {x.lifecycle : x \in CommandsOf(d)'} = 2..books'[d].lifecycle
               /\ \A x, y \in CommandsOf(d)' : x.lifecycle = y.lifecycle => x = y
               /\ \A x \in CommandsOf(d)' :
                      x.lifecycle = books'[d].lifecycle => x.id = books'[d].command
    BY <1>3, <1>6, <2>1 DEF CommandInv, GenerationsAccounted, Exists
  <2>2. {x.lifecycle : x \in CommandsOf(b)'} = 2..books'[b].lifecycle
    BY <1>3, <1>10, <1>11
  <2> QED
    BY <1>12, <1>13, <2>1, <2>2 DEF GenerationsAccounted
<1>15. CommandsOfBooks'
  <2>1. \A d \in Books : Exists(d) => Exists(d)'
    BY <1>3 DEF Exists
  <2>2. \A x \in commands' : Exists(x.book)'
    BY <1>1, <1>2, <2>1 DEF CommandInv, CommandsOfBooks, TypeOK, CommandRow
  <2>3. \A d \in Books : Exists(d)' => books'[d].lifecycle >= 1
    BY <1>2, <1>3, <1>11 DEF CommandInv, CommandsOfBooks, Exists
  <2> QED
    BY <2>2, <2>3 DEF CommandsOfBooks
<1>16. \A d \in Books : Stands(books[d], books'[d])
  BY <1>3, <1>5 DEF Stands, n
<1> QED
  BY <1>4, <1>14, <1>15, <1>16 DEF CommandInv

LEMMA CommandAccount ==
    ASSUME TypeOK, ShownInv, CommandInv, NEW b \in Books, NEW c \in Commands,
           ReindexBook(b, c) \/ DeleteBook(b, c)
    PROVE  /\ ShownInv' /\ CommandInv'
           /\ \A d \in Books : Stands(books[d], books'[d])
<1>1. books[b] \in Book
  BY DEF TypeOK
<1>2. CASE ReindexBook(b, c)
  <2> DEFINE bk == Reindexed(books[b], c)
  <2>1. /\ bk \in Book /\ bk.status = "reindexing" /\ bk.stage = "chunks_ready"
        /\ bk.lifecycle = books[b].lifecycle + 1 /\ bk.command = c
    <3>1. bk \in Book
      BY <1>1, CommandResultType
    <3> QED
      BY <1>1, <3>1 DEF Reindexed, Book
  <2>2. Exists(b) /\ Accept(b, c, "reindex", bk, "reindex_requested")
    BY <1>2 DEF ReindexBook, CanReindex, Exists
  <2>3. StageFits(bk)
    BY <2>1 DEF StageFits
  <2> HIDE DEF bk
  <2> QED
    BY <2>1, <2>2, <2>3, AcceptAccount
<1>3. CASE DeleteBook(b, c)
  <2> DEFINE bk == MarkedDeleting(books[b], c)
  <2>1. /\ bk \in Book /\ bk.status = "deleting"
        /\ bk.lifecycle = books[b].lifecycle + 1 /\ bk.command = c
    <3>1. bk \in Book
      BY <1>1, CommandResultType
    <3> QED
      BY <1>1, <3>1 DEF MarkedDeleting, Book
  <2>2. Exists(b) /\ Accept(b, c, "delete", bk, "deletion_requested")
    BY <1>3 DEF DeleteBook, validTransition, Exists
  <2>3. StageFits(bk)
    BY <2>1 DEF StageFits
  <2> HIDE DEF bk
  <2> QED
    BY <2>1, <2>2, <2>3, AcceptAccount
<1> QED
  BY <1>2, <1>3

(* The confirmations *)
LEMMA SettleAccount ==
    ASSUME TypeOK, ShownInv, CommandInv, NEW b \in Books, NEW bk \in Book,
           books[b].status \in {"deleting", "deleted"},
           SameView(books[b], bk), bk.command = books[b].command, Settle(b, bk),
           UNCHANGED <<inbox, commands>>
    PROVE  /\ ShownInv' /\ CommandInv'
           /\ \A d \in Books : Stands(books[d], books'[d])
<1>1. PICK new \in Book :
          /\ books' = [books EXCEPT ![b] = new]
          /\ new.lifecycle = bk.lifecycle /\ new.command = bk.command
          /\ new.status \in {"deleting", "deleted"}
          /\ new.status # "deleted" => SameView(bk, new)
          /\ Said(b, new, outbox') /\ \A r \in outbox : r.book # b => r \in outbox'
  <2>1. CASE AllDeleted(bk)
    <3>1. /\ books' = [books EXCEPT ![b] = Tombstone(bk)]
          /\ outbox' = (outbox \ RowsOf(b)) \cup {Row(b, Tombstone(bk), 0, "status_changed")}
      BY <2>1 DEF Settle
    <3>2. Tombstone(bk) \in Book
      BY TombstoneType
    <3>3. /\ Tombstone(bk).status = "deleted" /\ Tombstone(bk).lifecycle = bk.lifecycle
          /\ Tombstone(bk).command = bk.command
      BY DEF Tombstone, Book
    <3>4. Said(b, Tombstone(bk), outbox')
      BY <3>1, RowSays
    <3>5. \A r \in outbox : r.book # b => r \in outbox'
      BY <3>1 DEF RowsOf
    <3> QED
      BY <3>1, <3>2, <3>3, <3>4, <3>5
  <2>2. CASE ~AllDeleted(bk)
    <3>1. books' = [books EXCEPT ![b] = bk] /\ outbox' = outbox
      BY <2>2 DEF Settle
    <3>2. Said(b, books[b], outbox)
      BY ShownByBook DEF ShownInv, Exists
    <3>3. Said(b, bk, outbox')
      BY <3>1, <3>2, SameViewSays
    <3> QED
      BY <3>1, <3>3 DEF SameView
  <2> QED
    BY <2>1, <2>2
<1>2. Reported(b, new, inbox') /\ StageFits(new)
  BY <1>1 DEF Reported, StageFits
<1>3. ShownInv'
  BY <1>1, <1>2, ShownStep
<1>4. /\ books'[b] = new
      /\ \A d \in Books : d # b => books'[d] = books[d]
  BY <1>1 DEF TypeOK
<1>5. CommandInv'
  <2>1. \A d \in Books : /\ Exists(d)' <=> Exists(d)
                         /\ books'[d].lifecycle = books[d].lifecycle
                         /\ books'[d].command = books[d].command
    BY <1>1, <1>4 DEF Exists, SameView
  <2> QED
    BY <2>1, CommandsKept
<1>6. \A d \in Books : Stands(books[d], books'[d])
  BY <1>1, <1>4 DEF Stands, SameView
<1> QED
  BY <1>3, <1>5, <1>6

LEMMA ConfirmationAccount ==
    ASSUME TypeOK, ShownInv, CommandInv,
           \/ \E m \in marks : MarkOriginalDeleted(m)
           \/ \E a \in Ack : ApplyLifecycleAck(a),
           ~UNCHANGED books
    PROVE  /\ ShownInv' /\ CommandInv'
           /\ \A d \in Books : Stands(books[d], books'[d])
<1>1. ASSUME NEW m \in marks, MarkOriginalDeleted(m)
      PROVE  /\ ShownInv' /\ CommandInv'
             /\ \A d \in Books : Stands(books[d], books'[d])
  <2> DEFINE bk == [books[m.book] EXCEPT !.originalDeleted = TRUE]
  <2>1. m.book \in Books /\ books[m.book] \in Book
    BY DEF TypeOK, Mark
  <2>2. /\ DeletionCurrent(m) /\ Settle(m.book, bk) /\ UNCHANGED <<inbox, commands>>
    BY <1>1 DEF MarkOriginalDeleted
  <2>3. bk \in Book /\ SameView(books[m.book], bk) /\ bk.command = books[m.book].command
    BY <2>1 DEF Book, SameView
  <2>4. books[m.book].status \in {"deleting", "deleted"}
    BY <2>2 DEF DeletionCurrent
  <2> HIDE DEF bk
  <2> QED
    BY <2>1, <2>2, <2>3, <2>4, SettleAccount
<1>2. ASSUME NEW a \in Ack, ApplyLifecycleAck(a)
      PROVE  /\ ShownInv' /\ CommandInv'
             /\ \A d \in Books : Stands(books[d], books'[d])
  <2> DEFINE bk == WithAck(books[a.book], a.kind)
  <2>1. a.book \in Books /\ books[a.book] \in Book
    BY DEF TypeOK, Ack
  <2>2. /\ DeletionCurrent(a) /\ Settle(a.book, bk) /\ UNCHANGED <<inbox, commands>>
    BY <1>2 DEF ApplyLifecycleAck
  <2>3. bk \in Book /\ SameView(books[a.book], bk) /\ bk.command = books[a.book].command
    BY <2>1 DEF Book, SameView, WithAck
  <2>4. books[a.book].status \in {"deleting", "deleted"}
    BY <2>2 DEF DeletionCurrent
  <2> HIDE DEF bk
  <2> QED
    BY <2>1, <2>2, <2>3, <2>4, SettleAccount
<1> QED
  BY <1>1, <1>2

LEMMA AccountSame ==
    ASSUME TypeOK, ShownInv, CommandInv, UNCHANGED <<books, inbox, commands, outbox>>
    PROVE  /\ ShownInv' /\ CommandInv'
           /\ \A d \in Books : Stands(books[d], books'[d])
  BY DEF ShownInv, CommandInv, CurrentStatusQueued, OutcomeOfThisGeneration, StagesFit,
         GenerationsAccounted, CommandsOfBooks, CommandsOf, Exists, Stands

LEMMA AccountStep ==
    ASSUME TypeOK, SequenceBound, ShownInv, CommandInv, [Next]_vars
    PROVE  /\ ShownInv' /\ CommandInv'
           /\ \A d \in Books : Stands(books[d], books'[d])
<1>1. ASSUME \/ \E m \in marks : MarkOriginalDeleted(m)
             \/ \E a \in Ack : ApplyLifecycleAck(a),
             UNCHANGED books
      PROVE  /\ ShownInv' /\ CommandInv'
             /\ \A d \in Books : Stands(books[d], books'[d])
  <2>1. UNCHANGED <<inbox, commands>>
    BY <1>1 DEF MarkOriginalDeleted, ApplyLifecycleAck
  <2>2. UNCHANGED outbox
    <3> SUFFICES ASSUME NEW b \in Books, NEW bk \in Book, books[b] \in Book,
                        Settle(b, bk), bk # books[b], bk.version = books[b].version
                 PROVE  FALSE
      <4>1. ASSUME NEW m \in marks, MarkOriginalDeleted(m), ~UNCHANGED outbox
            PROVE  FALSE
        <5> DEFINE bk == [books[m.book] EXCEPT !.originalDeleted = TRUE]
        <5>1. m.book \in Books /\ books[m.book] \in Book
          BY DEF TypeOK, Mark
        <5>2. Settle(m.book, bk) /\ ~books[m.book].originalDeleted
          BY <4>1 DEF MarkOriginalDeleted
        <5>3. bk \in Book /\ bk.originalDeleted /\ bk.version = books[m.book].version
          BY <5>1 DEF Book
        <5>4. bk # books[m.book]
          BY <5>2, <5>3
        <5> HIDE DEF bk
        <5> QED
          BY <5>1, <5>2, <5>3, <5>4
      <4>2. ASSUME NEW a \in Ack, ApplyLifecycleAck(a), ~UNCHANGED outbox
            PROVE  FALSE
        <5> DEFINE bk == WithAck(books[a.book], a.kind)
        <5>1. a.book \in Books /\ books[a.book] \in Book
          BY DEF TypeOK, Ack
        <5>2. Settle(a.book, bk) /\ ~AckFlagged(books[a.book], a.kind)
          BY <4>2 DEF ApplyLifecycleAck
        <5>3. /\ bk \in Book /\ bk.version = books[a.book].version
              /\ AckFlagged(bk, a.kind)
          BY <5>1 DEF Book, WithAck, AckFlagged
        <5>4. bk # books[a.book]
          BY <5>2, <5>3
        <5> HIDE DEF bk
        <5> QED
          BY <5>1, <5>2, <5>3, <5>4
      <4> QED
        BY <1>1, <4>1, <4>2
    <3>1. Tombstone(bk).version = bk.version + 1 /\ bk.version \in Nat
      BY DEF Tombstone, Book
    <3>2. books'[b] = bk \/ books'[b] = Tombstone(bk)
      BY DEF Settle, TypeOK
    <3>3. Tombstone(bk) # books[b]
      BY <3>1
    <3> QED
      BY <1>1, <3>2, <3>3
  <2> QED
    BY <1>1, <2>1, <2>2, AccountSame
<1>2. ASSUME \/ \E b \in Books, by \in Deleters : DeleteOriginal(b, by)
             \/ \E m \in marks : LoseMark(m)
             \/ UNCHANGED vars
      PROVE  UNCHANGED <<books, inbox, commands, outbox>>
  BY <1>2 DEF DeleteOriginal, LoseMark, vars
<1> QED
  BY <1>1, <1>2, AccountSame, UploadBookAccount, ApplyProcessingEventAccount, CommandAccount,
     ConfirmationAccount DEF Next

LEMMA InitAccount == Init => ShownInv /\ CommandInv
<1> SUFFICES ASSUME Init PROVE ShownInv /\ CommandInv
  OBVIOUS
<1>1. NoBook.status = "absent" /\ NoBook.stage = ""
  BY DEF NoBook
<1>2. commands = {} /\ \A b \in Books : books[b] = NoBook
  BY DEF Init
<1>3. CurrentStatusQueued /\ OutcomeOfThisGeneration /\ StagesFit
  BY <1>1, <1>2 DEF CurrentStatusQueued, OutcomeOfThisGeneration, StagesFit, StageFits, Exists
<1>4. GenerationsAccounted /\ CommandsOfBooks
  BY <1>1, <1>2 DEF GenerationsAccounted, CommandsOfBooks, Exists
<1> QED
  BY <1>3, <1>4 DEF ShownInv, CommandInv

(***************************************************************************)
(* Every row of catalog.books is accounted for: its visible state by a     *)
(* queued notification, each generation by the one command that opened it, *)
(* an outcome by a fact of its own generation, and the original is there   *)
(* as long as the book may be read.                                        *)
(***************************************************************************)
THEOREM RowsAccounted == Spec => []BookAccounted
<1>1. TypeOK /\ SequenceBound /\ ShownInv /\ CommandInv /\ [Next]_vars
          => ShownInv' /\ CommandInv'
  BY AccountStep
<1>2. ShownInv /\ CommandInv /\ OriginalKept => BookAccounted
  BY DEF ShownInv, CommandInv, BookAccounted
<1> QED
  BY <1>1, <1>2, InitAccount, TypeCorrect, DeletionSafe, PTL DEF Spec

(***************************************************************************)
(* The first outcome of a generation stands, whatever facts arrive late,   *)
(* twice or in contradiction to it.                                        *)
(***************************************************************************)
THEOREM OutcomesStand == Spec => FirstOutcomeStands
<1>1. TypeOK /\ SequenceBound /\ ShownInv /\ CommandInv /\ [Next]_vars
          => ShownInv' /\ CommandInv'
  BY AccountStep
<1>2. TypeOK /\ SequenceBound /\ ShownInv /\ CommandInv /\ [Next]_vars =>
        [\A b \in Books :
            /\ books[b].stage \in {"indexed", "failed"}
            /\ books'[b].lifecycle = books[b].lifecycle
            /\ books'[b].status # "deleted"
            => /\ books'[b].stage = books[b].stage
               /\ books'[b].failure = books[b].failure
               /\ books'[b].status = books[b].status]_vars
  BY AccountStep DEF Stands
<1> QED
  BY <1>1, <1>2, InitAccount, TypeCorrect, PTL DEF Spec, FirstOutcomeStands

-----------------------------------------------------------------------------
(* The status contract with Edge *)

(* A fact of this kind ended or carried the generation n of book b. *)
Heard(b, n, kind, facts) ==
    \E e \in facts : e.book = b /\ e.lifecycle = n /\ e.kind = kind

(* OneIngestionOutcome of the facts given. *)
OneOutcome(b, facts) ==
    \A e, f \in facts :
        e.book = b /\ f.book = b /\ e.kind = "failed" /\ f.kind = "chunks_ready"
        => e.lifecycle # f.lifecycle

(* The status of a live book fixes its stage up to where processing stands. *)
StageOfStatus(bk) ==
    /\ bk.status = "pending" => bk.stage = "queued"
    /\ bk.status = "processing" => bk.stage \in {"extracting", "chunks_ready"}
    /\ bk.status = "reindexing" => bk.stage = "chunks_ready"
    /\ bk.status = "indexed" => bk.stage = "indexed"
    /\ bk.status = "failed" => bk.stage = "failed"

(***************************************************************************)
(* Why the reindex command, which leaves the detail, finds none: a book    *)
(* before its chunks has no manifest, so a failure of Ingestion with a     *)
(* detail and a manifest both took an Ingestion fact of one generation.    *)
(***************************************************************************)
DetailExplained(b, bk, facts) ==
    bk.status = "failed" /\ bk.detail # "" =>
        /\ Heard(b, bk.lifecycle, "failed", facts)
        /\ bk.manifest # NoManifest => Heard(b, bk.lifecycle, "chunks_ready", facts)

FeedBook(b, bk, facts) ==
    /\ StageOfStatus(bk)
    /\ bk.stage \in {"queued", "extracting"} /\ bk.status \in Live => bk.manifest = NoManifest
    /\ DetailExplained(b, bk, facts)
    /\ bk.status # "absent" /\ OneOutcome(b, facts) => validState(bk)

FeedInv == EdgeAcceptsStatus /\ \A b \in Books : FeedBook(b, books[b], inbox)

(* An outbox row that says what bk shows. *)
Shows(r, bk) ==
    /\ r.status = bk.status /\ r.stage = bk.stage
    /\ r.failure = bk.failure /\ r.detail = bk.detail

LEMMA ShowsValid ==
    ASSUME NEW r, NEW bk, Shows(r, bk), validState(bk)
    PROVE  validState(r)
  BY DEF Shows, validState

LEMMA RowShows ==
    ASSUME NEW b, NEW bk, NEW n, NEW type
    PROVE  /\ Shows(Row(b, bk, n, type), bk)
           /\ Row(b, bk, n, type).book = b /\ Row(b, bk, n, type).type = type
  BY DEF Row, Shows

(* More facts explain no less and promise no more. *)
LEMMA FactsGrow ==
    ASSUME NEW b, NEW bk, NEW facts, NEW more, facts \subseteq more, FeedBook(b, bk, facts)
    PROVE  FeedBook(b, bk, more)
<1>1. OneOutcome(b, more) => OneOutcome(b, facts)
  BY DEF OneOutcome
<1>2. \A n, kind : Heard(b, n, kind, facts) => Heard(b, n, kind, more)
  BY DEF Heard
<1> QED
  BY <1>1, <1>2 DEF FeedBook, DetailExplained

(* A step that replaces the row of one book and queues what that row shows. *)
LEMMA FeedStep ==
    ASSUME TypeOK, FeedInv, NEW b \in Books, NEW bk \in Book, bk.status # "absent",
           books' = [books EXCEPT ![b] = bk], inbox \subseteq inbox',
           FeedBook(b, bk, inbox'),
           \A r \in outbox' : \/ r \in outbox
                              \/ r.type # "status_changed"
                              \/ r.book = b /\ Shows(r, bk)
    PROVE  FeedInv'
<1>1. ASSUME NEW d \in Books PROVE FeedBook(d, books'[d], inbox')
  <2>1. CASE d = b
    BY <2>1 DEF TypeOK
  <2>2. CASE d # b
    <3>1. books'[d] = books[d]
      BY <2>2 DEF TypeOK
    <3>2. FeedBook(d, books[d], inbox)
      BY DEF FeedInv
    <3> QED
      BY <3>1, <3>2, FactsGrow
  <2> QED
    BY <2>1, <2>2
<1>2. ASSUME NEW r \in outbox', r.type = "status_changed", OneIngestionOutcome(r.book)'
      PROVE  validState(r)
  <2>1. OneOutcome(r.book, inbox') /\ OneIngestionOutcome(r.book)
    BY <1>2 DEF OneOutcome, OneIngestionOutcome
  <2>2. CASE r \in outbox
    BY <1>2, <2>1, <2>2 DEF FeedInv, EdgeAcceptsStatus
  <2>3. CASE r.book = b /\ Shows(r, bk)
    <3>1. validState(bk)
      BY <2>1, <2>3 DEF FeedBook
    <3> QED
      BY <2>3, <3>1, ShowsValid
  <2> QED
    BY <1>2, <2>2, <2>3
<1>3. EdgeAcceptsStatus'
  BY <1>2, ZenonT(30) DEF EdgeAcceptsStatus, validState, validFailure, validStages
<1> QED
  BY <1>1, <1>3 DEF FeedInv

LEMMA FeedSame ==
    ASSUME FeedInv, UNCHANGED <<books, inbox, outbox>>
    PROVE  FeedInv'
<1>1. EdgeAcceptsStatus'
  BY DEF FeedInv, EdgeAcceptsStatus, OneIngestionOutcome, validState, validFailure, validStages
<1>2. \A b \in Books : FeedBook(b, books'[b], inbox')
  BY DEF FeedInv
<1> QED
  BY <1>1, <1>2 DEF FeedInv

LEMMA UploadBookFeed ==
    ASSUME TypeOK, FeedInv, NEW b \in Books, UploadBook(b)
    PROVE  FeedInv'
<1>1. /\ NewBook.status = "pending" /\ NewBook.stage = "queued"
      /\ NewBook.failure = "" /\ NewBook.detail = "" /\ NewBook.manifest = NoManifest
  BY DEF NewBook, NoBook
<1>2. NewBook \in Book
  BY CatalogAssumption DEF NewBook, NoBook, Book, Statuses, Stages, CatalogAssumption
<1>3. /\ books' = [books EXCEPT ![b] = NewBook] /\ UNCHANGED inbox
      /\ outbox' = outbox \cup {Row(b, NewBook, 0, "uploaded"),
                                Row(b, NewBook, NewBook.version, "status_changed")}
  BY DEF UploadBook
<1>4. FeedBook(b, NewBook, inbox')
  BY <1>1 DEF FeedBook, StageOfStatus, DetailExplained, validState, validStages
<1>5. ASSUME NEW r \in outbox', r \notin outbox, r.type = "status_changed"
      PROVE  r.book = b /\ Shows(r, NewBook)
  BY <1>3, <1>5, RowShows
<1>6. NewBook.status # "absent" /\ inbox \subseteq inbox'
  BY <1>1, <1>3
<1> QED
  BY <1>2, <1>3, <1>4, <1>5, <1>6, FeedStep

(* The category and the detail of a fact are those of its kind. *)
LEMMA EventOutcome ==
    ASSUME NEW e \in Event
    PROVE  /\ e.kind \in Kinds
           /\ e.kind \in {"failed", "indexing_failed"} => e.failure \in validFailure
           /\ e.kind \notin {"failed", "indexing_failed"} => e.failure = ""
           /\ e.kind # "failed" => e.detail = ""
<1>1. PICK kind \in Kinds : e \in Fact(kind)
  BY DEF Event
<1>2. e.kind = kind
  BY <1>1 DEF Fact
<1>3. kind = "failed" => e.failure \in validFailure
  BY <1>1 DEF Fact, validFailure
<1>4. kind = "indexing_failed" => e.failure \in validFailure
  BY <1>1 DEF Fact, validFailure
<1>5. kind \notin {"failed", "indexing_failed"} => e.failure = ""
  BY <1>1 DEF Fact
<1>6. kind # "failed" => e.detail = ""
  BY <1>1 DEF Fact
<1> QED
  BY <1>1, <1>2, <1>3, <1>4, <1>5, <1>6

(* What a fact makes of a book that it moves. *)
LEMMA FactResultFields ==
    ASSUME NEW bk \in Book, NEW e
    PROVE  LET new == FactResult(bk, e)
           IN  /\ new.status = StatusAfter(e.kind) /\ new.stage = StageAfter(e.kind)
               /\ new.failure = IF e.kind = "started" THEN bk.failure ELSE e.failure
               /\ new.detail = IF e.kind = "started" THEN bk.detail ELSE e.detail
               /\ new.lifecycle = bk.lifecycle /\ new.manifest = bk.manifest
  BY DEF FactResult, Book

(* A book moved by a fact is shown as Edge expects it; only its manifest may differ. *)
LEMMA FactMovesFeed ==
    ASSUME NEW b, NEW bk \in Book, NEW e \in Event, NEW facts, FeedBook(b, bk, facts),
           FactApplies(bk, e), e.book = b, e.lifecycle = bk.lifecycle, bk.status # "absent",
           NEW new \in Book,
           SameView(FactResult(bk, e), new),
           new.manifest = IF e.kind = "chunks_ready" THEN e.manifest ELSE bk.manifest
    PROVE  FeedBook(b, new, facts \cup {e})
<1> DEFINE more == facts \cup {e}
<1>1. /\ new.status = StatusAfter(e.kind) /\ new.stage = StageAfter(e.kind)
      /\ new.failure = IF e.kind = "started" THEN bk.failure ELSE e.failure
      /\ new.detail = IF e.kind = "started" THEN bk.detail ELSE e.detail
      /\ new.lifecycle = bk.lifecycle
  BY FactResultFields DEF SameView
<1>2. e.kind \in Kinds
  BY EventOutcome
<1>3. StageOfStatus(new)
  BY <1>1, <1>2 DEF StageOfStatus, StatusAfter, StageAfter, Kinds
<1>4. new.stage \in {"queued", "extracting"} /\ new.status \in Live => new.manifest = NoManifest
  <2>1. new.stage \in {"queued", "extracting"} => e.kind = "started"
    BY <1>1, <1>2 DEF StageAfter, Kinds
  <2>2. e.kind = "started" => bk.status = "pending" /\ bk.stage = "queued"
    BY DEF FactApplies
  <2> QED
    BY <2>1, <2>2 DEF FeedBook, Live
<1>5. DetailExplained(b, new, more)
  <2> SUFFICES ASSUME new.status = "failed", new.detail # ""
               PROVE  /\ Heard(b, new.lifecycle, "failed", more)
                      /\ new.manifest = NoManifest
    BY DEF DetailExplained
  <2>1. e.kind = "failed"
    BY <1>1, <1>2, EventOutcome DEF StatusAfter, Kinds
  <2>2. Heard(b, new.lifecycle, "failed", more)
    BY <1>1, <2>1 DEF Heard
  <2>3. /\ bk.stage # "chunks_ready"
        /\ bk.status = "pending" \/ validTransition(bk.status, "failed")
    BY <2>1 DEF FactApplies
  <2>4. bk.status \in {"pending", "processing", "reindexing"}
    BY <2>3 DEF validTransition
  <2>5. bk.stage \in {"queued", "extracting"} /\ bk.status \in Live
    BY <2>3, <2>4 DEF FeedBook, StageOfStatus, Live
  <2> QED
    BY <2>1, <2>2, <2>5 DEF FeedBook
<1>6. ASSUME OneOutcome(b, more) PROVE validState(new)
  <2>1. OneOutcome(b, facts)
    BY <1>6 DEF OneOutcome
  <2>2. validState(bk)
    BY <2>1 DEF FeedBook
  <2>3. CASE e.kind = "started"
    <3>1. bk.status = "pending" /\ bk.stage = "queued"
      BY <2>3 DEF FactApplies
    <3>2. bk.failure = "" /\ bk.detail = ""
      BY <2>2, <3>1 DEF validState
    <3>3. new.status = "processing" /\ new.stage = "extracting"
      BY <1>1, <2>3 DEF StatusAfter, StageAfter
    <3> QED
      BY <1>1, <2>3, <3>2, <3>3 DEF validState, validStages
  <2>4. CASE e.kind \in {"chunks_ready", "indexed"}
    <3>1. e.failure = "" /\ e.detail = ""
      BY <2>4, EventOutcome
    <3>2. /\ e.kind = "chunks_ready" => new.status = "processing" /\ new.stage = "chunks_ready"
          /\ e.kind = "indexed" => new.status = "indexed" /\ new.stage = "indexed"
      BY <1>1, <2>4 DEF StatusAfter, StageAfter
    <3> QED
      BY <1>1, <2>4, <3>1, <3>2 DEF validState, validStages
  <2>5. CASE e.kind \in {"failed", "indexing_failed"}
    <3>1. new.status = "failed" /\ new.stage = "failed"
      BY <1>1, <2>5 DEF StatusAfter, StageAfter
    <3>2. new.failure \in validFailure
      BY <1>1, <2>5, EventOutcome
    <3> QED
      BY <3>1, <3>2 DEF validState
  <2> QED
    BY <1>2, <2>3, <2>4, <2>5 DEF Kinds
<1> QED
  BY <1>3, <1>4, <1>5, <1>6 DEF FeedBook

(* A fact already reflected records at most its manifest. *)
LEMMA FactIgnoredFeed ==
    ASSUME NEW b, NEW bk \in Book, NEW e \in Event, NEW facts, FeedBook(b, bk, facts),
           FactIgnored(bk, e), e.book = b, e.lifecycle = bk.lifecycle,
           NEW new \in Book, SameView(bk, new),
           new.manifest = IF e.kind = "chunks_ready" THEN e.manifest ELSE bk.manifest
    PROVE  FeedBook(b, new, facts \cup {e})
<1> DEFINE more == facts \cup {e}
<1>1. FeedBook(b, bk, more)
  BY FactsGrow
<1>2. CASE e.kind # "chunks_ready"
  BY <1>1, <1>2 DEF FeedBook, SameView, StageOfStatus, DetailExplained, validState
<1>3. CASE e.kind = "chunks_ready"
  <2>1. bk.stage \notin {"queued", "extracting"}
    BY <1>3 DEF FactIgnored, FailedInIndexing
  <2>2. Heard(b, bk.lifecycle, "chunks_ready", more)
    BY <1>3 DEF Heard
  <2> QED
    BY <1>1, <2>1, <2>2 DEF FeedBook, SameView, StageOfStatus, DetailExplained, validState
<1> QED
  BY <1>2, <1>3

LEMMA ApplyProcessingEventFeed ==
    ASSUME TypeOK, FeedInv, NEW e \in Event, ApplyProcessingEvent(e)
    PROVE  FeedInv'
<1> DEFINE b == e.book
           bk == books[b]
           moved == IF FactApplies(bk, e) THEN FactResult(bk, e) ELSE bk
           next == IF e.kind = "chunks_ready"
                   THEN [moved EXCEPT !.manifest = e.manifest] ELSE moved
<1>1. /\ b \in Books /\ bk \in Book /\ bk.status # "absent" /\ e.lifecycle = bk.lifecycle
      /\ e.kind = "chunks_ready" => e.manifest \in Manifests
  BY EventFields DEF ApplyProcessingEvent, Fenced, TypeOK, Exists
<1>2. /\ books' = [books EXCEPT ![b] = next] /\ inbox' = inbox \cup {e}
      /\ FactIgnored(bk, e) \/ FactApplies(bk, e)
      /\ IF FactApplies(bk, e) THEN AppendStatus(b, next) ELSE UNCHANGED outbox
  BY DEF ApplyProcessingEvent
<1>3. moved \in Book /\ moved.manifest = bk.manifest
  BY <1>1, FactResultType, FactResultFields
<1>4. /\ next \in Book /\ SameView(moved, next)
      /\ next.manifest = IF e.kind = "chunks_ready" THEN e.manifest ELSE bk.manifest
  <2> HIDE DEF moved
  <2> QED
    BY <1>1, <1>3 DEF Book, SameView
<1>5. FeedBook(b, bk, inbox)
  BY <1>1 DEF FeedInv
<1>6. /\ FactApplies(bk, e) => moved = FactResult(bk, e)
      /\ ~FactApplies(bk, e) => moved = bk
  OBVIOUS
<1>7. moved.status # "absent"
  BY <1>1, FactResultFields DEF StatusAfter
<1> HIDE DEF next, moved, bk
<1>8. FeedBook(b, next, inbox')
  <2>1. CASE FactApplies(bk, e)
    BY <1>1, <1>2, <1>4, <1>5, <1>6, <2>1, FactMovesFeed
  <2>2. CASE ~FactApplies(bk, e)
    BY <1>1, <1>2, <1>4, <1>5, <1>6, <2>2, FactIgnoredFeed
  <2> QED
    BY <2>1, <2>2
<1>9. ASSUME NEW r \in outbox', r \notin outbox, r.type = "status_changed"
      PROVE  r.book = b /\ Shows(r, next)
  BY <1>2, <1>9, RowShows DEF AppendStatus
<1>10. next.status # "absent" /\ inbox \subseteq inbox'
  BY <1>2, <1>4, <1>7 DEF SameView
<1> QED
  BY <1>1, <1>2, <1>4, <1>8, <1>9, <1>10, FeedStep

(***************************************************************************)
(* A book whose reindexing is accepted shows no detail: it was indexed, or *)
(* it failed with a manifest, and then a detail would take both outcomes   *)
(* of Ingestion.                                                           *)
(***************************************************************************)
LEMMA ReindexFeed ==
    ASSUME NEW b, NEW bk \in Book, NEW c, NEW facts, FeedBook(b, bk, facts), CanReindex(bk),
           NEW new \in Book, new = Reindexed(bk, c)
    PROVE  FeedBook(b, new, facts)
<1>1. /\ new.status = "reindexing" /\ new.stage = "chunks_ready" /\ new.failure = ""
      /\ new.detail = bk.detail
  BY DEF Reindexed, Book
<1>2. ASSUME OneOutcome(b, facts) PROVE bk.detail = ""
  <2>1. validState(bk) /\ bk.manifest # NoManifest /\ bk.status \in {"indexed", "failed"}
    BY <1>2 DEF FeedBook, CanReindex
  <2>2. CASE bk.status = "indexed"
    BY <2>1, <2>2 DEF validState
  <2>3. CASE bk.status = "failed" /\ bk.detail # ""
    <3>1. PICK e \in facts : e.book = b /\ e.lifecycle = bk.lifecycle /\ e.kind = "failed"
      BY <2>3 DEF FeedBook, DetailExplained, Heard
    <3>2. PICK f \in facts : f.book = b /\ f.lifecycle = bk.lifecycle /\ f.kind = "chunks_ready"
      BY <2>1, <2>3 DEF FeedBook, DetailExplained, Heard
    <3> QED
      BY <1>2, <3>1, <3>2 DEF OneOutcome
  <2> QED
    BY <2>1, <2>2, <2>3
<1>3. OneOutcome(b, facts) => validState(new)
  BY <1>1, <1>2 DEF validState, validStages
<1> QED
  BY <1>1, <1>3 DEF FeedBook, StageOfStatus, DetailExplained

(* Deletion keeps the stage, the failure and the detail of the book it ends. *)
LEMMA DeleteFeed ==
    ASSUME NEW b, NEW bk \in Book, NEW c, NEW facts, FeedBook(b, bk, facts),
           validTransition(bk.status, "deleting"),
           NEW new \in Book, new = MarkedDeleting(bk, c)
    PROVE  FeedBook(b, new, facts)
<1>1. /\ new.status = "deleting" /\ new.stage = bk.stage /\ new.failure = bk.failure
      /\ new.detail = bk.detail
  BY DEF MarkedDeleting, Book
<1>2. bk.status \in Live
  BY DEF validTransition, Live
<1>3. ASSUME OneOutcome(b, facts) PROVE validState(new)
  <2>1. validState(bk) /\ StageOfStatus(bk)
    BY <1>2, <1>3 DEF FeedBook, Live
  <2>2. CASE bk.status = "failed"
    BY <1>1, <2>1, <2>2 DEF validState, validStages
  <2>3. CASE bk.status # "failed"
    <3>1. bk.failure = "" /\ bk.detail = ""
      BY <1>2, <2>1, <2>3 DEF validState, Live
    <3>2. bk.stage \in {"queued", "extracting", "chunks_ready", "indexed"}
      BY <1>2, <2>1, <2>3 DEF StageOfStatus, Live
    <3> QED
      BY <1>1, <3>1, <3>2 DEF validState, validStages
  <2> QED
    BY <2>2, <2>3
<1> QED
  BY <1>1, <1>3 DEF FeedBook, StageOfStatus, DetailExplained, Live

LEMMA AcceptFeed ==
    ASSUME TypeOK, FeedInv, NEW b \in Books, NEW c, NEW kind, NEW bk \in Book,
           NEW request \in RequestTypes, Accept(b, c, kind, bk, request),
           bk.status # "absent", FeedBook(b, bk, inbox)
    PROVE  FeedInv'
<1>1. /\ books' = [books EXCEPT ![b] = bk] /\ UNCHANGED inbox
      /\ outbox' = outbox \cup {Row(b, bk, NextSequence(b), request),
                                Row(b, bk, NextSequence(b) + 1, "status_changed")}
  BY DEF Accept
<1>2. ASSUME NEW r \in outbox', r \notin outbox, r.type = "status_changed"
      PROVE  r.book = b /\ Shows(r, bk)
  BY <1>1, <1>2, RowShows
<1> QED
  BY <1>1, <1>2, FeedStep

LEMMA CommandFeed ==
    ASSUME TypeOK, FeedInv, NEW b \in Books, NEW c \in Commands,
           ReindexBook(b, c) \/ DeleteBook(b, c)
    PROVE  FeedInv'
<1>1. books[b] \in Book /\ FeedBook(b, books[b], inbox)
  BY DEF TypeOK, FeedInv
<1>2. CASE ReindexBook(b, c)
  <2> DEFINE bk == Reindexed(books[b], c)
  <2>1. bk \in Book /\ bk.status = "reindexing"
    <3>1. bk \in Book
      BY <1>1, CommandResultType
    <3> QED
      BY <1>1, <3>1 DEF Reindexed, Book
  <2>2. FeedBook(b, bk, inbox)
    BY <1>1, <1>2, <2>1, ReindexFeed DEF ReindexBook
  <2>3. Accept(b, c, "reindex", bk, "reindex_requested")
    BY <1>2 DEF ReindexBook
  <2> HIDE DEF bk
  <2> QED
    BY <2>1, <2>2, <2>3, AcceptFeed DEF RequestTypes
<1>3. CASE DeleteBook(b, c)
  <2> DEFINE bk == MarkedDeleting(books[b], c)
  <2>1. bk \in Book /\ bk.status = "deleting"
    <3>1. bk \in Book
      BY <1>1, CommandResultType
    <3> QED
      BY <1>1, <3>1 DEF MarkedDeleting, Book
  <2>2. FeedBook(b, bk, inbox)
    BY <1>1, <1>3, <2>1, DeleteFeed DEF DeleteBook
  <2>3. Accept(b, c, "delete", bk, "deletion_requested")
    BY <1>3 DEF DeleteBook
  <2> HIDE DEF bk
  <2> QED
    BY <2>1, <2>2, <2>3, AcceptFeed DEF RequestTypes
<1> QED
  BY <1>2, <1>3

LEMMA SettleFeed ==
    ASSUME TypeOK, FeedInv, NEW b \in Books, NEW bk \in Book,
           books[b].status \in {"deleting", "deleted"},
           SameView(books[b], bk), Settle(b, bk), UNCHANGED inbox
    PROVE  FeedInv'
<1>1. FeedBook(b, books[b], inbox)
  BY DEF FeedInv
<1>2. CASE AllDeleted(bk)
  <2> DEFINE dead == Tombstone(bk)
  <2>1. /\ books' = [books EXCEPT ![b] = dead]
        /\ outbox' = (outbox \ RowsOf(b)) \cup {Row(b, dead, 0, "status_changed")}
    BY <1>2 DEF Settle
  <2>2. dead \in Book
    BY TombstoneType
  <2>3. /\ dead.status = "deleted" /\ dead.stage = "" /\ dead.failure = "" /\ dead.detail = ""
    BY DEF Tombstone, Book
  <2> HIDE DEF dead
  <2>4. FeedBook(b, dead, inbox')
    BY <2>3 DEF FeedBook, StageOfStatus, DetailExplained, validState, validStages
  <2>5. ASSUME NEW r \in outbox', r \notin outbox
        PROVE  r.book = b /\ Shows(r, dead)
    BY <2>1, <2>5, RowShows
  <2> QED
    BY <2>1, <2>2, <2>3, <2>4, <2>5, FeedStep
<1>3. CASE ~AllDeleted(bk)
  <2>1. books' = [books EXCEPT ![b] = bk] /\ outbox' = outbox
    BY <1>3 DEF Settle
  <2>2. bk.status \in {"deleting", "deleted"}
    BY DEF SameView
  <2>3. FeedBook(b, bk, inbox')
    BY <1>1, <2>2 DEF FeedBook, SameView, StageOfStatus, DetailExplained, validState, Live
  <2> QED
    BY <2>1, <2>2, <2>3, FeedStep
<1> QED
  BY <1>2, <1>3

LEMMA ConfirmationFeed ==
    ASSUME TypeOK, FeedInv,
           \/ \E m \in marks : MarkOriginalDeleted(m)
           \/ \E a \in Ack : ApplyLifecycleAck(a)
    PROVE  FeedInv'
<1>1. ASSUME NEW m \in marks, MarkOriginalDeleted(m), ~UNCHANGED <<books, outbox>>
      PROVE  FeedInv'
  <2> DEFINE bk == [books[m.book] EXCEPT !.originalDeleted = TRUE]
  <2>1. m.book \in Books /\ books[m.book] \in Book
    BY DEF TypeOK, Mark
  <2>2. /\ DeletionCurrent(m) /\ Settle(m.book, bk) /\ UNCHANGED inbox
    BY <1>1 DEF MarkOriginalDeleted
  <2>3. bk \in Book /\ SameView(books[m.book], bk)
    BY <2>1 DEF Book, SameView
  <2>4. books[m.book].status \in {"deleting", "deleted"}
    BY <2>2 DEF DeletionCurrent
  <2> HIDE DEF bk
  <2> QED
    BY <2>1, <2>2, <2>3, <2>4, SettleFeed
<1>2. ASSUME NEW a \in Ack, ApplyLifecycleAck(a), ~UNCHANGED <<books, outbox>>
      PROVE  FeedInv'
  <2> DEFINE bk == WithAck(books[a.book], a.kind)
  <2>1. a.book \in Books /\ books[a.book] \in Book
    BY DEF TypeOK, Ack
  <2>2. /\ DeletionCurrent(a) /\ Settle(a.book, bk) /\ UNCHANGED inbox
    BY <1>2 DEF ApplyLifecycleAck
  <2>3. bk \in Book /\ SameView(books[a.book], bk)
    BY <2>1 DEF Book, SameView, WithAck
  <2>4. books[a.book].status \in {"deleting", "deleted"}
    BY <2>2 DEF DeletionCurrent
  <2> HIDE DEF bk
  <2> QED
    BY <2>1, <2>2, <2>3, <2>4, SettleFeed
<1>3. UNCHANGED inbox
  BY DEF MarkOriginalDeleted, ApplyLifecycleAck
<1> QED
  BY <1>1, <1>2, <1>3, FeedSame

(***************************************************************************)
(* Edge accepts every status row Catalog queues, for any number of books,  *)
(* commands, generations and facts in any order, as long as Ingestion      *)
(* never reports both outcomes of one generation: the reindex command      *)
(* resets the failure and not the detail, and no book it accepts has one.  *)
(***************************************************************************)
THEOREM StatusContract == Spec => []EdgeAcceptsStatus
<1>1. Init => FeedInv
  <2> SUFFICES ASSUME Init PROVE FeedInv
    OBVIOUS
  <2>1. /\ NoBook.status = "absent" /\ NoBook.manifest = NoManifest
    BY DEF NoBook
  <2>2. outbox = {} /\ \A b \in Books : books[b] = NoBook
    BY DEF Init
  <2> QED
    BY <2>1, <2>2 DEF FeedInv, EdgeAcceptsStatus, FeedBook, StageOfStatus, DetailExplained
<1>2. TypeOK /\ FeedInv /\ [Next]_vars => FeedInv'
  <2> SUFFICES ASSUME TypeOK, FeedInv, [Next]_vars PROVE FeedInv'
    OBVIOUS
  <2>1. ASSUME \/ \E b \in Books, by \in Deleters : DeleteOriginal(b, by)
               \/ \E m \in marks : LoseMark(m)
               \/ UNCHANGED vars
        PROVE  UNCHANGED <<books, inbox, outbox>>
    BY <2>1 DEF DeleteOriginal, LoseMark, vars
  <2> QED
    BY <2>1, FeedSame, UploadBookFeed, ApplyProcessingEventFeed, CommandFeed, ConfirmationFeed
       DEF Next
<1> QED
  BY <1>1, <1>2, TypeCorrect, PTL DEF Spec, FeedInv
=============================================================================
