---------------------------- MODULE CatalogOutbox ----------------------------
(***************************************************************************)
(* Catalog's outbox dispatcher.  Transactions append rows; every process   *)
(* of the service claims due rows under a lease, publishes each through a  *)
(* channel with one message in flight, and marks it published or gives it  *)
(* back for a later attempt.  The lease is only a hint: it may end while   *)
(* its holder still publishes, the mark may fail after the publish, and    *)
(* the process may stop at any point.                                      *)
(*                                                                         *)
(* OrderedDelivery says what consumers get out of it, and this module      *)
(* implements it.  The wake-up after a commit only shortens the wait for   *)
(* the ticker, so a process may claim at any time.                         *)
(***************************************************************************)
EXTENDS Naturals, Sequences, FiniteSetsExt

CONSTANTS Aggregates,       \* books
          Dispatchers,      \* processes that run the dispatcher
          ClaimLimit,       \* LIMIT of ClaimOutbox
          MaximumEvents     \* bound on the events a book commits

ASSUME OutboxAssumption ==
  ClaimLimit \in Nat \ {0} /\ MaximumEvents \in Nat \ {0}

VARIABLES committed,    \* events committed so far, per book: the next number
          queue,        \* catalog.outbox: number and state of each row
          taken,        \* events the broker took, as <<book, number>>
          batch,        \* rows a process claimed and has not come to yet
          flight        \* the publication a process waits for

outboxVars == << committed, queue, taken, batch, flight >>

(* A row carries its number among the events of the book.  The column      *)
(* sequence orders the rows of a book in the same way: CatalogBook shows   *)
(* it, and the purge of a deleted book leaves a single row.                *)
QueueRow == [book : Aggregates, number : 1..MaximumEvents, mandatory : BOOLEAN,
             published : BOOLEAN, leased : BOOLEAN, due : BOOLEAN]

NoFlight == [phase |-> "none"]

OutboxInit ==
  /\ committed = [b \in Aggregates |-> 0]
  /\ queue = {} /\ taken = {}
  /\ batch = [d \in Dispatchers |-> {}]
  /\ flight = [d \in Dispatchers |-> NoFlight]

-----------------------------------------------------------------------------
(* Rows *)

(* publicationRoute: a request must reach a queue; a status may have no    *)
(* subscriber.  Every other type is refused and never written.             *)
publicationRoute(type) == type # "status_changed"

NewRow(b, n, type) ==
  [book |-> b, number |-> n, mandatory |-> publicationRoute(type),
   published |-> FALSE, leased |-> FALSE, due |-> TRUE]

(* A fact commits a status; an upload and a command a request and a status. *)
AppendRows(b) ==
  /\ \E types \in {<< "status_changed" >>, << "request", "status_changed" >>} :
        /\ committed[b] + Len(types) =< MaximumEvents
        /\ committed' = [committed EXCEPT ![b] = @ + Len(types)]
        /\ queue' = queue \cup {NewRow(b, committed[b] + i, types[i]) : i \in DOMAIN types}
  /\ UNCHANGED << taken, batch, flight >>

(* finalizeDeletion: the rows of the book go, published or not. *)
PurgeRows(b) ==
  /\ committed[b] \in 1..(MaximumEvents - 1)
  /\ committed' = [committed EXCEPT ![b] = @ + 1]
  /\ queue' = {r \in queue : r.book # b} \cup {NewRow(b, committed[b] + 1, "status_changed")}
  /\ UNCHANGED << taken, batch, flight >>

(* Fault: a later event may overtake an earlier one. *)
CandidatesInAnyOrder == {r \in queue : ~ r.published /\ r.due /\ ~ r.leased}

Candidates ==
  {r \in queue : /\ ~ r.published /\ r.due /\ ~ r.leased
                 /\ \A p \in queue : p.book = r.book /\ ~ p.published => p.number >= r.number}

ClaimOutbox(d) ==
  /\ batch[d] = {} /\ flight[d] = NoFlight
  /\ Candidates # {}
  /\ \E rows \in kSubset(Min({ClaimLimit, Cardinality(Candidates)}), Candidates) :
        /\ queue' = (queue \ rows) \cup {[r EXCEPT !.leased = TRUE] : r \in rows}
        /\ batch' = [batch EXCEPT ![d] = {<< r.book, r.number >> : r \in rows}]
  /\ UNCHANGED << committed, taken, flight >>

(* UPDATE ... WHERE event_id: no lease, no state of the row is compared,   *)
(* and a purged row is not found.                                          *)
Row(m) == {r \in queue : << r.book, r.number >> = m}

MarkPublished(m) ==
  queue' = (queue \ Row(m)) \cup {[r EXCEPT !.published = TRUE, !.leased = FALSE] : r \in Row(m)}

RetryOutbox(m) ==
  queue' = (queue \ Row(m)) \cup {[r EXCEPT !.due = FALSE, !.leased = FALSE] : r \in Row(m)}

-----------------------------------------------------------------------------
(* Publication.  The flight of a process holds what the broker sent back   *)
(* on its channel: a return, and a confirmation after it.                  *)

Mandatory(m) == \E r \in queue : << r.book, r.number >> = m /\ r.mandatory

(* RabbitPublisher.PublishWithContext *)
Publish(d, m) ==
  /\ flight[d] = NoFlight /\ m \in batch[d]
  /\ batch' = [batch EXCEPT ![d] = @ \ {m}]
  /\ \E mandatory \in BOOLEAN :
        /\ (\E r \in queue : << r.book, r.number >> = m) => mandatory = Mandatory(m)
        /\ flight' = [flight EXCEPT ![d] =
              [phase |-> "sent", message |-> m, mandatory |-> mandatory,
               returned |-> FALSE, confirmed |-> "no"]]
  /\ UNCHANGED << committed, queue, taken >>

(* The broker: routes and acknowledges, or returns a mandatory message and *)
(* acknowledges it too, or refuses.                                        *)
BrokerTakes(d) ==
  /\ flight[d].phase = "sent" /\ flight[d].confirmed = "no" /\ ~ flight[d].returned
  /\ taken' = taken \cup {flight[d].message}
  /\ flight' = [flight EXCEPT ![d].confirmed = "ack"]
  /\ UNCHANGED << committed, queue, batch >>

BrokerReturns(d) ==
  /\ flight[d].phase = "sent" /\ flight[d].confirmed = "no" /\ ~ flight[d].returned
  /\ flight[d].mandatory
  /\ flight' = [flight EXCEPT ![d].returned = TRUE]
  /\ UNCHANGED << committed, queue, taken, batch >>

BrokerConfirms(d) ==
  /\ flight[d].phase = "sent" /\ flight[d].confirmed = "no"
  /\ \/ flight[d].returned /\ flight' = [flight EXCEPT ![d].confirmed = "ack"]
     \/ flight' = [flight EXCEPT ![d].confirmed = "nack"]
  /\ UNCHANGED << committed, queue, taken, batch >>

(* awaitRoutedConfirmation: the select takes either notification when both *)
(* are there, and the returns are drained again after an acknowledgement.  *)
awaitRoutedConfirmation(f) == f.confirmed = "ack" /\ ~ f.returned

Confirmed(d) ==
  /\ flight[d].phase = "sent" /\ awaitRoutedConfirmation(flight[d])
  /\ flight' = [flight EXCEPT ![d].phase = "mark"]
  /\ UNCHANGED << committed, queue, taken, batch >>

(* The connection is discarded with what the broker has not sent back yet: *)
(* the message itself may still be taken.                                  *)
Disconnect(d) ==
  \/ UNCHANGED taken
  \/ /\ flight[d].phase = "sent" /\ flight[d].confirmed = "no" /\ ~ flight[d].returned
     /\ taken' = taken \cup {flight[d].message}

(* A return, a refusal, a broken connection or the end of the time allowed *)
(* for the publication.                                                    *)
Unconfirmed(d) ==
  /\ flight[d].phase = "sent"
  /\ Disconnect(d)
  /\ flight' = [flight EXCEPT ![d].phase = "retry"]
  /\ UNCHANGED << committed, queue, batch >>

(* The statement after the publication succeeds, or fails and is counted. *)
MarkSent(d) ==
  /\ flight[d].phase = "mark"
  /\ MarkPublished(flight[d].message)
  /\ flight' = [flight EXCEPT ![d] = NoFlight]
  /\ UNCHANGED << committed, taken, batch >>

RetrySent(d) ==
  /\ flight[d].phase = "retry"
  /\ RetryOutbox(flight[d].message)
  /\ flight' = [flight EXCEPT ![d] = NoFlight]
  /\ UNCHANGED << committed, taken, batch >>

StatementFails(d) ==
  /\ flight[d].phase \in {"mark", "retry"}
  /\ flight' = [flight EXCEPT ![d] = NoFlight]
  /\ UNCHANGED << committed, queue, taken, batch >>

(* The drain budget ends or the process stops: the leases stay. *)
Abandon(d) ==
  /\ batch[d] # {} \/ flight[d] # NoFlight
  /\ Disconnect(d)
  /\ batch' = [batch EXCEPT ![d] = {}]
  /\ flight' = [flight EXCEPT ![d] = NoFlight]
  /\ UNCHANGED << committed, queue >>

(* Time passes. *)
LeaseEnds(r) ==
  /\ r.leased
  /\ queue' = (queue \ {r}) \cup {[r EXCEPT !.leased = FALSE]}
  /\ UNCHANGED << committed, taken, batch, flight >>

DelayEnds(r) ==
  /\ ~ r.due
  /\ queue' = (queue \ {r}) \cup {[r EXCEPT !.due = TRUE]}
  /\ UNCHANGED << committed, taken, batch, flight >>

OutboxNext ==
  \/ \E b \in Aggregates : AppendRows(b) \/ PurgeRows(b)
  \/ \E d \in Dispatchers :
        \/ ClaimOutbox(d)
        \/ \E m \in batch[d] : Publish(d, m)
        \/ BrokerTakes(d) \/ BrokerReturns(d) \/ BrokerConfirms(d)
        \/ Confirmed(d) \/ Unconfirmed(d)
        \/ MarkSent(d) \/ RetrySent(d) \/ StatementFails(d) \/ Abandon(d)
  \/ \E r \in queue : LeaseEnds(r) \/ DelayEnds(r)

(***************************************************************************)
(* Fairness: time passes and a publication ends.  Failures may recur for   *)
(* ever, but not at every attempt on the events of a book: the ticker      *)
(* retries without a limit, so each step that is possible again and again  *)
(* is taken in the end.                                                    *)
(***************************************************************************)
Flies(d, b) == flight[d] # NoFlight /\ flight[d].message[1] = b

OutboxFairness ==
  /\ WF_outboxVars(\E r \in queue : LeaseEnds(r))
  /\ WF_outboxVars(\E r \in queue : DelayEnds(r))
  /\ WF_outboxVars(\E d \in Dispatchers : Unconfirmed(d) \/ RetrySent(d) \/ StatementFails(d))
  /\ SF_outboxVars(\E d \in Dispatchers : ClaimOutbox(d))
  /\ \A b \in Aggregates :
        /\ SF_outboxVars(\E d \in Dispatchers : \E m \in batch[d] : m[1] = b /\ Publish(d, m))
        /\ SF_outboxVars(\E d \in Dispatchers : Flies(d, b) /\ BrokerTakes(d))
        /\ SF_outboxVars(\E d \in Dispatchers : Flies(d, b) /\ Confirmed(d))
        /\ SF_outboxVars(\E d \in Dispatchers : Flies(d, b) /\ MarkSent(d))

OutboxSpec == OutboxInit /\ [][OutboxNext]_outboxVars /\ OutboxFairness

-----------------------------------------------------------------------------
(* Refinement *)

Unpublished(b) == {r \in queue : r.book = b /\ ~ r.published}

settledOf == [b \in Aggregates |-> committed[b] - Cardinality(Unpublished(b))]

reachedOf == [b \in Aggregates |->
                 Max({settledOf[b]} \cup {m[2] : m \in {t \in taken : t[1] = b}})]

Delivery == INSTANCE OrderedDelivery
              WITH appended <- committed, reached <- reachedOf, settled <- settledOf

(***************************************************************************)
(* The outbox implements OrderedDelivery: whatever leases end, marks fail, *)
(* messages are returned or processes stop, no event of a book is handed   *)
(* to the broker before its predecessors are settled, none is marked       *)
(* published that the broker did not take, and each is settled in the end. *)
(* "ClaimOutbox leases a bounded batch while preventing a later event for  *)
(* an aggregate from overtaking an earlier unpublished event"              *)
(* (postgres_book_repository.go:657).                                      *)
(***************************************************************************)
OrderedAtLeastOnce == Delivery!OrderSpec
=============================================================================
