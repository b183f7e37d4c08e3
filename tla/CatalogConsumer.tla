--------------------------- MODULE CatalogConsumer ---------------------------
(***************************************************************************)
(* Catalog's consumer of processing facts and deletion acknowledgements: a *)
(* delivery is applied, dead-lettered, or published again with a larger    *)
(* retry count and then acknowledged.  Republication and acknowledgement   *)
(* are two messages to the broker, so a connection that breaks between     *)
(* them leaves two copies, and the handler sees the event again.           *)
(***************************************************************************)
EXTENDS Integers, FiniteSets

CONSTANTS Facts,          \* events published to the queue
          RetryLimit,     \* republications of an event
          MaximumBreaks   \* bound on broken connections

ASSUME ConsumerAssumption == RetryLimit \in Nat \ {0} /\ MaximumBreaks \in Nat

VARIABLES sent,       \* events published so far
          copies,     \* messages in the queue
          delivery,   \* the delivery the handler works on: prefetch is one
          applied,    \* events HandleEnvelope has applied
          dead,       \* events in the dead-letter queue
          breaks      \* connections lost so far

consumerVars == << sent, copies, delivery, applied, dead, breaks >>

(* A message carries the count of the application when it was published    *)
(* again, and the count of the broker when it was delivered before.        *)
NoCount == -1
Copy == [fact : Facts, application : NoCount..RetryLimit, broker : 0..MaximumBreaks, serial : Nat]

NoDelivery == [phase |-> "none"]

ConsumerInit ==
  /\ sent = {} /\ copies = {}
  /\ delivery = NoDelivery
  /\ applied = {} /\ dead = {} /\ breaks = 0

(* A service publishes an event to the queue. *)
Arrive(f) ==
  /\ f \notin sent
  /\ sent' = sent \cup {f}
  /\ copies' = copies \cup {[fact |-> f, application |-> NoCount, broker |-> 0, serial |-> 0]}
  /\ UNCHANGED << delivery, applied, dead, breaks >>

(* consumeConnection takes the next message; Consume keeps it unsettled. *)
Deliver(c) ==
  /\ delivery = NoDelivery
  /\ copies' = copies \ {c}
  /\ delivery' = [phase |-> "handle", message |-> c]
  /\ UNCHANGED << sent, applied, dead, breaks >>

SettleAs(phase) == delivery' = [delivery EXCEPT !.phase = phase]

(* HandleEnvelope commits, and commits once: a replay finds its inbox row.  *)
Applies ==
  /\ delivery.phase = "handle"
  /\ applied' = applied \cup {delivery.message.fact}
  /\ SettleAs("ack")
  /\ UNCHANGED << sent, copies, dead, breaks >>

(* A malformed message, an invalid or unknown event, a conflict. *)
Rejects ==
  /\ delivery.phase = "handle" /\ delivery.message.fact \notin applied
  /\ SettleAs("nack")
  /\ UNCHANGED << sent, copies, applied, dead, breaks >>

deliveryAttempt(m) == IF m.application # NoCount THEN m.application ELSE m.broker

(* Any other error.  The transaction may have committed although the       *)
(* handler saw an error.                                                   *)
ApplyFails ==
  /\ delivery.phase = "handle"
  /\ applied' \in {applied, applied \cup {delivery.message.fact}}
  /\ SettleAs(IF deliveryAttempt(delivery.message) >= RetryLimit THEN "nack" ELSE "republish")
  /\ UNCHANGED << sent, copies, dead, breaks >>

retryMessage(m) ==
  [m EXCEPT !.application = deliveryAttempt(m) + 1, !.broker = 0, !.serial = breaks]

(* Fault: the delivery is acknowledged whatever became of the copy. *)
PublishRetryUnconfirmed ==
  /\ delivery.phase = "republish"
  /\ copies' \in {copies, copies \cup {retryMessage(delivery.message)}}
  /\ SettleAs("ack")
  /\ UNCHANGED << sent, applied, dead, breaks >>

(* PublishRetry: confirmed; or refused, returned or not confirmed in time, *)
(* and then the copy may be there all the same.                            *)
PublishRetry ==
  /\ delivery.phase = "republish"
  /\ \/ copies' = copies \cup {retryMessage(delivery.message)} /\ SettleAs("ack")
     \/ copies' \in {copies, copies \cup {retryMessage(delivery.message)}} /\ SettleAs("nack")
  /\ UNCHANGED << sent, applied, dead, breaks >>

Acknowledge ==
  /\ delivery.phase = "ack"
  /\ delivery' = NoDelivery
  /\ UNCHANGED << sent, copies, applied, dead, breaks >>

Reject ==
  /\ delivery.phase = "nack"
  /\ dead' = dead \cup {delivery.message.fact}
  /\ delivery' = NoDelivery
  /\ UNCHANGED << sent, copies, applied, breaks >>

(* The connection breaks or the process stops: the broker delivers the     *)
(* unsettled message again, with its own count advanced.                   *)
ConnectionBreaks ==
  /\ delivery # NoDelivery /\ breaks < MaximumBreaks
  /\ breaks' = breaks + 1
  /\ copies' = copies \cup {[delivery.message EXCEPT !.broker = @ + 1]}
  /\ delivery' = NoDelivery
  /\ UNCHANGED << sent, applied, dead >>

Handles == Applies \/ Rejects \/ ApplyFails \/ PublishRetry \/ Acknowledge \/ Reject

ConsumerNext ==
  \/ \E f \in Facts : Arrive(f)
  \/ \E c \in copies : Deliver(c)
  \/ Handles \/ ConnectionBreaks

ConsumerFairness == WF_consumerVars((\E c \in copies : Deliver(c)) \/ Handles)

ConsumerSpec == ConsumerInit /\ [][ConsumerNext]_consumerVars /\ ConsumerFairness

-----------------------------------------------------------------------------
(* Properties *)

Pending == {c.fact : c \in copies} \cup
           (IF delivery = NoDelivery THEN {} ELSE {delivery.message.fact})

(***************************************************************************)
(* No event is lost between the two messages of a retry: it has been       *)
(* applied, or an operator finds it in the dead-letter queue, or a copy is *)
(* still queued or being handled; and the consumer comes to rest, because  *)
(* no copy is published again beyond the retry limit.                      *)
(***************************************************************************)
EventsSettle ==
  /\ [](sent = applied \cup dead \cup Pending)
  /\ <>[](Pending = {})
=============================================================================
