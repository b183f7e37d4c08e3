--------------------------- MODULE OrderedDelivery ---------------------------
(***************************************************************************)
(* What Catalog's outbox promises the consumers of its events, told        *)
(* without rows, leases, workers or a channel: the events of a book are    *)
(* numbered in the order their transactions commit; event n is handed to   *)
(* the broker for the first time only when every earlier event of the book *)
(* is settled, and every event is settled in the end.  Handing an event    *)
(* over again changes nothing here: delivery is at least once.             *)
(***************************************************************************)
EXTENDS Naturals

CONSTANT Aggregates     \* the books

VARIABLES appended,     \* events committed so far, per book
          reached,      \* the latest event the broker has taken
          settled       \* the latest event that needs no further attempt

orderVars == << appended, reached, settled >>

OrderInit ==
  /\ appended = [b \in Aggregates |-> 0]
  /\ reached  = [b \in Aggregates |-> 0]
  /\ settled  = [b \in Aggregates |-> 0]

(* A transaction of the book commits one or two events. *)
Commit(b) ==
  /\ \E k \in {1, 2} : appended' = [appended EXCEPT ![b] = @ + k]
  /\ UNCHANGED << reached, settled >>

(* The last transaction of a deleted book withdraws what is not settled    *)
(* and commits one final event.                                            *)
Withdraw(b) ==
  /\ appended' = [appended EXCEPT ![b] = @ + 1]
  /\ reached'  = [reached EXCEPT ![b] = appended[b]]
  /\ settled'  = [settled EXCEPT ![b] = appended[b]]

Reach(b) ==
  /\ reached[b] = settled[b] /\ settled[b] < appended[b]
  /\ reached' = [reached EXCEPT ![b] = @ + 1]
  /\ UNCHANGED << appended, settled >>

Settled(b) ==
  /\ settled[b] < reached[b]
  /\ settled' = [settled EXCEPT ![b] = @ + 1]
  /\ UNCHANGED << appended, reached >>

OrderNext == \E b \in Aggregates : Commit(b) \/ Withdraw(b) \/ Reach(b) \/ Settled(b)

OrderSpec ==
  /\ OrderInit /\ [][OrderNext]_orderVars
  /\ \A b \in Aggregates : WF_orderVars(Reach(b)) /\ WF_orderVars(Settled(b))
=============================================================================
