----------------------------- MODULE MCDelivery -----------------------------
(***************************************************************************)
(* What stands between Catalog's transactions and the outside, for TLC:    *)
(* the dispatch of the outbox, uploads against the two stores, and the     *)
(* consumer of the facts.  The parts share no variable, and a behaviour    *)
(* moves one of them.  In its initial state a part has nothing to do that  *)
(* it is obliged to do, so the fairness of the parts that do not move      *)
(* holds.                                                                  *)
(***************************************************************************)
EXTENDS CatalogOutbox, CatalogUpload, CatalogConsumer

VARIABLE side

deliveryVars == << outboxVars, uploadVars, consumerVars, side >>

DeliveryInit ==
  /\ OutboxInit /\ UploadInit /\ ConsumerInit
  /\ side \in {"dispatch", "upload", "consume"}

DeliveryNext ==
  /\ \/ side = "dispatch" /\ OutboxNext /\ UNCHANGED << uploadVars, consumerVars >>
     \/ side = "upload" /\ UploadNext /\ UNCHANGED << outboxVars, consumerVars >>
     \/ side = "consume" /\ ConsumerNext /\ UNCHANGED << outboxVars, uploadVars >>
  /\ UNCHANGED side

DeliverySpec ==
  /\ DeliveryInit /\ [][DeliveryNext]_deliveryVars
  /\ OutboxFairness /\ UploadFairness /\ ConsumerFairness
=============================================================================
