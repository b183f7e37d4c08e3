-------------------------- MODULE MCRetrievalIndex --------------------------
(* Small instances of RetrievalIndex. *)
EXTENDS RetrievalIndex, TLC

CONSTANTS w1, w2, s1, s2

AnyWorker == Permutations(Workers)

(* For liveness: a behaviour meets a fault or a duplicate.  A recovery that *)
(* replays a request still queued is a duplicate.                           *)
OneDisturbance == faults' + dups' >= MaxFaults + Duplicates - 1

LiveSpec ==
    /\ Init /\ [][Next /\ OneDisturbance]_vars
    /\ Fairness /\ WF_vars(Recover /\ OneDisturbance)
=============================================================================
