--------------------------- MODULE MCIngestionJob ---------------------------
(* IngestionJob on small instances. *)
EXTENDS IngestionJob, TLC

ShortDelays == [i \in 1..3 |-> 1]

(* As the code's 5s, 30s and 2m: the second delay is longer than the first, *)
(* so a recovery at the end of the lease may come before the next attempt.  *)
GrowingDelays == [i \in 1..3 |-> IF i = 1 THEN 1 ELSE 2]

Symmetry == Permutations(Slots)

(* Without content selection: nothing is asked of the layout worker. *)
Unselected == ~ Selection /\ UNCHANGED << stored, completions >>

(* The slots are alike: a message takes the first that is free. *)
Order == CHOOSE f \in [Slots -> 1..Cardinality(Slots)] : \A s, t \in Slots : f[s] = f[t] => s = t

FirstInit == Init /\ HistoryInit /\ \E s \in Slots : Order[s] = 1 /\ slots[s] # Free

FirstFree == \A s, t \in Slots :
    Order[s] < Order[t] /\ slots[s] = Free /\ slots[t] = Free /\ slots'[t] # Free => slots'[s] # Free

(* With a deletion one fault fewer; nothing that is fair is held back. *)
DeletionOrFault == deletion' # "none" => faults' > 0

LiveNext == Next /\ Remember /\ Unselected /\ FirstFree /\ DeletionOrFault

LiveSpec == FirstInit /\ [][LiveNext]_<<vars, history>> /\ Fairness
=============================================================================
