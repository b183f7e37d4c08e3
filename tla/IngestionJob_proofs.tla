------------------------- MODULE IngestionJob_proofs -------------------------
(***************************************************************************)
(* Ingestion's lease admits one worker, its terminal event is the outcome  *)
(* of the job, its committed artifacts stay, and a selection comes before  *)
(* the first write, for any number of deliveries and faults, any timeouts  *)
(* and any retry delays.                                                   *)
(*                                                                         *)
(* A deletion is acknowledged after the last write, unless the Complete of *)
(* an attempt that lost its lease hastened the cleaner while its successor *)
(* was writing; a retry keeps its intent, unless it was overtaken.  The    *)
(* history variables say when that happened.                               *)
(***************************************************************************)
EXTENDS IngestionJob, TLAPS

Active == {"requesting", "working", "persisting"}

(***************************************************************************)
(* Every claim has a number of its own and none is ahead of the job's; a   *)
(* worker has the current one and its lease is running.                    *)
(***************************************************************************)
SlotsInv ==
    \A s \in Slots :
        /\ slots[s].kind = "none" <=> slots[s].at = "free"
        /\ slots[s].at \notin Active => slots[s].wrote = {}
        /\ slots[s].at \in Active => slots[s].claim >= 1 /\ slots[s].claim <= job.claim
        /\ slots[s].at = "working" => OwnsClaim(s) /\ job.timer > 0

ClaimsInv ==
    \A s, t \in Slots :
        slots[s].at \in Active /\ slots[t].at \in Active /\ slots[s].claim = slots[t].claim
            => s = t

JobInv ==
    /\ job.state = "absent" <=> job.attempts = 0
    /\ job.state = "absent" <=> job.claim = 0
    /\ job.state = "absent" <=> artifacts.state = "none"

LeaseInv == TypeOK /\ SlotsInv /\ ClaimsInv /\ JobInv /\ TerminalEventAgrees

(***************************************************************************)
(* Cleanup is scheduled by a failure or a deletion only, so nothing but    *)
(* the worker itself touches what a worker has written.                    *)
(***************************************************************************)
CleanerInv ==
    fence # "deleted" /\ job.state # "failed" =>
        /\ ~artifacts.scheduled
        /\ cleaner["orphan"] = "idle" /\ cleaner["deletion"] = "idle"

WrittenInv ==
    fence # "deleted" => \A s \in Slots :
        /\ slots[s].at = "working" => slots[s].wrote \subseteq objects
        /\ slots[s].at = "persisting" /\ slots[s].outcome = "complete" /\ OwnsClaim(s)
               => objects = Files

KeptInv == CleanerInv /\ WrittenInv /\ CommittedArtifactsKept

(***************************************************************************)
(* A selection is asked for once, before the first write.                  *)
(***************************************************************************)
RequestInv ==
    /\ \A s \in Slots : slots[s].at = "requesting" => Selection
    /\ outbox[2] = "none" /\ Selection =>
           /\ objects = {} /\ ~stored
           /\ \A s \in Slots : slots[s].at # "working"
    /\ job.state = "awaiting_selection" => outbox[2] # "none" /\ objects = {}

FenceInv ==
    /\ fence = "deleted" <=> deletion \in {"pending", "acknowledged"}
    /\ artifacts.deletion # "no" => fence = "deleted"
    /\ cleaner["deletion"] # "idle" => fence = "deleted"
    /\ job.state = "absent" => objects = {}

(***************************************************************************)
(* While nobody hastened the cleaner, it waits for the end of the lease.   *)
(***************************************************************************)
Gone == deletion = "acknowledged" =>
            objects = {} /\ \A s \in Slots : slots[s].at # "working"

BarrierInv ==
    /\ fence = "deleted" /\ (\E s \in Slots : slots[s].at = "working") =>
           /\ artifacts.cleanup >= job.timer
           /\ cleaner["orphan"] = "idle" /\ cleaner["deletion"] = "idle"
    /\ cleaner["deletion"] = "deleted" => objects = {}
    /\ Gone

-----------------------------------------------------------------------------
(* Facts about the operators *)

LEMMA ExceptType ==
    ASSUME NEW A, NEW D, NEW f \in [A -> D], NEW a, NEW e, a \in A => e \in D
    PROVE  [f EXCEPT ![a] = e] \in [A -> D]
  OBVIOUS

LEMMA DecType ==
    ASSUME NEW n \in Nat
    PROVE  Dec(n) \in Nat /\ Dec(n) <= n /\ (n # 0 /\ n # 1 => Dec(n) > 0)
  BY DEF Dec

(* Time passes for two deadlines alike. *)
LEMMA DecMonotone ==
    ASSUME NEW m \in Nat, NEW n \in Nat, m >= n
    PROVE  Dec(m) >= Dec(n)
  BY DEF Dec

LEMMA MessageType ==
    ASSUME NEW kind \in MessageKinds, NEW delay \in Nat
    PROVE  /\ Message(kind, delay) \in Delivery
           /\ Message(kind, delay).at = "queued" /\ Message(kind, delay).kind = kind
           /\ Message(kind, delay).kind # "none" /\ Message(kind, delay).wrote = {}
  BY DEF Message, Free, Delivery, MessageKinds

LEMMA FreeType ==
    Free \in Delivery /\ Free.at = "free" /\ Free.kind = "none" /\ Free.wrote = {}
  BY DEF Free, Delivery

LEMMA RetryDelays ==
    ASSUME NEW n \in Nat
    PROVE  /\ retryRouteForAttempt(n) \in Nat /\ uploadRetryRouteForDelay(n) \in Nat
           /\ n # 0 => retryDelay(n) \in Nat
<1>1. RetryDelay \in [1..3 -> Nat \ {0}]
  BY IngestionAssumption
<1>2. RetryDelay[1] \in Nat /\ RetryDelay[2] \in Nat /\ RetryDelay[3] \in Nat
  BY <1>1
<1>3. retryRouteForAttempt(n) \in Nat
  BY <1>2 DEF retryRouteForAttempt
<1>4. uploadRetryRouteForDelay(n) \in Nat
  BY <1>2 DEF uploadRetryRouteForDelay
<1>5. n # 0 => retryDelay(n) \in Nat
  <2>1. ASSUME n # 0 PROVE (IF n <= 2 THEN n ELSE 3) \in 1..3
    BY <2>1
  <2> QED
    BY <1>1, <2>1 DEF retryDelay
<1> QED
  BY <1>3, <1>4, <1>5

LEMMA UpsertType ==
    ASSUME NEW d \in Dispatch, NEW next \in Nat, NEW after \in Nat
    PROVE  Upsert(d, next, after) \in Dispatch
<1>1. Least(d.next, next) \in Nat /\ Least(d.after, after) \in Nat
  BY DEF Least, Dispatch
<1> QED
  BY <1>1 DEF Upsert, Dispatch

LEMMA RecoveryType ==
    ASSUME TypeOK, NEW at \in Nat, scheduleUploadRecovery(at)
    PROVE  dispatches' \in [Attempts -> Dispatch]
<1> DEFINE k == job.attempts
<1>1. dispatches \in [Attempts -> Dispatch]
  BY DEF TypeOK
<1>2. k \in Attempts => Upsert(dispatches[k], at, at) \in Dispatch
  BY <1>1, UpsertType
<1>3. dispatches' = [dispatches EXCEPT ![k] = Upsert(dispatches[k], at, at)]
  BY DEF scheduleUploadRecovery
<1> HIDE DEF k
<1> QED
  BY <1>1, <1>2, <1>3, ExceptType

(***************************************************************************)
(* A delivery is settled or a message enters a slot: nobody handles it.    *)
(***************************************************************************)
Settles(s) ==
    \E d \in Delivery :
        /\ d.at \in {"free", "queued"} /\ (d.kind = "none" <=> d.at = "free")
        /\ d.wrote = {} /\ slots' = [slots EXCEPT ![s] = d]

DeadTyped == dead \subseteq MessageKinds \X {"rejected", "exhausted"}

LEMMA FreedEffect ==
    ASSUME TypeOK, NEW s \in Slots, NEW kind \in MessageKinds,
           NEW why \in {"rejected", "exhausted"},
           slots' = [slots EXCEPT ![s] = Free], dead' = dead \cup {<<kind, why>>}
    PROVE  Settles(s) /\ DeadTyped'
<1>1. Settles(s)
  BY FreeType DEF Settles
<1>2. <<kind, why>> \in MessageKinds \X {"rejected", "exhausted"}
  OBVIOUS
<1>3. DeadTyped'
  BY <1>2 DEF DeadTyped, TypeOK
<1> QED
  BY <1>1, <1>3

LEMMA SettleEffect ==
    ASSUME TypeOK, SlotsInv, NEW s \in Slots,
           \/ Acknowledge(s)
           \/ slots[s].at # "free" /\ (Reject(s) \/ Requeue(s))
    PROVE  Settles(s) /\ DeadTyped'
<1>1. DeadTyped /\ slots[s] \in Delivery
  BY DEF TypeOK, DeadTyped
<1>2. slots[s].at # "free" => slots[s].kind \in MessageKinds
  BY <1>1 DEF SlotsInv, Delivery
<1>3. CASE Acknowledge(s)
  BY <1>1, <1>3, FreeType DEF Acknowledge, Settles, DeadTyped
<1>4. CASE slots[s].at # "free" /\ Reject(s)
  <2>1. slots' = [slots EXCEPT ![s] = Free] /\ dead' = dead \cup {<<slots[s].kind, "rejected">>}
    BY <1>4 DEF Reject
  <2> QED
    BY <1>2, <1>4, <2>1, FreedEffect
<1>5. CASE slots[s].at # "free" /\ Requeue(s)
  <2> DEFINE count == deliveryAttempt(slots[s])
             m == Message(slots[s].kind, retryRouteForAttempt(count + 1))
             again == [m EXCEPT !.header = count + 1]
  <2>1. count \in Nat
    BY <1>1 DEF deliveryAttempt, Delivery
  <2>2. CASE count >= MaxDeliveries
    <3>1. slots' = [slots EXCEPT ![s] = Free] /\ dead' = dead \cup {<<slots[s].kind, "exhausted">>}
      BY <1>5, <2>2 DEF Requeue
    <3> QED
      BY <1>2, <1>5, <3>1, FreedEffect
  <2>3. CASE ~(count >= MaxDeliveries)
    <3>1. slots' = [slots EXCEPT ![s] = again] /\ dead' = dead
      BY <1>5, <2>3 DEF Requeue
    <3>2. count + 1 \in Nat
      BY <2>1
    <3>3. retryRouteForAttempt(count + 1) \in Nat
      BY <3>2, RetryDelays
    <3>4. /\ m \in Delivery /\ m.at = "queued" /\ m.kind # "none" /\ m.wrote = {}
      BY <1>2, <1>5, <3>3, MessageType
    <3> HIDE DEF m, count
    <3>5. /\ again \in Delivery /\ again.at = "queued" /\ again.kind # "none" /\ again.wrote = {}
      BY <3>2, <3>4 DEF Delivery
    <3> HIDE DEF again
    <3> QED
      BY <1>1, <3>1, <3>5 DEF Settles, DeadTyped
  <2> QED
    BY <2>2, <2>3
<1> QED
  BY <1>3, <1>4, <1>5

LEMMA MessageEffect ==
    ASSUME NEW s \in Slots, NEW kind \in MessageKinds, NEW delay \in Nat,
           slots' = [slots EXCEPT ![s] = Message(kind, delay)]
    PROVE  Settles(s)
  BY MessageType DEF Settles

-----------------------------------------------------------------------------
(* Slots and claims *)

SlotsTyped == slots \in [Slots -> Delivery]

Held == SlotsTyped /\ SlotsInv /\ ClaimsInv

(* A slot is settled; the job keeps its claim, and its lease while somebody works. *)
LEMMA SettleSlots ==
    ASSUME TypeOK, SlotsInv, ClaimsInv, NEW s \in Slots, Settles(s),
           job' \in Job, job'.claim = job.claim,
           \A t \in Slots \ {s} : slots[t].at = "working" =>
               job'.state = job.state /\ job'.timer = job.timer
    PROVE  Held'
<1>1. PICK d \in Delivery :
          /\ d.at \in {"free", "queued"} /\ (d.kind = "none" <=> d.at = "free")
          /\ d.wrote = {} /\ slots' = [slots EXCEPT ![s] = d]
  BY DEF Settles
<1>2. slots \in [Slots -> Delivery]
  BY DEF TypeOK
<1>3. slots'[s] = d /\ \A t \in Slots : t # s => slots'[t] = slots[t]
  BY <1>1, <1>2
<1>4. SlotsTyped'
  BY <1>1, <1>2 DEF SlotsTyped
<1>5. SlotsInv'
  <2> SUFFICES ASSUME NEW t \in Slots
               PROVE  /\ slots'[t].kind = "none" <=> slots'[t].at = "free"
                      /\ slots'[t].at \notin Active => slots'[t].wrote = {}
                      /\ slots'[t].at \in Active =>
                             slots'[t].claim >= 1 /\ slots'[t].claim <= job'.claim
                      /\ slots'[t].at = "working" => OwnsClaim(t)' /\ job'.timer > 0
    BY DEF SlotsInv
  <2>1. CASE t = s
    BY <1>1, <1>3, <2>1 DEF Active
  <2>2. CASE t # s
    BY <1>3, <2>2 DEF SlotsInv, OwnsClaim
  <2> QED
    BY <2>1, <2>2
<1>6. ClaimsInv'
  BY <1>1, <1>3 DEF ClaimsInv, Active
<1> QED
  BY <1>4, <1>5, <1>6 DEF Held

(* Nobody works, and a delivery claims the job. *)
LEMMA ClaimSlots ==
    ASSUME TypeOK, SlotsInv, ClaimsInv, NEW s \in Slots, slots[s].at = "queued",
           NEW at \in {"working", "requesting"}, Handling(s, at, job.claim + 1),
           NEW a \in Nat, job' = Claimed(a),
           \A t \in Slots : slots[t].at # "working"
    PROVE  Held' /\ job' \in Job
<1> DEFINE n == job.claim + 1
           d == [slots[s] EXCEPT !.at = at, !.claim = n]
<1>1. slots \in [Slots -> Delivery] /\ job \in Job /\ n \in Nat /\ n >= 1
      /\ job.claim \in Nat /\ n > job.claim
  <2>1. job.claim \in Nat /\ job \in Job
    BY DEF TypeOK, Job
  <2> QED
    BY <2>1 DEF TypeOK
<1>2. slots' = [slots EXCEPT ![s] = d]
  BY DEF Handling
<1>3. /\ job'.state = "processing" /\ job'.claim = n /\ job'.timer = Lease /\ job' \in Job
  <2>1. Lease \in Nat
    BY IngestionAssumption
  <2>2. job' = [job EXCEPT !.state = "processing", !.attempts = a, !.claim = n, !.timer = Lease]
    BY DEF Claimed
  <2> HIDE DEF n
  <2> QED
    BY <1>1, <2>1, <2>2 DEF Job, JobStates
<1>4. /\ d \in Delivery /\ d.at = at /\ d.claim = n /\ d.kind = slots[s].kind /\ d.kind # "none"
  <2>1. slots[s] \in Delivery /\ slots[s].kind # "none"
    BY <1>1 DEF SlotsInv
  <2> HIDE DEF n
  <2> QED
    BY <1>1, <2>1 DEF Delivery
<1> HIDE DEF d, n
<1>5. slots'[s] = d /\ \A t \in Slots : t # s => slots'[t] = slots[t]
  BY <1>1, <1>2
<1>6. SlotsTyped'
  BY <1>1, <1>2, <1>4 DEF SlotsTyped
<1>7. Lease > 0
  BY IngestionAssumption
<1>8. SlotsInv'
  <2> SUFFICES ASSUME NEW t \in Slots
               PROVE  /\ slots'[t].kind = "none" <=> slots'[t].at = "free"
                      /\ slots'[t].at \notin Active => slots'[t].wrote = {}
                      /\ slots'[t].at \in Active =>
                             slots'[t].claim >= 1 /\ slots'[t].claim <= job'.claim
                      /\ slots'[t].at = "working" => OwnsClaim(t)' /\ job'.timer > 0
    BY DEF SlotsInv
  <2>1. CASE t = s
    BY <1>1, <1>3, <1>4, <1>5, <1>7, <2>1 DEF Active, OwnsClaim
  <2>2. CASE t # s
    <3>1. slots[t].claim \in Nat
      BY <1>1 DEF Delivery
    <3>2. slots[t].at \in Active => slots[t].claim >= 1 /\ slots[t].claim <= job.claim
      BY DEF SlotsInv
    <3> QED
      BY <1>1, <1>3, <1>5, <2>2, <3>1, <3>2 DEF SlotsInv
  <2> QED
    BY <2>1, <2>2
<1>9. ClaimsInv'
  <2>1. \A t \in Slots : t # s /\ slots'[t].at \in Active => slots'[t].claim # n
    <3> SUFFICES ASSUME NEW t \in Slots, t # s, slots'[t].at \in Active
                 PROVE  slots'[t].claim # n
      OBVIOUS
    <3>1. slots[t].claim \in Nat /\ slots[t].claim <= job.claim
      BY <1>1, <1>5 DEF SlotsInv, Delivery
    <3> QED
      BY <1>1, <1>5, <3>1
  <2> QED
    BY <1>4, <1>5, <2>1 DEF ClaimsInv
<1> QED
  BY <1>3, <1>6, <1>8, <1>9 DEF Held

(* The worker goes on, or ends its work and goes on to its transaction. *)
LEMMA WorkSlots ==
    ASSUME TypeOK, SlotsInv, ClaimsInv, NEW s \in Slots, slots[s].at = "working",
           NEW d \in Delivery, slots' = [slots EXCEPT ![s] = d],
           d.kind = slots[s].kind, d.claim = slots[s].claim,
           d.at \in {"working", "persisting"}, UNCHANGED job
    PROVE  Held'
<1>1. slots \in [Slots -> Delivery]
  BY DEF TypeOK
<1>2. slots'[s] = d /\ \A t \in Slots : t # s => slots'[t] = slots[t]
  BY <1>1
<1>3. SlotsInv'
  BY <1>2 DEF SlotsInv, Active, OwnsClaim
<1>4. ClaimsInv'
  BY <1>2 DEF ClaimsInv, Active
<1> QED
  BY <1>1, <1>3, <1>4 DEF Held, SlotsTyped

(* Time passes, but no lease of a worker runs out. *)
LEMMA AdvanceSlots ==
    ASSUME TypeOK, SlotsInv, ClaimsInv, Advance,
           \A t \in Slots : slots[t].at = "working" => job.timer # 1
    PROVE  Held' /\ job' \in Job
<1>1. slots \in [Slots -> Delivery] /\ job \in Job /\ job.timer \in Nat
  BY DEF TypeOK, Job
<1>2. /\ job'.state = job.state /\ job'.claim = job.claim /\ job'.timer = Dec(job.timer)
      /\ job' \in Job /\ Dec(job.timer) \in Nat
  <2>1. Dec(job.timer) \in Nat
    BY <1>1, DecType
  <2> QED
    BY <1>1, <2>1 DEF Advance, Job
<1>3. ASSUME NEW t \in Slots
      PROVE  /\ slots'[t] \in Delivery
             /\ slots'[t].kind = slots[t].kind /\ slots'[t].at = slots[t].at
             /\ slots'[t].claim = slots[t].claim /\ slots'[t].wrote = slots[t].wrote
             /\ slots'[t].outcome = slots[t].outcome
  <2>1. slots[t] \in Delivery /\ Dec(slots[t].delay) \in Nat
    BY <1>1, DecType DEF Delivery
  <2>2. slots'[t] = [slots[t] EXCEPT !.delay = Dec(slots[t].delay)]
    BY DEF Advance
  <2> QED
    BY <2>1, <2>2 DEF Delivery
<1>4. SlotsTyped'
  <2>1. slots' = [t \in Slots |-> slots'[t]]
    BY DEF Advance
  <2> QED
    BY <1>3, <2>1 DEF SlotsTyped
<1>5. \A t \in Slots : slots[t].at = "working" => Dec(job.timer) > 0
  BY <1>1, DecType DEF SlotsInv
<1>6. SlotsInv'
  BY <1>2, <1>3, <1>5 DEF SlotsInv, OwnsClaim
<1>7. ClaimsInv'
  BY <1>3 DEF ClaimsInv
<1> QED
  BY <1>2, <1>4, <1>6, <1>7 DEF Held

LEMMA HeldSame ==
    ASSUME TypeOK, SlotsInv, ClaimsInv, UNCHANGED slots,
           job'.state = job.state, job'.claim = job.claim, job'.timer = job.timer
    PROVE  Held'
  BY DEF TypeOK, SlotsInv, ClaimsInv, OwnsClaim, Held, SlotsTyped

(* A handler that owns the claim is the only one: nobody else works. *)
LEMMA OwnerAlone ==
    ASSUME SlotsInv, ClaimsInv, NEW s \in Slots, slots[s].at \in Active, OwnsClaim(s)
    PROVE  \A t \in Slots \ {s} :
               /\ slots[t].at # "working"
               /\ slots[t].at \in Active => ~OwnsClaim(t)
  BY DEF SlotsInv, ClaimsInv, OwnsClaim, Active

-----------------------------------------------------------------------------
(* The lease: one action after the other *)

(* A delivery leaves its handler and the job stays as it is. *)
LEMMA LeaseSettled ==
    ASSUME LeaseInv, NEW s \in Slots, Settles(s), UNCHANGED job
    PROVE  Held'
<1>1. job' \in Job /\ job'.claim = job.claim
  BY DEF LeaseInv, TypeOK
<1> QED
  BY <1>1, SettleSlots DEF LeaseInv

LEMMA TimerType ==
    ASSUME LeaseInv
    PROVE  /\ job \in Job /\ job.timer \in Nat /\ job.attempts \in Nat /\ job.claim \in Nat
           /\ job.state \in JobStates /\ Lease \in Nat \ {0} /\ Wait \in Nat \ {0}
  BY IngestionAssumption DEF LeaseInv, TypeOK, Job

LEMMA DeliveryLease ==
    ASSUME LeaseInv, NEW s \in Slots
    PROVE  /\ AcceptFenced(s) => LeaseInv'
           /\ AcceptDeferred(s) => LeaseInv'
           /\ ConflictingSelection(s) => LeaseInv'
           /\ SettleSelection(s) => LeaseInv'
           /\ LayoutCompletes(s) => LeaseInv'
           /\ RequestDeletion(s) => LeaseInv'
           /\ AcceptDeletion(s) => LeaseInv'
<1>0. TypeOK /\ SlotsInv /\ DeadTyped
  BY DEF LeaseInv, TypeOK, DeadTyped
<1>1. ASSUME AcceptFenced(s) PROVE LeaseInv'
  <2>1. Settles(s) /\ DeadTyped' /\ UNCHANGED job
    BY <1>0, <1>1, SettleEffect DEF AcceptFenced
  <2>2. Held'
    BY <2>1, LeaseSettled
  <2> QED
    BY <1>1, <2>1, <2>2
       DEF LeaseInv, TypeOK, JobInv, TerminalEventAgrees, Held, SlotsTyped, DeadTyped,
           AcceptFenced
<1>2. ASSUME AcceptDeferred(s) PROVE LeaseInv'
  <2>1. Settles(s) /\ DeadTyped' /\ UNCHANGED job
    BY <1>0, <1>2, SettleEffect DEF AcceptDeferred
  <2>2. Held'
    BY <2>1, LeaseSettled
  <2>3. dispatches' \in [Attempts -> Dispatch]
    BY <1>0, <1>2, TimerType, RecoveryType DEF AcceptDeferred, TypeOK
  <2> QED
    BY <1>2, <2>1, <2>2, <2>3
       DEF LeaseInv, TypeOK, JobInv, TerminalEventAgrees, Held, SlotsTyped, DeadTyped,
           AcceptDeferred
<1>3. ASSUME ConflictingSelection(s) PROVE LeaseInv'
  <2>1. Settles(s) /\ DeadTyped' /\ UNCHANGED job
    BY <1>0, <1>3, SettleEffect DEF ConflictingSelection, Delivered
  <2>2. Held'
    BY <2>1, LeaseSettled
  <2> QED
    BY <1>3, <2>1, <2>2
       DEF LeaseInv, TypeOK, JobInv, TerminalEventAgrees, Held, SlotsTyped, DeadTyped,
           ConflictingSelection
<1>4. ASSUME SettleSelection(s) PROVE LeaseInv'
  <2>1. Settles(s) /\ DeadTyped' /\ UNCHANGED job
    BY <1>0, <1>4, SettleEffect DEF SettleSelection, Delivered
  <2>2. Held'
    BY <2>1, LeaseSettled
  <2>3. dispatches' \in [Attempts -> Dispatch]
    BY <1>0, <1>4, TimerType, RecoveryType DEF SettleSelection, TypeOK
  <2> QED
    BY <1>4, <2>1, <2>2, <2>3
       DEF LeaseInv, TypeOK, JobInv, TerminalEventAgrees, Held, SlotsTyped, DeadTyped,
           SettleSelection
<1>5. ASSUME LayoutCompletes(s) PROVE LeaseInv'
  <2>1. Settles(s) /\ UNCHANGED <<job, dead>>
    BY <1>5, MessageEffect DEF LayoutCompletes, MessageKinds
  <2>2. Held'
    BY <2>1, LeaseSettled
  <2>3. completions' \in 0..MaxCompletions
    BY <1>0, <1>5, IngestionAssumption DEF LayoutCompletes, TypeOK
  <2> QED
    BY <1>5, <2>1, <2>2, <2>3
       DEF LeaseInv, TypeOK, JobInv, TerminalEventAgrees, Held, SlotsTyped, DeadTyped,
           LayoutCompletes
<1>6. ASSUME RequestDeletion(s) PROVE LeaseInv'
  <2>1. Settles(s) /\ UNCHANGED <<job, dead>>
    BY <1>6, MessageEffect DEF RequestDeletion, MessageKinds
  <2>2. Held'
    BY <2>1, LeaseSettled
  <2> QED
    BY <1>6, <2>1, <2>2
       DEF LeaseInv, TypeOK, JobInv, TerminalEventAgrees, Held, SlotsTyped, DeadTyped,
           RequestDeletion
<1>7. ASSUME AcceptDeletion(s) PROVE LeaseInv'
  <2>1. Settles(s) /\ DeadTyped' /\ UNCHANGED job
    BY <1>0, <1>7, SettleEffect DEF AcceptDeletion
  <2>2. Held'
    BY <2>1, LeaseSettled
  <2>3. artifacts' \in ArtifactSet /\ artifacts'.state = artifacts.state
    <3>1. artifacts \in ArtifactSet /\ CleanupAfter \in Nat
      BY TimerType DEF LeaseInv, TypeOK, ArtifactSet, CleanupAfter, Greatest
    <3> QED
      BY <1>7, <3>1 DEF AcceptDeletion, ArtifactSet
  <2> QED
    BY <1>7, <2>1, <2>2, <2>3
       DEF LeaseInv, TypeOK, JobInv, TerminalEventAgrees, Held, SlotsTyped, DeadTyped,
           AcceptDeletion
<1> QED
  BY <1>1, <1>2, <1>3, <1>4, <1>5, <1>6, <1>7

(* Nobody works while the job may be claimed. *)
LEMMA NobodyWorks ==
    ASSUME LeaseInv, job.state # "processing" \/ job.timer = 0
    PROVE  \A t \in Slots : slots[t].at # "working"
  BY TimerType DEF LeaseInv, SlotsInv, OwnsClaim

LEMMA ClaimLease ==
    ASSUME LeaseInv, NEW s \in Slots
    PROVE  /\ AcceptNew(s) => LeaseInv'
           /\ AcceptReclaim(s) => LeaseInv'
           /\ ResumeAfterSelection(s) => LeaseInv'
           /\ ReclaimSelected(s) => LeaseInv'
<1>0. TypeOK /\ SlotsInv /\ ClaimsInv
  BY DEF LeaseInv
<1>1. ASSUME NEW a \in Nat
      PROVE  /\ Claimed(a).state = "processing" /\ Claimed(a).attempts = a
             /\ Claimed(a).claim = job.claim + 1 /\ Claimed(a).manifest = job.manifest
  BY TimerType DEF Claimed, Job
<1>2. \A fallback : AfterClaim(fallback) \in {"working", "requesting"}
  BY DEF AfterClaim
<1>3. job.attempts + 1 \in Nat /\ job.attempts + 1 # 0 /\ job.claim + 1 # 0
  BY TimerType
<1>4. ASSUME AcceptNew(s) PROVE LeaseInv'
  <2>1. /\ slots[s].at = "queued" /\ job' = Claimed(1) /\ job.state = "absent"
        /\ Handling(s, AfterClaim(FALSE), job.claim + 1)
    BY <1>4 DEF AcceptNew, Delivered
  <2>2. Held' /\ job' \in Job
    BY <1>0, <1>2, <2>1, ClaimSlots, NobodyWorks
  <2>3. artifacts' \in ArtifactSet /\ artifacts'.state = "registered"
    BY <1>4 DEF LeaseInv, TypeOK, AcceptNew, ArtifactSet
  <2>4. outbox' \in [1..3 -> {"none", "pending", "published"}] /\ outbox'[3] = outbox[3]
    BY <1>4 DEF LeaseInv, TypeOK, AcceptNew
  <2>5. job'.state = "processing" /\ job'.attempts = 1 /\ job'.claim = job.claim + 1
    BY <1>1, <2>1
  <2>6. TypeOK'
    BY <1>4, <2>2, <2>3, <2>4 DEF LeaseInv, TypeOK, Held, SlotsTyped, AcceptNew
  <2>7. JobInv'
    BY <1>3, <2>3, <2>5 DEF JobInv
  <2>8. TerminalEventAgrees'
    BY <1>4, <2>1, <2>4, <2>5 DEF LeaseInv, TerminalEventAgrees, AcceptNew
  <2> QED
    BY <2>2, <2>6, <2>7, <2>8 DEF LeaseInv, Held
<1>5. ASSUME AcceptReclaim(s) PROVE LeaseInv'
  <2>1. /\ slots[s].at = "queued" /\ job' = Claimed(job.attempts + 1)
        /\ job.state \notin {"absent", "completed", "failed"} /\ job.timer = 0
        /\ Handling(s, AfterClaim(job.state = "awaiting_selection"), job.claim + 1)
    BY <1>5 DEF AcceptReclaim, Delivered, existingJobDecision, terminalState
  <2>2. Held' /\ job' \in Job
    BY <1>0, <1>2, <1>3, <2>1, ClaimSlots, NobodyWorks
  <2>3. /\ job'.state = "processing" /\ job'.attempts = job.attempts + 1
        /\ job'.claim = job.claim + 1
    BY <1>1, <1>3, <2>1
  <2>4. TypeOK'
    BY <1>5, <2>2 DEF LeaseInv, TypeOK, Held, SlotsTyped, AcceptReclaim
  <2>5. JobInv'
    BY <1>3, <1>5, <2>1, <2>3 DEF JobInv, LeaseInv, AcceptReclaim
  <2>6. TerminalEventAgrees'
    BY <1>5, <2>1, <2>3 DEF LeaseInv, TerminalEventAgrees, AcceptReclaim
  <2> QED
    BY <2>2, <2>4, <2>5, <2>6 DEF LeaseInv, Held
<1>6. ASSUME ResumeAfterSelection(s) PROVE LeaseInv'
  <2>1. /\ slots[s].at = "queued" /\ job' = Claimed(job.attempts)
        /\ job.state = "awaiting_selection" /\ Handling(s, "working", job.claim + 1)
    BY <1>6 DEF ResumeAfterSelection, Delivered
  <2>2. Held' /\ job' \in Job
    BY <1>0, <2>1, ClaimSlots, NobodyWorks, TimerType
  <2>3. job'.state = "processing" /\ job'.attempts = job.attempts /\ job'.claim = job.claim + 1
    BY <1>1, <2>1, TimerType
  <2>4. dispatches' \in [Attempts -> Dispatch]
    <3> DEFINE k == job.attempts
               d == IF dispatches[k].status = "published" THEN dispatches[k] ELSE NoDispatch
    <3>1. dispatches \in [Attempts -> Dispatch] /\ NoDispatch \in Dispatch
      BY DEF LeaseInv, TypeOK, NoDispatch, Dispatch
    <3>2. k \in Attempts => d \in Dispatch
      BY <3>1
    <3>3. dispatches' = [dispatches EXCEPT ![k] = d]
      BY <1>6 DEF ResumeAfterSelection
    <3> HIDE DEF k, d
    <3> QED
      BY <3>1, <3>2, <3>3, ExceptType
  <2>5. TypeOK'
    BY <1>6, <2>2, <2>4 DEF LeaseInv, TypeOK, Held, SlotsTyped, ResumeAfterSelection
  <2>6. JobInv'
    BY <1>3, <1>6, <2>1, <2>3 DEF JobInv, LeaseInv, ResumeAfterSelection
  <2>7. TerminalEventAgrees'
    BY <1>6, <2>1, <2>3 DEF LeaseInv, TerminalEventAgrees, ResumeAfterSelection
  <2> QED
    BY <2>2, <2>5, <2>6, <2>7 DEF LeaseInv, Held
<1>7. ASSUME ReclaimSelected(s) PROVE LeaseInv'
  <2>1. /\ slots[s].at = "queued" /\ job' = Claimed(job.attempts + 1)
        /\ job.state = "processing" /\ job.timer = 0 /\ Handling(s, "working", job.claim + 1)
    BY <1>7 DEF ReclaimSelected, Delivered
  <2>2. Held' /\ job' \in Job
    BY <1>0, <1>3, <2>1, ClaimSlots, NobodyWorks
  <2>3. /\ job'.state = "processing" /\ job'.attempts = job.attempts + 1
        /\ job'.claim = job.claim + 1
    BY <1>1, <1>3, <2>1
  <2>4. TypeOK'
    BY <1>7, <2>2 DEF LeaseInv, TypeOK, Held, SlotsTyped, ReclaimSelected
  <2>5. JobInv'
    BY <1>3, <1>7, <2>1, <2>3 DEF JobInv, LeaseInv, ReclaimSelected
  <2>6. TerminalEventAgrees'
    BY <1>7, <2>1, <2>3 DEF LeaseInv, TerminalEventAgrees, ReclaimSelected
  <2> QED
    BY <2>2, <2>4, <2>5, <2>6 DEF LeaseInv, Held
<1> QED
  BY <1>4, <1>5, <1>6, <1>7

(***************************************************************************)
(* The transaction of an attempt: its owner settles the delivery and moves *)
(* the job, anybody else only settles the delivery.                        *)
(***************************************************************************)
LEMMA OwnerSettles ==
    ASSUME LeaseInv, NEW s \in Slots, slots[s].at \in Active, OwnsClaim(s), Settles(s),
           job' \in Job, job'.claim = job.claim
    PROVE  Held'
  BY OwnerAlone, SettleSlots DEF LeaseInv

LEMMA DispatchTyped ==
    ASSUME LeaseInv, NEW k, NEW d, k \in Attempts => d \in Dispatch,
           dispatches' = [dispatches EXCEPT ![k] = d]
    PROVE  dispatches' \in [Attempts -> Dispatch]
  BY ExceptType DEF LeaseInv, TypeOK

LEMMA TransactionLease ==
    ASSUME LeaseInv, NEW s \in Slots
    PROVE  /\ AwaitSelection(s) => LeaseInv'
           /\ Complete(s) => LeaseInv'
           /\ Fail(s) => LeaseInv'
           /\ Retry(s) => LeaseInv'
<1>0. TypeOK /\ SlotsInv /\ DeadTyped /\ JobInv /\ TerminalEventAgrees
  BY DEF LeaseInv, TypeOK, DeadTyped
<1>1. ASSUME slots[s].at \in Active, Acknowledge(s) \/ Reject(s) \/ Requeue(s)
      PROVE  Settles(s) /\ DeadTyped'
  BY <1>0, <1>1, SettleEffect DEF Active
<1>2. OwnsClaim(s) => /\ job.state = "processing" /\ terminal = "none" /\ outbox[3] = "none"
                      /\ job.attempts # 0 /\ job.claim # 0 /\ artifacts.state # "none"
  BY <1>0 DEF OwnsClaim, TerminalEventAgrees, JobInv, TypeOK
<1>3. ASSUME AwaitSelection(s) PROVE LeaseInv'
  <2>0. slots[s].at \in Active
    BY <1>3 DEF AwaitSelection, Active
  <2>1. Settles(s) /\ DeadTyped'
    BY <1>1, <1>3, <2>0 DEF AwaitSelection
  <2>2. CASE UNCHANGED <<job, outbox, dispatches>>
    <3>1. Held'
      BY <2>1, <2>2, LeaseSettled
    <3> QED
      BY <1>3, <2>1, <2>2, <3>1 DEF LeaseInv, TypeOK, JobInv, TerminalEventAgrees, Held,
         SlotsTyped, DeadTyped, AwaitSelection
  <2>3. CASE ~UNCHANGED <<job, outbox, dispatches>>
    <3>1. /\ OwnsClaim(s) /\ job' = [job EXCEPT !.state = "awaiting_selection", !.timer = Wait]
          /\ outbox' = [outbox EXCEPT ![2] = "pending"] /\ scheduleUploadRecovery(Wait)
      BY <1>3, <2>3 DEF AwaitSelection
    <3>2. /\ job' \in Job /\ job'.claim = job.claim /\ job'.attempts = job.attempts
          /\ job'.state = "awaiting_selection"
      BY <3>1, TimerType DEF Job, JobStates
    <3>3. Held'
      BY <2>0, <2>1, <3>1, <3>2, OwnerSettles
    <3>4. dispatches' \in [Attempts -> Dispatch]
      BY <1>0, <3>1, TimerType, RecoveryType
    <3>5. outbox' \in [1..3 -> {"none", "pending", "published"}] /\ outbox'[3] = outbox[3]
      BY <1>0, <3>1 DEF TypeOK
    <3>6. TypeOK'
      BY <1>0, <1>3, <2>1, <3>2, <3>3, <3>4, <3>5 DEF TypeOK, Held, SlotsTyped, DeadTyped,
         AwaitSelection
    <3>7. JobInv'
      BY <1>0, <1>2, <1>3, <3>1, <3>2 DEF JobInv, AwaitSelection
    <3>8. TerminalEventAgrees'
      BY <1>2, <1>3, <3>1, <3>2, <3>5 DEF TerminalEventAgrees, AwaitSelection
    <3> QED
      BY <3>3, <3>6, <3>7, <3>8 DEF LeaseInv, Held
  <2> QED
    BY <2>2, <2>3
<1>4. ASSUME Complete(s) PROVE LeaseInv'
  <2>0. slots[s].at \in Active
    BY <1>4 DEF Complete, Active
  <2>1. Settles(s) /\ DeadTyped'
    BY <1>1, <1>4, <2>0 DEF Complete
  <2>2. CASE UNCHANGED <<job, outbox, terminal>>
    <3>1. Held'
      BY <2>1, <2>2, LeaseSettled
    <3>2. CASE UNCHANGED artifacts
      BY <1>4, <2>1, <2>2, <3>1, <3>2 DEF LeaseInv, TypeOK, JobInv, TerminalEventAgrees, Held,
         SlotsTyped, DeadTyped, Complete
    <3>3. CASE artifacts' = [artifacts EXCEPT !.deletion = "pending", !.scheduled = TRUE,
                                              !.cleanup = 0]
      <4>1. artifacts' \in ArtifactSet /\ artifacts'.state = artifacts.state
        BY <1>0, <3>3 DEF TypeOK, ArtifactSet
      <4> QED
        BY <1>4, <2>1, <2>2, <3>1, <4>1 DEF LeaseInv, TypeOK, JobInv, TerminalEventAgrees,
           Held, SlotsTyped, DeadTyped, Complete
    <3>4. CASE OwnsClaim(s) /\ job' = [job EXCEPT !.state = "completed", !.timer = 0,
                                                  !.manifest = TRUE]
      <4>1. job'.state = "completed"
        BY <3>4, TimerType DEF Job
      <4> QED
        BY <1>2, <2>2, <3>4, <4>1
    <3> QED
      BY <1>4, <3>2, <3>3, <3>4 DEF Complete
  <2>3. CASE ~UNCHANGED <<job, outbox, terminal>>
    <3>1. /\ OwnsClaim(s)
          /\ job' = [job EXCEPT !.state = "completed", !.timer = 0, !.manifest = TRUE]
          /\ artifacts' = [artifacts EXCEPT !.state = "committed"]
          /\ insertTerminalOutbox("ready")
      BY <1>4, <2>3 DEF Complete
    <3>2. /\ job' \in Job /\ job'.claim = job.claim /\ job'.attempts = job.attempts
          /\ job'.state = "completed"
      BY <3>1, TimerType DEF Job, JobStates
    <3>3. Held'
      BY <2>0, <2>1, <3>1, <3>2, OwnerSettles
    <3>4. artifacts' \in ArtifactSet /\ artifacts'.state = "committed"
      BY <1>0, <3>1 DEF TypeOK, ArtifactSet
    <3>5. /\ outbox' \in [1..3 -> {"none", "pending", "published"}]
          /\ outbox'[3] = "pending" /\ terminal' = "ready"
      BY <1>0, <1>2, <3>1 DEF TypeOK, insertTerminalOutbox
    <3>6. TypeOK'
      BY <1>0, <1>4, <2>1, <3>2, <3>3, <3>4, <3>5 DEF TypeOK, Held, SlotsTyped, DeadTyped,
         Complete
    <3>7. JobInv'
      BY <1>2, <3>1, <3>2, <3>4 DEF JobInv
    <3>8. TerminalEventAgrees'
      BY <3>2, <3>5 DEF TerminalEventAgrees
    <3> QED
      BY <3>3, <3>6, <3>7, <3>8 DEF LeaseInv, Held
  <2> QED
    BY <2>2, <2>3
<1>5. ASSUME Fail(s) PROVE LeaseInv'
  <2>0. slots[s].at \in Active
    BY <1>5 DEF Fail, Active
  <2>1. Settles(s) /\ DeadTyped'
    BY <1>1, <1>5, <2>0 DEF Fail
  <2>2. CASE ~OwnsClaim(s)
    <3>1. UNCHANGED <<job, outbox, terminal, artifacts>>
      BY <1>5, <2>2 DEF Fail
    <3>2. Held'
      BY <2>1, <3>1, LeaseSettled
    <3> QED
      BY <1>5, <2>1, <3>1, <3>2 DEF LeaseInv, TypeOK, JobInv, TerminalEventAgrees, Held,
         SlotsTyped, DeadTyped, Fail
  <2>3. CASE OwnsClaim(s)
    <3>1. /\ job' = [job EXCEPT !.state = "failed", !.timer = 0]
          /\ insertTerminalOutbox("failed")
          /\ artifacts' = IF artifacts.state = "committed" THEN artifacts
                          ELSE [artifacts EXCEPT !.scheduled = TRUE, !.cleanup = 0]
      BY <1>5, <2>3 DEF Fail
    <3>2. /\ job' \in Job /\ job'.claim = job.claim /\ job'.attempts = job.attempts
          /\ job'.state = "failed"
      BY <3>1, TimerType DEF Job, JobStates
    <3>3. Held'
      BY <2>0, <2>1, <2>3, <3>2, OwnerSettles
    <3>4. artifacts' \in ArtifactSet /\ artifacts'.state = artifacts.state
      BY <1>0, <3>1 DEF TypeOK, ArtifactSet
    <3>5. /\ outbox' \in [1..3 -> {"none", "pending", "published"}]
          /\ outbox'[3] = "pending" /\ terminal' = "failed"
      BY <1>0, <1>2, <2>3, <3>1 DEF TypeOK, insertTerminalOutbox
    <3>6. TypeOK'
      BY <1>0, <1>5, <2>1, <3>2, <3>3, <3>4, <3>5 DEF TypeOK, Held, SlotsTyped, DeadTyped,
         Fail
    <3>7. JobInv'
      BY <1>2, <2>3, <3>2, <3>4 DEF JobInv
    <3>8. TerminalEventAgrees'
      BY <3>2, <3>5 DEF TerminalEventAgrees
    <3> QED
      BY <3>3, <3>6, <3>7, <3>8 DEF LeaseInv, Held
  <2> QED
    BY <2>2, <2>3
<1>6. ASSUME Retry(s) PROVE LeaseInv'
  <2>0. slots[s].at \in Active
    BY <1>6 DEF Retry, Active
  <2>1. Settles(s) /\ DeadTyped'
    BY <1>1, <1>6, <2>0 DEF Retry
  <2>2. CASE ~OwnsClaim(s)
    <3>1. UNCHANGED <<job, dispatches>>
      BY <1>6, <2>2 DEF Retry
    <3>2. Held'
      BY <2>1, <3>1, LeaseSettled
    <3> QED
      BY <1>6, <2>1, <3>1, <3>2 DEF LeaseInv, TypeOK, JobInv, TerminalEventAgrees, Held,
         SlotsTyped, DeadTyped, Retry
  <2>3. CASE OwnsClaim(s)
    <3> DEFINE k == job.attempts
               d == Upsert(dispatches[k], 0, slots[s].delay)
    <3>1. /\ job' = [job EXCEPT !.state = "retrying", !.timer = slots[s].delay]
          /\ dispatches' = [dispatches EXCEPT ![k] = d]
      BY <1>6, <2>3 DEF Retry
    <3>2. slots[s].delay \in Nat
      BY <1>0 DEF TypeOK, Delivery
    <3>3. /\ job' \in Job /\ job'.claim = job.claim /\ job'.attempts = job.attempts
          /\ job'.state = "retrying"
      BY <3>1, <3>2, TimerType DEF Job, JobStates
    <3>4. Held'
      BY <2>0, <2>1, <2>3, <3>3, OwnerSettles
    <3>5. k \in Attempts => d \in Dispatch
      BY <1>0, <3>2, UpsertType DEF TypeOK
    <3> HIDE DEF k, d
    <3>6. dispatches' \in [Attempts -> Dispatch]
      BY <3>1, <3>5, DispatchTyped
    <3>7. TypeOK'
      BY <1>0, <1>6, <2>1, <3>3, <3>4, <3>6 DEF TypeOK, Held, SlotsTyped, DeadTyped, Retry
    <3>8. JobInv'
      BY <1>2, <1>6, <2>3, <3>3 DEF JobInv, Retry
    <3>9. TerminalEventAgrees'
      BY <1>2, <1>6, <2>3, <3>3 DEF TerminalEventAgrees, Retry
    <3> QED
      BY <3>4, <3>7, <3>8, <3>9 DEF LeaseInv, Held
  <2> QED
    BY <2>2, <2>3
<1> QED
  BY <1>3, <1>4, <1>5, <1>6

(* The worker writes, ends its work or gives up. *)
LEMMA WorkLease ==
    ASSUME LeaseInv, NEW s \in Slots
    PROVE  /\ WriteShards(s) => LeaseInv'
           /\ Finalize(s) => LeaseInv'
           /\ \A permanent, aborted \in BOOLEAN : FailWork(s, permanent, aborted) => LeaseInv'
<1>0. TypeOK /\ SlotsInv /\ ClaimsInv /\ JobInv /\ slots[s] \in Delivery
  BY DEF LeaseInv, TypeOK
<1>1. ASSUME WriteShards(s) PROVE LeaseInv'
  <2> DEFINE d == [slots[s] EXCEPT !.wrote = @ \cup {"shards"}]
  <2>1. slots[s].at = "working" /\ slots' = [slots EXCEPT ![s] = d] /\ UNCHANGED job
    BY <1>1 DEF WriteShards
  <2>2. /\ d \in Delivery /\ d.kind = slots[s].kind /\ d.claim = slots[s].claim
        /\ d.at = "working"
    BY <1>0, <2>1 DEF Delivery, Files
  <2> HIDE DEF d
  <2>3. Held'
    BY <1>0, <2>1, <2>2, WorkSlots
  <2>4. objects' \subseteq Files
    BY <1>0, <1>1 DEF WriteShards, TypeOK, Files
  <2> QED
    BY <1>1, <2>3, <2>4 DEF LeaseInv, TypeOK, JobInv, TerminalEventAgrees, Held, SlotsTyped,
       WriteShards
<1>2. ASSUME Finalize(s) PROVE LeaseInv'
  <2> DEFINE d == [slots[s] EXCEPT !.at = "persisting", !.outcome = "complete"]
  <2>1. slots[s].at = "working" /\ slots' = [slots EXCEPT ![s] = d] /\ UNCHANGED job
    BY <1>2 DEF Finalize
  <2>2. /\ d \in Delivery /\ d.kind = slots[s].kind /\ d.claim = slots[s].claim
        /\ d.at = "persisting"
    BY <1>0, <2>1 DEF Delivery
  <2> HIDE DEF d
  <2>3. Held'
    BY <1>0, <2>1, <2>2, WorkSlots
  <2>4. objects' \subseteq Files
    BY <1>0, <1>2 DEF Finalize, TypeOK, Files
  <2> QED
    BY <1>2, <2>3, <2>4 DEF LeaseInv, TypeOK, JobInv, TerminalEventAgrees, Held, SlotsTyped,
       Finalize
<1>3. ASSUME NEW permanent \in BOOLEAN, NEW aborted \in BOOLEAN,
             FailWork(s, permanent, aborted)
      PROVE  LeaseInv'
  <2> DEFINE retry == ~permanent /\ job.attempts < MaxAttempts
             delay == IF retry THEN retryDelay(job.attempts) ELSE 0
             outcome == IF retry THEN "retry" ELSE "fail"
             d == [slots[s] EXCEPT !.at = "persisting", !.wrote = {}, !.outcome = outcome,
                                   !.delay = delay]
  <2>1. slots[s].at = "working" /\ slots' = [slots EXCEPT ![s] = d] /\ UNCHANGED job
    BY <1>3 DEF FailWork
  <2>2. job.state = "processing"
    BY <1>0, <2>1 DEF SlotsInv, OwnsClaim
  <2>3. delay \in Nat
    BY <1>0, <2>2, TimerType, RetryDelays DEF JobInv
  <2>4. outcome \in {"retry", "fail"}
    OBVIOUS
  <2> HIDE DEF delay, outcome
  <2>5. /\ d \in Delivery /\ d.kind = slots[s].kind /\ d.claim = slots[s].claim
        /\ d.at = "persisting"
    BY <1>0, <2>1, <2>3, <2>4 DEF Delivery
  <2> HIDE DEF d
  <2>6. Held'
    BY <1>0, <2>1, <2>5, WorkSlots
  <2>7. objects' \subseteq Files
    BY <1>0, <1>3 DEF FailWork, TypeOK
  <2> QED
    BY <1>3, <2>6, <2>7 DEF LeaseInv, TypeOK, JobInv, TerminalEventAgrees, Held, SlotsTyped,
       FailWork
<1> QED
  BY <1>1, <1>2, <1>3

LEMMA FaultType ==
    ASSUME TypeOK, Fault
    PROVE  faults' \in 0..MaxFaults
  BY IngestionAssumption DEF TypeOK, Fault

(* The broker and the outbox worker bring deliveries, or bring them again. *)
LEMMA BrokerLease ==
    ASSUME LeaseInv, NEW s \in Slots
    PROVE  /\ Crash(s) => LeaseInv'
           /\ PersistenceFails(s) => LeaseInv'
           /\ \A kind \in {"upload", "deletion"} : Duplicate(s, kind) => LeaseInv'
           /\ \A k \in Attempts : PublishDispatch(k, s) => LeaseInv'
<1>0. TypeOK /\ SlotsInv /\ slots[s] \in Delivery
  BY DEF LeaseInv, TypeOK
<1>1. ASSUME Crash(s) PROVE LeaseInv'
  <2> DEFINE m == Message(slots[s].kind, 0)
             again == [m EXCEPT !.header = slots[s].header,
                                !.redelivered = slots[s].redelivered + 1]
  <2>1. slots[s].kind \in MessageKinds
    BY <1>0, <1>1 DEF Crash, SlotsInv, Delivery
  <2>2. /\ m \in Delivery /\ m.at = "queued" /\ m.kind # "none" /\ m.wrote = {}
    BY <2>1, MessageType
  <2> HIDE DEF m
  <2>3. slots[s].header \in Nat /\ slots[s].redelivered + 1 \in Nat
    BY <1>0 DEF Delivery
  <2>4. /\ again \in Delivery /\ again.at = "queued" /\ again.kind # "none"
        /\ again.wrote = {}
    BY <2>2, <2>3 DEF Delivery
  <2>5. slots' = [slots EXCEPT ![s] = again]
    BY <1>1 DEF Crash, m
  <2> HIDE DEF again
  <2>6. Settles(s)
    BY <2>4, <2>5 DEF Settles
  <2>7. Held'
    BY <1>1, <2>6, LeaseSettled DEF Crash
  <2>8. faults' \in 0..MaxFaults
    BY <1>0, <1>1, FaultType DEF Crash
  <2> QED
    BY <1>1, <2>7, <2>8 DEF LeaseInv, TypeOK, JobInv, TerminalEventAgrees, Held, SlotsTyped,
       Crash
<1>2. ASSUME PersistenceFails(s) PROVE LeaseInv'
  <2>1. Settles(s) /\ DeadTyped'
    BY <1>0, <1>2, SettleEffect DEF PersistenceFails
  <2>2. Held'
    BY <1>2, <2>1, LeaseSettled DEF PersistenceFails
  <2>3. faults' \in 0..MaxFaults
    BY <1>0, <1>2, FaultType DEF PersistenceFails
  <2> QED
    BY <1>2, <2>1, <2>2, <2>3 DEF LeaseInv, TypeOK, JobInv, TerminalEventAgrees, Held,
       SlotsTyped, DeadTyped, PersistenceFails
<1>3. ASSUME NEW kind \in {"upload", "deletion"}, Duplicate(s, kind) PROVE LeaseInv'
  <2>1. Settles(s)
    BY <1>3, MessageEffect DEF Duplicate, MessageKinds
  <2>2. Held'
    BY <1>3, <2>1, LeaseSettled DEF Duplicate
  <2>3. faults' \in 0..MaxFaults
    BY <1>0, <1>3, FaultType DEF Duplicate
  <2> QED
    BY <1>3, <2>2, <2>3 DEF LeaseInv, TypeOK, JobInv, TerminalEventAgrees, Held, SlotsTyped,
       Duplicate
<1>4. ASSUME NEW k \in Attempts, PublishDispatch(k, s) PROVE LeaseInv'
  <2>1. dispatches[k] \in Dispatch
    BY <1>0 DEF TypeOK
  <2>2. dispatches[k].after \in Nat
    BY <2>1 DEF Dispatch
  <2>3. Settles(s)
    BY <1>4, <2>2, RetryDelays, MessageEffect DEF PublishDispatch, MessageKinds
  <2>4. Held'
    BY <1>4, <2>3, LeaseSettled DEF PublishDispatch
  <2>5. dispatches' \in [Attempts -> Dispatch]
    <3> DEFINE d == [dispatches[k] EXCEPT !.status = "sent"]
    <3>1. d \in Dispatch
      BY <2>1 DEF Dispatch
    <3>2. dispatches' = [dispatches EXCEPT ![k] = d]
      BY <1>4 DEF PublishDispatch
    <3> QED
      BY <3>1, <3>2, DispatchTyped
  <2> QED
    BY <1>4, <2>4, <2>5 DEF LeaseInv, TypeOK, JobInv, TerminalEventAgrees, Held, SlotsTyped,
       PublishDispatch
<1> QED
  BY <1>1, <1>2, <1>3, <1>4

(* Marks of the outbox worker: the deliveries and the job stay as they are. *)
LEMMA OutboxLease ==
    ASSUME LeaseInv
    PROVE  /\ \A i \in 1..3 : PublishOutbox(i) => LeaseInv'
           /\ \A k \in Attempts : MarkRetryPublished(k) \/ LoseMark(k) \/ RetryRetryDispatch(k)
                  => LeaseInv'
<1>0. TypeOK /\ SlotsInv /\ ClaimsInv
  BY DEF LeaseInv
<1>1. UNCHANGED <<slots, job>> => Held'
  BY <1>0, HeldSame
<1>2. ASSUME NEW i \in 1..3, PublishOutbox(i) PROVE LeaseInv'
  <2>1. Held'
    BY <1>1, <1>2 DEF PublishOutbox
  <2>2. /\ outbox' \in [1..3 -> {"none", "pending", "published"}]
        /\ outbox'[3] = "none" <=> outbox[3] = "none"
    BY <1>0, <1>2 DEF TypeOK, PublishOutbox
  <2> QED
    BY <1>2, <2>1, <2>2 DEF LeaseInv, TypeOK, JobInv, TerminalEventAgrees, Held, SlotsTyped,
       PublishOutbox
<1>3. ASSUME NEW k \in Attempts, NEW d \in Dispatch,
             dispatches' = [dispatches EXCEPT ![k] = d],
             UNCHANGED <<fence, job, stored, outbox, terminal, artifacts, objects, deletion,
                         slots, cleaner, completions, dead>>,
             faults' \in 0..MaxFaults
      PROVE  LeaseInv'
  <2>1. Held'
    BY <1>1, <1>3
  <2>2. dispatches' \in [Attempts -> Dispatch]
    BY <1>3, DispatchTyped
  <2> QED
    BY <1>3, <2>1, <2>2 DEF LeaseInv, TypeOK, JobInv, TerminalEventAgrees, Held, SlotsTyped
<1>4. ASSUME NEW k \in Attempts, MarkRetryPublished(k) PROVE LeaseInv'
  <2> DEFINE d == [NoDispatch EXCEPT !.status = "published"]
  <2>1. d \in Dispatch
    BY DEF NoDispatch, Dispatch
  <2>2. dispatches' = [dispatches EXCEPT ![k] = d]
    BY <1>4 DEF MarkRetryPublished
  <2> HIDE DEF d
  <2> QED
    BY <1>0, <1>3, <1>4, <2>1, <2>2 DEF MarkRetryPublished, TypeOK
<1>5. ASSUME NEW k \in Attempts, LoseMark(k) PROVE LeaseInv'
  <2> DEFINE d == [dispatches[k] EXCEPT !.status = "pending"]
  <2>1. d \in Dispatch
    BY <1>0 DEF TypeOK, Dispatch
  <2>2. dispatches' = [dispatches EXCEPT ![k] = d] /\ faults' \in 0..MaxFaults
    BY <1>0, <1>5, FaultType DEF LoseMark
  <2> HIDE DEF d
  <2> QED
    BY <1>3, <1>5, <2>1, <2>2 DEF LoseMark
<1>6. ASSUME NEW k \in Attempts, RetryRetryDispatch(k) PROVE LeaseInv'
  <2> DEFINE d == [dispatches[k] EXCEPT !.next = 1]
  <2>1. d \in Dispatch
    BY <1>0 DEF TypeOK, Dispatch
  <2>2. dispatches' = [dispatches EXCEPT ![k] = d] /\ faults' \in 0..MaxFaults
    BY <1>0, <1>6, FaultType DEF RetryRetryDispatch
  <2> HIDE DEF d
  <2> QED
    BY <1>3, <1>6, <2>1, <2>2 DEF RetryRetryDispatch
<1> QED
  BY <1>2, <1>4, <1>5, <1>6

(* The cleaner touches the artifact row, the objects and the manifest. *)
LEMMA CleanerLease ==
    ASSUME LeaseInv
    PROVE  /\ Clean => LeaseInv'
           /\ \A pass \in {"orphan", "deletion"}, r \in BOOLEAN : CleanerStops(pass, r)
                  => LeaseInv'
<1>0. TypeOK /\ SlotsInv /\ ClaimsInv
  BY DEF LeaseInv
<1>1. ASSUME UNCHANGED <<fence, stored, dispatches, outbox, terminal, slots, completions,
                         dead>>,
             job' \in Job, job'.state = job.state, job'.claim = job.claim,
             job'.timer = job.timer, job'.attempts = job.attempts,
             artifacts' \in ArtifactSet, artifacts'.state = artifacts.state,
             objects' \subseteq Files,
             deletion' \in {"none", "requested", "pending", "acknowledged"},
             cleaner' \in [{"orphan", "deletion"} -> {"idle", "claimed", "deleted"}],
             faults' \in 0..MaxFaults
      PROVE  LeaseInv'
  <2>1. Held'
    BY <1>0, <1>1, HeldSame
  <2> QED
    BY <1>1, <2>1 DEF LeaseInv, TypeOK, JobInv, TerminalEventAgrees, Held, SlotsTyped
<1>2. ASSUME NEW pass \in {"orphan", "deletion"}, ClaimCleanup(pass) PROVE LeaseInv'
  BY <1>0, <1>1, <1>2 DEF ClaimCleanup, TypeOK
<1>3. ASSUME NEW pass \in {"orphan", "deletion"}, DeletePrefix(pass) PROVE LeaseInv'
  BY <1>0, <1>1, <1>3 DEF DeletePrefix, TypeOK
<1>4. ASSUME CompleteOrphanCleanup PROVE LeaseInv'
  <2>1. artifacts' \in ArtifactSet /\ artifacts'.state = artifacts.state
    BY <1>0, <1>4 DEF CompleteOrphanCleanup, TypeOK, ArtifactSet
  <2> QED
    BY <1>0, <1>1, <1>4, <2>1 DEF CompleteOrphanCleanup, TypeOK
<1>5. ASSUME CompleteDeletionArtifact PROVE LeaseInv'
  <2>1. artifacts' \in ArtifactSet /\ artifacts'.state = artifacts.state
    BY <1>0, <1>5 DEF CompleteDeletionArtifact, TypeOK, ArtifactSet
  <2>2. /\ job' \in Job /\ job'.state = job.state /\ job'.claim = job.claim
        /\ job'.timer = job.timer /\ job'.attempts = job.attempts
    BY <1>0, <1>5 DEF CompleteDeletionArtifact, TypeOK, Job
  <2> QED
    BY <1>0, <1>1, <1>5, <2>1, <2>2 DEF CompleteDeletionArtifact, TypeOK
<1>6. ASSUME NEW pass \in {"orphan", "deletion"}, NEW r \in BOOLEAN, CleanerStops(pass, r)
      PROVE  LeaseInv'
  <2>1. artifacts' \in ArtifactSet /\ artifacts'.state = artifacts.state
    BY <1>0, <1>6 DEF CleanerStops, TypeOK, ArtifactSet
  <2>2. faults' \in 0..MaxFaults
    BY <1>0, <1>6, FaultType DEF CleanerStops
  <2> QED
    BY <1>0, <1>1, <1>6, <2>1, <2>2 DEF CleanerStops, TypeOK
<1> QED
  BY <1>2, <1>3, <1>4, <1>5, <1>6 DEF Clean

(* Time passes: at the end of a lease nobody works. *)
LEMMA AdvanceTyped ==
    ASSUME TypeOK, Advance, faults' \in 0..MaxFaults, SlotsTyped', job' \in Job
    PROVE  TypeOK' /\ artifacts'.state = artifacts.state
<1>1. ASSUME NEW k \in Attempts
      PROVE  [dispatches[k] EXCEPT !.next = Dec(@), !.after = Dec(@)] \in Dispatch
  <2>1. dispatches[k] \in Dispatch
    BY DEF TypeOK
  <2>2. Dec(dispatches[k].next) \in Nat /\ Dec(dispatches[k].after) \in Nat
    BY <2>1, DecType DEF Dispatch
  <2> QED
    BY <2>1, <2>2 DEF Dispatch
<1>2. dispatches' \in [Attempts -> Dispatch]
  BY <1>1 DEF Advance
<1>3. artifacts' \in ArtifactSet /\ artifacts'.state = artifacts.state
  <2>1. artifacts \in ArtifactSet /\ artifacts.cleanup \in Nat
    BY DEF TypeOK, ArtifactSet
  <2>2. Dec(artifacts.cleanup) \in Nat
    BY <2>1, DecType
  <2> QED
    BY <2>1, <2>2 DEF Advance, ArtifactSet
<1> QED
  BY <1>2, <1>3 DEF TypeOK, Advance, SlotsTyped

LEMMA ClockLease ==
    ASSUME LeaseInv
    PROVE  Tick \/ LateTick => LeaseInv'
<1>0. TypeOK /\ SlotsInv /\ ClaimsInv
  BY DEF LeaseInv
<1>1. ASSUME Tick \/ LateTick PROVE LeaseInv'
  <2>1. Advance /\ faults' \in 0..MaxFaults
    BY <1>0, <1>1, FaultType DEF Tick, LateTick, TypeOK
  <2>2. \A t \in Slots : slots[t].at = "working" => job.timer # 1
    BY <1>0, <1>1 DEF Tick, LateTick, LeaseEnds, Holds, SlotsInv, OwnsClaim
  <2>3. Held' /\ job' \in Job
    BY <1>0, <2>1, <2>2, AdvanceSlots
  <2>4. TypeOK' /\ artifacts'.state = artifacts.state
    BY <1>0, <2>1, <2>3, AdvanceTyped DEF Held
  <2>5. job'.state = job.state /\ job'.attempts = job.attempts /\ job'.claim = job.claim
    BY <2>1, TimerType DEF Advance, Job
  <2> QED
    BY <2>1, <2>3, <2>4, <2>5 DEF LeaseInv, JobInv, TerminalEventAgrees, Held, Advance
<1> QED
  BY <1>1

LEMMA InitLease ==
    Init => LeaseInv
<1> SUFFICES ASSUME Init PROVE LeaseInv
  OBVIOUS
<1>1. PICK s \in Slots : slots = [t \in Slots |-> IF t = s THEN Message("upload", 0) ELSE Free]
  BY DEF Init
<1>2. /\ Message("upload", 0) \in Delivery /\ Message("upload", 0).at = "queued"
      /\ Message("upload", 0).kind # "none" /\ Message("upload", 0).wrote = {}
  BY MessageType DEF MessageKinds
<1>3. \A t \in Slots : /\ slots[t] \in Delivery /\ slots[t].at \in {"queued", "free"}
                       /\ slots[t].kind = "none" <=> slots[t].at = "free"
                       /\ slots[t].wrote = {}
  BY <1>1, <1>2, FreeType
<1>4. slots \in [Slots -> Delivery]
  BY <1>1, <1>2, FreeType
<1>5. job \in Job /\ job.state = "absent" /\ job.attempts = 0 /\ job.claim = 0
  BY DEF Init, Job, JobStates
<1>6. dispatches \in [Attempts -> Dispatch]
  BY DEF Init, NoDispatch, Dispatch
<1>7. artifacts \in ArtifactSet /\ artifacts.state = "none"
  BY DEF Init, ArtifactSet
<1>8. TypeOK
  <2>1. completions \in 0..MaxCompletions /\ faults \in 0..MaxFaults
    BY IngestionAssumption DEF Init
  <2>2. /\ outbox \in [1..3 -> {"none", "pending", "published"}]
        /\ cleaner \in [{"orphan", "deletion"} -> {"idle", "claimed", "deleted"}]
    BY DEF Init
  <2>3. /\ fence \in {"none", "live", "deleted"} /\ stored \in BOOLEAN
        /\ terminal \in {"none", "ready", "failed"} /\ objects \subseteq Files
        /\ deletion \in {"none", "requested", "pending", "acknowledged"}
        /\ dead \subseteq MessageKinds \X {"rejected", "exhausted"}
    BY DEF Init
  <2> QED
    BY <1>4, <1>5, <1>6, <1>7, <2>1, <2>2, <2>3 DEF TypeOK
<1>9. SlotsInv /\ ClaimsInv
  BY <1>3 DEF SlotsInv, ClaimsInv, Active
<1> QED
  BY <1>5, <1>7, <1>8, <1>9 DEF LeaseInv, JobInv, TerminalEventAgrees, Init

LEMMA LeaseStep ==
    ASSUME LeaseInv, [Next]_vars
    PROVE  LeaseInv'
<1>1. ASSUME NEW s \in Slots, Handle(s) PROVE LeaseInv'
  BY <1>1, DeliveryLease, ClaimLease, TransactionLease, WorkLease DEF Handle
<1>2. ASSUME NEW s \in Slots, LayoutCompletes(s) \/ RequestDeletion(s) PROVE LeaseInv'
  BY <1>2, DeliveryLease
<1>3. ASSUME Clean PROVE LeaseInv'
  BY <1>3, CleanerLease
<1>4. ASSUME Publish PROVE LeaseInv'
  BY <1>4, OutboxLease, BrokerLease DEF Publish
<1>5. ASSUME Faulty PROVE LeaseInv'
  BY <1>5, OutboxLease, BrokerLease, CleanerLease DEF Faulty
<1>6. ASSUME Tick \/ LateTick PROVE LeaseInv'
  BY <1>6, ClockLease
<1>7. ASSUME UNCHANGED vars PROVE LeaseInv'
  <2>1. Held'
    BY <1>7, HeldSame DEF LeaseInv, vars
  <2> QED
    BY <1>7, <2>1 DEF LeaseInv, TypeOK, JobInv, TerminalEventAgrees, Held, vars
<1> QED
  BY <1>1, <1>2, <1>3, <1>4, <1>5, <1>6, <1>7 DEF Next

-----------------------------------------------------------------------------
(* The history watches the steps *)

LEMMA ModelStep ==
    ASSUME [Next /\ Remember]_<<vars, history>>
    PROVE  [Next]_vars
  OBVIOUS

LEMMA InitHistory == HistoryInit => HistoryOK
  BY DEF HistoryInit, HistoryOK

LEMMA HistoryStep ==
    ASSUME HistoryOK, [Next /\ Remember]_<<vars, history>>
    PROVE  HistoryOK'
<1>1. ASSUME Remember PROVE HistoryOK'
  BY <1>1 DEF HistoryOK, Remember, Overtakes
<1>2. ASSUME UNCHANGED history PROVE HistoryOK'
  BY <1>2 DEF HistoryOK, history
<1> QED
  BY <1>1, <1>2

(* Nothing undoes what hastened the cleaner. *)
LEMMA HastenedStays ==
    ASSUME hastened, [Next /\ Remember]_<<vars, history>>
    PROVE  hastened'
<1>1. ASSUME Remember PROVE hastened'
  BY <1>1 DEF Remember
<1>2. ASSUME UNCHANGED history PROVE hastened'
  BY <1>2 DEF history
<1> QED
  BY <1>1, <1>2

(***************************************************************************)
(* However the deliveries, recoveries, crashes and late transactions of an *)
(* upload interleave, at most one handler works on it, with the current    *)
(* claim, and the terminal event is the outcome of the job.                *)
(***************************************************************************)
THEOREM LeaseHeld == Spec => []LeaseExclusive
<1>1. LeaseInv /\ HistoryOK => LeaseExclusive
  <2> SUFFICES ASSUME LeaseInv PROVE OneWorker
    BY DEF LeaseInv, LeaseExclusive
  <2> SUFFICES ASSUME NEW s \in Slots, slots[s].at = "working"
               PROVE  OwnsClaim(s) /\ \A t \in Slots \ {s} : slots[t].at # "working"
    BY DEF OneWorker
  <2>1. OwnsClaim(s) /\ slots[s].at \in Active /\ SlotsInv /\ ClaimsInv
    BY DEF LeaseInv, SlotsInv, Active
  <2> QED
    BY <2>1, OwnerAlone
<1>2. Init /\ HistoryInit => LeaseInv /\ HistoryOK
  BY InitLease, InitHistory
<1>3. LeaseInv /\ HistoryOK /\ [Next /\ Remember]_<<vars, history>> => (LeaseInv /\ HistoryOK)'
  BY ModelStep, LeaseStep, HistoryStep
<1> QED
  BY <1>1, <1>2, <1>3, PTL DEF Spec

-----------------------------------------------------------------------------
(* Steps that leave the work alone *)

(* Slot t is free or waits in the broker, or its handler is where it was. *)
SlotKept(t) ==
    \/ slots'[t].at \in {"free", "queued"}
    \/ /\ slots'[t].at = slots[t].at /\ slots'[t].claim = slots[t].claim
       /\ slots'[t].wrote = slots[t].wrote /\ slots'[t].outcome = slots[t].outcome

(* Deliveries come and go; the job, the artifacts and the cleaner stay. *)
Quiet ==
    /\ \A t \in Slots : SlotKept(t)
    /\ UNCHANGED <<fence, stored, artifacts, objects, cleaner>>
    /\ job'.state = job.state /\ job'.claim = job.claim /\ job'.timer = job.timer
    /\ outbox'[2] = "none" => outbox[2] = "none"
    /\ deletion' = deletion \/ (deletion = "none" /\ deletion' = "requested")

LEMMA SettlesKeep ==
    ASSUME TypeOK, NEW s \in Slots, Settles(s)
    PROVE  /\ \A t \in Slots : SlotKept(t)
           /\ slots'[s].at \in {"free", "queued"}
           /\ \A t \in Slots \ {s} : slots'[t] = slots[t]
<1>1. PICK d \in Delivery :
          d.at \in {"free", "queued"} /\ slots' = [slots EXCEPT ![s] = d]
  BY DEF Settles
<1>2. slots'[s] = d /\ \A t \in Slots : t # s => slots'[t] = slots[t]
  BY <1>1 DEF TypeOK
<1> QED
  BY <1>1, <1>2 DEF SlotKept

LEMMA SameKeep ==
    ASSUME UNCHANGED slots
    PROVE  \A t \in Slots : SlotKept(t)
  BY DEF SlotKept

LEMMA QuietDeliveries ==
    ASSUME LeaseInv, NEW s \in Slots
    PROVE  /\ AcceptFenced(s) => Quiet
           /\ AcceptDeferred(s) => Quiet
           /\ ConflictingSelection(s) => Quiet
           /\ SettleSelection(s) => Quiet
           /\ LayoutCompletes(s) => Quiet
           /\ RequestDeletion(s) => Quiet
           /\ AcceptDeletion(s) /\ deletion # "requested" => Quiet
<1>0. TypeOK /\ SlotsInv
  BY DEF LeaseInv
<1>1. ASSUME AcceptFenced(s) PROVE Quiet
  <2>1. Settles(s)
    BY <1>0, <1>1, SettleEffect DEF AcceptFenced
  <2> QED
    BY <1>0, <1>1, <2>1, SettlesKeep DEF Quiet, AcceptFenced
<1>2. ASSUME AcceptDeferred(s) PROVE Quiet
  <2>1. Settles(s)
    BY <1>0, <1>2, SettleEffect DEF AcceptDeferred
  <2> QED
    BY <1>0, <1>2, <2>1, SettlesKeep DEF Quiet, AcceptDeferred
<1>3. ASSUME ConflictingSelection(s) PROVE Quiet
  <2>1. Settles(s)
    BY <1>0, <1>3, SettleEffect DEF ConflictingSelection, Delivered
  <2> QED
    BY <1>0, <1>3, <2>1, SettlesKeep DEF Quiet, ConflictingSelection
<1>4. ASSUME SettleSelection(s) PROVE Quiet
  <2>1. Settles(s)
    BY <1>0, <1>4, SettleEffect DEF SettleSelection, Delivered
  <2> QED
    BY <1>0, <1>4, <2>1, SettlesKeep DEF Quiet, SettleSelection
<1>5. ASSUME LayoutCompletes(s) PROVE Quiet
  <2>1. Settles(s)
    BY <1>5, MessageEffect DEF LayoutCompletes, MessageKinds
  <2> QED
    BY <1>0, <1>5, <2>1, SettlesKeep DEF Quiet, LayoutCompletes
<1>6. ASSUME RequestDeletion(s) PROVE Quiet
  <2>1. Settles(s)
    BY <1>6, MessageEffect DEF RequestDeletion, MessageKinds
  <2> QED
    BY <1>0, <1>6, <2>1, SettlesKeep DEF Quiet, RequestDeletion
<1>7. ASSUME AcceptDeletion(s), deletion # "requested" PROVE Quiet
  <2>1. Settles(s)
    BY <1>0, <1>7, SettleEffect DEF AcceptDeletion
  <2> QED
    BY <1>0, <1>7, <2>1, SettlesKeep DEF Quiet, AcceptDeletion
<1> QED
  BY <1>1, <1>2, <1>3, <1>4, <1>5, <1>6, <1>7

(* A transaction of a handler that lost its claim changes nothing either. *)
LEMMA QuietTransactions ==
    ASSUME LeaseInv, NEW s \in Slots
    PROVE  /\ AwaitSelection(s) => \/ Quiet
                                   \/ /\ OwnsClaim(s) /\ outbox[2] = "none" /\ Settles(s)
                                      /\ outbox'[2] = "pending"
                                      /\ job' = [job EXCEPT !.state = "awaiting_selection",
                                                            !.timer = Wait]
           /\ Complete(s) /\ ~Fenced /\ ~OwnsClaim(s) => Quiet
           /\ Fail(s) /\ ~OwnsClaim(s) => Quiet
           /\ Retry(s) /\ ~OwnsClaim(s) => Quiet
           /\ Complete(s) \/ Fail(s) \/ Retry(s) => Settles(s)
<1>0. TypeOK /\ SlotsInv
  BY DEF LeaseInv
<1>1. ASSUME slots[s].at \in Active, Acknowledge(s) \/ Reject(s) \/ Requeue(s)
      PROVE  Settles(s)
  BY <1>0, <1>1, SettleEffect DEF Active
<1>2. ASSUME AwaitSelection(s)
      PROVE  \/ Quiet
             \/ /\ OwnsClaim(s) /\ outbox[2] = "none" /\ Settles(s) /\ outbox'[2] = "pending"
                /\ job' = [job EXCEPT !.state = "awaiting_selection", !.timer = Wait]
  <2>1. Settles(s)
    BY <1>1, <1>2 DEF AwaitSelection, Active
  <2>2. CASE UNCHANGED <<job, outbox, dispatches>>
    BY <1>0, <1>2, <2>1, <2>2, SettlesKeep DEF Quiet, AwaitSelection
  <2>3. CASE ~UNCHANGED <<job, outbox, dispatches>>
    BY <1>0, <1>2, <2>1, <2>3 DEF AwaitSelection, TypeOK
  <2> QED
    BY <2>2, <2>3
<1>3. Complete(s) \/ Fail(s) \/ Retry(s) => Settles(s)
  BY <1>1 DEF Complete, Fail, Retry, Active
<1>4. Complete(s) /\ ~Fenced /\ ~OwnsClaim(s) => Quiet
  BY <1>0, <1>3, SettlesKeep DEF Quiet, Complete
<1>5. Fail(s) /\ ~OwnsClaim(s) => Quiet
  BY <1>0, <1>3, SettlesKeep DEF Quiet, Fail
<1>6. Retry(s) /\ ~OwnsClaim(s) => Quiet
  BY <1>0, <1>3, SettlesKeep DEF Quiet, Retry
<1> QED
  BY <1>2, <1>3, <1>4, <1>5, <1>6

LEMMA QuietWorld ==
    ASSUME LeaseInv
    PROVE  /\ Publish => Quiet
           /\ Faulty => Quiet \/ \E pass \in {"orphan", "deletion"}, r \in BOOLEAN :
                                     CleanerStops(pass, r)
           /\ UNCHANGED vars => Quiet
<1>0. TypeOK /\ SlotsInv
  BY DEF LeaseInv
<1>1. ASSUME NEW i \in 1..3, PublishOutbox(i) PROVE Quiet
  <2>1. outbox'[2] = "none" => outbox[2] = "none"
    BY <1>0, <1>1 DEF PublishOutbox, TypeOK
  <2> QED
    BY <1>1, <2>1, SameKeep DEF Quiet, PublishOutbox
<1>2. ASSUME NEW k \in Attempts, NEW s \in Slots, PublishDispatch(k, s) PROVE Quiet
  <2>1. dispatches[k].after \in Nat
    BY <1>0 DEF TypeOK, Dispatch
  <2>2. Settles(s)
    BY <1>2, <2>1, RetryDelays, MessageEffect DEF PublishDispatch, MessageKinds
  <2> QED
    BY <1>0, <1>2, <2>2, SettlesKeep DEF Quiet, PublishDispatch
<1>3. ASSUME NEW k \in Attempts, MarkRetryPublished(k) \/ LoseMark(k) \/ RetryRetryDispatch(k)
      PROVE  Quiet
  BY <1>3, SameKeep DEF Quiet, MarkRetryPublished, LoseMark, RetryRetryDispatch
<1>4. ASSUME NEW s \in Slots, Crash(s) PROVE Quiet
  <2> DEFINE m == Message(slots[s].kind, 0)
             again == [m EXCEPT !.header = slots[s].header,
                                !.redelivered = slots[s].redelivered + 1]
  <2>1. again.at = "queued"
    BY DEF Message, Free
  <2>2. slots' = [slots EXCEPT ![s] = again]
    BY <1>4 DEF Crash
  <2> HIDE DEF again
  <2>3. \A t \in Slots : SlotKept(t)
    BY <1>0, <2>1, <2>2 DEF SlotKept, TypeOK
  <2> QED
    BY <1>4, <2>3 DEF Quiet, Crash
<1>5. ASSUME NEW s \in Slots, PersistenceFails(s) PROVE Quiet
  <2>1. Settles(s)
    BY <1>0, <1>5, SettleEffect DEF PersistenceFails
  <2> QED
    BY <1>0, <1>5, <2>1, SettlesKeep DEF Quiet, PersistenceFails
<1>6. ASSUME NEW s \in Slots, NEW kind \in {"upload", "deletion"}, Duplicate(s, kind)
      PROVE  Quiet
  <2>1. Settles(s)
    BY <1>6, MessageEffect DEF Duplicate, MessageKinds
  <2> QED
    BY <1>0, <1>6, <2>1, SettlesKeep DEF Quiet, Duplicate
<1>7. UNCHANGED vars => Quiet
  BY SameKeep DEF Quiet, vars
<1> QED
  BY <1>1, <1>2, <1>3, <1>4, <1>5, <1>6, <1>7 DEF Publish, Faulty

(***************************************************************************)
(* A step of Ingestion is quiet, or one of the steps that matter to the    *)
(* work and its artifacts.                                                 *)
(***************************************************************************)
Claims(s) ==
    AcceptNew(s) \/ AcceptReclaim(s) \/ ResumeAfterSelection(s) \/ ReclaimSelected(s)

Works(s) ==
    \/ WriteShards(s) \/ Finalize(s)
    \/ \E permanent, aborted \in BOOLEAN : FailWork(s, permanent, aborted)

OwnAwait(s) ==
    /\ AwaitSelection(s) /\ OwnsClaim(s) /\ outbox[2] = "none" /\ outbox'[2] = "pending"
    /\ job' = [job EXCEPT !.state = "awaiting_selection", !.timer = Wait]

Commits(s) ==
    \/ OwnAwait(s)
    \/ Complete(s) /\ (Fenced \/ OwnsClaim(s))
    \/ Fail(s) /\ OwnsClaim(s)
    \/ Retry(s) /\ OwnsClaim(s)

Cleans ==
    Clean \/ \E pass \in {"orphan", "deletion"}, r \in BOOLEAN : CleanerStops(pass, r)

LEMMA StepKinds ==
    ASSUME LeaseInv, [Next]_vars
    PROVE  \/ Quiet \/ Cleans \/ Tick \/ LateTick
           \/ \E s \in Slots : Claims(s) \/ Works(s) \/ (Commits(s) /\ Settles(s))
           \/ \E s \in Slots : AcceptDeletion(s) /\ deletion = "requested" /\ Settles(s)
<1>0. TypeOK /\ SlotsInv
  BY DEF LeaseInv
<1>1. ASSUME NEW s \in Slots, Handle(s)
      PROVE  \/ Quiet \/ Claims(s) \/ Works(s) \/ (Commits(s) /\ Settles(s))
             \/ AcceptDeletion(s) /\ deletion = "requested" /\ Settles(s)
  <2>1. AcceptDeletion(s) => Settles(s)
    BY <1>0, SettleEffect DEF AcceptDeletion
  <2> QED
    BY <1>1, <2>1, QuietDeliveries, QuietTransactions
       DEF Handle, Claims, Works, Commits, OwnAwait
<1>2. ASSUME NEW s \in Slots, LayoutCompletes(s) \/ RequestDeletion(s) PROVE Quiet
  BY <1>2, QuietDeliveries
<1> QED
  BY <1>1, <1>2, QuietWorld DEF Next, Cleans

(***************************************************************************)
(* The effect of each kind of step on the slots and the job.               *)
(***************************************************************************)
LEMMA ClaimEffect ==
    ASSUME LeaseInv, NEW s \in Slots, Claims(s)
    PROVE  /\ \A t \in Slots \ {s} : slots'[t] = slots[t]
           /\ slots'[s].at \in {"working", "requesting"} /\ slots'[s].wrote = {}
           /\ slots'[s].claim = job'.claim
           /\ job'.state = "processing" /\ job'.claim > job.claim /\ job'.timer = Lease
           /\ job.state \in {"absent", "awaiting_selection"} \/ job.timer = 0
           /\ job.state \notin terminalState
           /\ fence # "deleted" /\ fence' # "deleted"
           /\ artifacts'.scheduled = artifacts.scheduled
           /\ artifacts'.deletion = artifacts.deletion
           /\ UNCHANGED <<objects, cleaner, deletion>>
<1>0. slots \in [Slots -> Delivery] /\ slots[s] \in Delivery
  BY DEF LeaseInv, TypeOK
<1>1. /\ Delivered(s, "upload") \/ Delivered(s, "selection")
      /\ \E a \in Nat : job' = Claimed(a)
      /\ \E at \in {"working", "requesting"} : Handling(s, at, job.claim + 1)
  <2>1. \A fallback : AfterClaim(fallback) \in {"working", "requesting"}
    BY DEF AfterClaim
  <2>2. job.attempts + 1 \in Nat /\ job.attempts \in Nat
    BY TimerType
  <2> QED
    BY <2>1, <2>2
       DEF Claims, AcceptNew, AcceptReclaim, ResumeAfterSelection, ReclaimSelected
<1>2. job'.state = "processing" /\ job'.claim = job.claim + 1 /\ job'.timer = Lease
  BY <1>1, TimerType DEF Claimed, Job
<1>3. job'.claim > job.claim
  BY <1>2, TimerType
<1>4. slots[s].wrote = {}
  BY <1>1 DEF Delivered, LeaseInv, SlotsInv, Active
<1>5. PICK at \in {"working", "requesting"} : Handling(s, at, job.claim + 1)
  BY <1>1
<1>6. /\ \A t \in Slots \ {s} : slots'[t] = slots[t]
      /\ slots'[s].at = at /\ slots'[s].wrote = slots[s].wrote
      /\ slots'[s].claim = job.claim + 1
  <2> DEFINE n == job.claim + 1
             d == [slots[s] EXCEPT !.at = at, !.claim = n]
  <2>1. slots' = [slots EXCEPT ![s] = d]
    BY <1>5 DEF Handling
  <2>2. d.at = at /\ d.wrote = slots[s].wrote /\ d.claim = n
    BY <1>0 DEF Delivery
  <2> HIDE DEF d
  <2> QED
    BY <1>0, <2>1, <2>2
<1>7. /\ artifacts'.scheduled = artifacts.scheduled
      /\ artifacts'.deletion = artifacts.deletion
  BY DEF LeaseInv, TypeOK, ArtifactSet, Claims, AcceptNew, AcceptReclaim,
     ResumeAfterSelection, ReclaimSelected
<1>8. /\ job.state \in {"absent", "awaiting_selection"} \/ job.timer = 0
      /\ job.state \notin terminalState
      /\ fence # "deleted" /\ fence' # "deleted" /\ UNCHANGED <<objects, cleaner, deletion>>
  BY DEF Claims, AcceptNew, AcceptReclaim, ResumeAfterSelection, ReclaimSelected, Fenced,
     existingJobDecision, terminalState
<1> QED
  BY <1>2, <1>3, <1>4, <1>5, <1>6, <1>7, <1>8

LEMMA WorkEffect ==
    ASSUME LeaseInv, NEW s \in Slots, Works(s)
    PROVE  /\ slots[s].at = "working" /\ OwnsClaim(s) /\ slots[s].wrote \subseteq Files
           /\ \A t \in Slots \ {s} : /\ slots'[t] = slots[t] /\ slots[t].at # "working"
                                     /\ slots[t].at \in Active => ~OwnsClaim(t)
           /\ slots'[s].claim = slots[s].claim
           /\ UNCHANGED <<fence, job, stored, outbox, artifacts, deletion, cleaner>>
           /\ \/ /\ slots'[s].at = "working" /\ slots'[s].wrote = slots[s].wrote \cup {"shards"}
                 /\ objects' = objects \cup {"shards"}
              \/ /\ slots'[s].at = "persisting" /\ "shards" \in slots[s].wrote
                 /\ objects' = objects \cup {"manifest"}
              \/ /\ slots'[s].at = "persisting" /\ slots'[s].outcome \in {"retry", "fail"}
                 /\ objects' \subseteq objects
<1>0. slots \in [Slots -> Delivery] /\ slots[s] \in Delivery
  BY DEF LeaseInv, TypeOK
<1>1. slots[s].at = "working"
  BY DEF Works, WriteShards, Finalize, FailWork
<1>2. OwnsClaim(s) /\ slots[s].at \in Active /\ SlotsInv /\ ClaimsInv
  BY <1>1 DEF LeaseInv, SlotsInv, Active
<1>3. \A t \in Slots \ {s} : slots[t].at # "working" /\ (slots[t].at \in Active => ~OwnsClaim(t))
  BY <1>2, OwnerAlone
<1>4. /\ \A t \in Slots \ {s} : slots'[t] = slots[t]
      /\ slots'[s].claim = slots[s].claim
      /\ \/ /\ slots'[s].at = "working" /\ slots'[s].wrote = slots[s].wrote \cup {"shards"}
            /\ objects' = objects \cup {"shards"}
         \/ /\ slots'[s].at = "persisting" /\ "shards" \in slots[s].wrote
            /\ objects' = objects \cup {"manifest"}
         \/ /\ slots'[s].at = "persisting" /\ slots'[s].outcome \in {"retry", "fail"}
            /\ objects' \subseteq objects
  <2>1. CASE WriteShards(s)
    <3> DEFINE d == [slots[s] EXCEPT !.wrote = @ \cup {"shards"}]
    <3>1. slots' = [slots EXCEPT ![s] = d] /\ objects' = objects \cup {"shards"}
      BY <2>1 DEF WriteShards
    <3>2. /\ d.claim = slots[s].claim /\ d.at = "working"
          /\ d.wrote = slots[s].wrote \cup {"shards"}
      BY <1>0, <1>1 DEF Delivery
    <3> HIDE DEF d
    <3> QED
      BY <1>0, <3>1, <3>2
  <2>2. CASE Finalize(s)
    <3> DEFINE d == [slots[s] EXCEPT !.at = "persisting", !.outcome = "complete"]
    <3>1. /\ slots' = [slots EXCEPT ![s] = d] /\ objects' = objects \cup {"manifest"}
          /\ "shards" \in slots[s].wrote
      BY <2>2 DEF Finalize
    <3>2. d.claim = slots[s].claim /\ d.at = "persisting"
      BY <1>0 DEF Delivery
    <3> HIDE DEF d
    <3> QED
      BY <1>0, <3>1, <3>2
  <2>3. ASSUME NEW permanent \in BOOLEAN, NEW aborted \in BOOLEAN,
               FailWork(s, permanent, aborted)
        PROVE  /\ \A t \in Slots \ {s} : slots'[t] = slots[t]
               /\ slots'[s].claim = slots[s].claim
               /\ slots'[s].at = "persisting" /\ slots'[s].outcome \in {"retry", "fail"}
               /\ objects' \subseteq objects
    <3> DEFINE retry == ~permanent /\ job.attempts < MaxAttempts
               delay == IF retry THEN retryDelay(job.attempts) ELSE 0
               outcome == IF retry THEN "retry" ELSE "fail"
               d == [slots[s] EXCEPT !.at = "persisting", !.wrote = {}, !.outcome = outcome,
                                     !.delay = delay]
    <3>1. slots' = [slots EXCEPT ![s] = d] /\ objects' \subseteq objects
      BY <2>3 DEF FailWork
    <3>2. outcome \in {"retry", "fail"}
      OBVIOUS
    <3> HIDE DEF outcome, delay
    <3>3. d.claim = slots[s].claim /\ d.at = "persisting" /\ d.outcome = outcome
      BY <1>0 DEF Delivery
    <3> HIDE DEF d
    <3> QED
      BY <1>0, <3>1, <3>2, <3>3
  <2> QED
    BY <2>1, <2>2, <2>3 DEF Works
<1>5. UNCHANGED <<fence, job, stored, outbox, artifacts, deletion, cleaner>>
  BY DEF Works, WriteShards, Finalize, FailWork
<1>6. slots[s].wrote \subseteq Files
  BY <1>0 DEF Delivery
<1> QED
  BY <1>1, <1>2, <1>3, <1>4, <1>5, <1>6

(* Nobody owns the claim once a transaction of its owner has committed. *)
LEMMA CommitEffect ==
    ASSUME LeaseInv, NEW s \in Slots, Commits(s), OwnsClaim(s), Settles(s)
    PROVE  /\ slots'[s].at \in {"free", "queued"}
           /\ \A t \in Slots \ {s} : /\ slots'[t] = slots[t] /\ slots[t].at # "working"
                                     /\ slots[t].at \in Active => ~OwnsClaim(t)
           /\ job'.claim = job.claim /\ job.state = "processing"
           /\ UNCHANGED <<fence, stored, objects, deletion, cleaner>>
           /\ \/ /\ OwnAwait(s) /\ job'.state = "awaiting_selection" /\ UNCHANGED artifacts
              \/ Complete(s) /\ Fenced /\ UNCHANGED <<job, outbox>>
              \/ /\ Complete(s) /\ ~Fenced /\ job'.state = "completed"
                 /\ artifacts'.scheduled = artifacts.scheduled
                 /\ artifacts'.deletion = artifacts.deletion
                 /\ outbox'[2] = outbox[2]
              \/ /\ Fail(s) /\ job'.state = "failed" /\ artifacts'.deletion = artifacts.deletion
                 /\ outbox'[2] = outbox[2]
              \/ /\ Retry(s) /\ job'.state = "retrying" /\ UNCHANGED <<artifacts, outbox>>
<1>0. TypeOK /\ SlotsInv /\ ClaimsInv
  BY DEF LeaseInv
<1>1. slots[s].at \in Active /\ job.state = "processing"
  BY DEF Commits, OwnAwait, AwaitSelection, Complete, Fail, Retry, Active, OwnsClaim
<1>2. /\ slots'[s].at \in {"free", "queued"}
      /\ \A t \in Slots \ {s} : slots'[t] = slots[t]
  BY <1>0, SettlesKeep
<1>3. \A t \in Slots \ {s} : slots[t].at # "working" /\ (slots[t].at \in Active => ~OwnsClaim(t))
  BY <1>0, <1>1, OwnerAlone
<1>4. UNCHANGED <<fence, stored, objects, deletion, cleaner>>
  BY DEF Commits, OwnAwait, AwaitSelection, Complete, Fail, Retry
<1>5. ASSUME OwnAwait(s)
      PROVE  /\ job'.state = "awaiting_selection" /\ job'.claim = job.claim
             /\ UNCHANGED artifacts
  BY <1>5, TimerType DEF OwnAwait, AwaitSelection, Job
<1>6. ASSUME Complete(s), ~Fenced
      PROVE  /\ job'.state = "completed" /\ job'.claim = job.claim
             /\ artifacts'.scheduled = artifacts.scheduled
             /\ artifacts'.deletion = artifacts.deletion
             /\ outbox'[2] = outbox[2]
  <2>1. /\ job' = [job EXCEPT !.state = "completed", !.timer = 0, !.manifest = TRUE]
        /\ artifacts' = [artifacts EXCEPT !.state = "committed"]
        /\ insertTerminalOutbox("ready")
    BY <1>6 DEF Complete
  <2>2. outbox'[2] = outbox[2]
    BY <1>0, <2>1 DEF insertTerminalOutbox, TypeOK
  <2> QED
    BY <1>0, <2>1, <2>2, TimerType DEF TypeOK, Job, ArtifactSet
<1>7. ASSUME Fail(s)
      PROVE  /\ job'.state = "failed" /\ job'.claim = job.claim
             /\ artifacts'.deletion = artifacts.deletion
             /\ outbox'[2] = outbox[2]
  <2>1. /\ job' = [job EXCEPT !.state = "failed", !.timer = 0]
        /\ insertTerminalOutbox("failed")
        /\ artifacts' = IF artifacts.state = "committed" THEN artifacts
                        ELSE [artifacts EXCEPT !.scheduled = TRUE, !.cleanup = 0]
    BY <1>7 DEF Fail
  <2>2. outbox'[2] = outbox[2]
    BY <1>0, <2>1 DEF insertTerminalOutbox, TypeOK
  <2> QED
    BY <1>0, <2>1, <2>2, TimerType DEF TypeOK, Job, ArtifactSet
<1>8. ASSUME Retry(s)
      PROVE  /\ job'.state = "retrying" /\ job'.claim = job.claim
             /\ UNCHANGED <<artifacts, outbox>>
  BY <1>8, TimerType DEF Retry, Job
<1>9. ASSUME Complete(s), Fenced PROVE UNCHANGED <<job, outbox>>
  BY <1>9 DEF Complete
<1> QED
  BY <1>1, <1>2, <1>3, <1>4, <1>5, <1>6, <1>7, <1>8, <1>9 DEF Commits

LEMMA AdvanceEffect ==
    ASSUME LeaseInv, Advance
    PROVE  /\ \A t \in Slots :
                 /\ SlotKept(t) /\ slots'[t].at = slots[t].at
                 /\ slots'[t].claim = slots[t].claim
           /\ job'.state = job.state /\ job'.claim = job.claim /\ job'.timer = Dec(job.timer)
           /\ artifacts'.scheduled = artifacts.scheduled
           /\ artifacts'.deletion = artifacts.deletion
           /\ artifacts'.cleanup = Dec(artifacts.cleanup)
           /\ artifacts.cleanup \in Nat
           /\ UNCHANGED <<fence, stored, outbox, objects, deletion, cleaner>>
<1>1. ASSUME NEW t \in Slots
      PROVE  /\ SlotKept(t) /\ slots'[t].at = slots[t].at /\ slots'[t].claim = slots[t].claim
  <2>1. slots[t] \in Delivery
    BY DEF LeaseInv, TypeOK
  <2>2. slots'[t] = [slots[t] EXCEPT !.delay = Dec(slots[t].delay)]
    BY DEF Advance
  <2> QED
    BY <2>1, <2>2 DEF Delivery, SlotKept
<1>2. /\ job'.state = job.state /\ job'.claim = job.claim /\ job'.timer = Dec(job.timer)
  BY TimerType DEF Advance, Job
<1>3. /\ artifacts'.scheduled = artifacts.scheduled
      /\ artifacts'.deletion = artifacts.deletion
      /\ artifacts'.cleanup = Dec(artifacts.cleanup) /\ artifacts.cleanup \in Nat
  BY DEF Advance, LeaseInv, TypeOK, ArtifactSet
<1> QED
  BY <1>1, <1>2, <1>3 DEF Advance

(* The cleaner works on a row that is scheduled, and leaves the rest alone. *)
LEMMA CleanEffect ==
    ASSUME LeaseInv, Cleans
    PROVE  /\ UNCHANGED <<fence, stored, outbox, slots>>
           /\ job'.state = job.state /\ job'.claim = job.claim /\ job'.timer = job.timer
           /\ artifacts.scheduled \/ (\E pass \in {"orphan", "deletion"} : cleaner[pass] # "idle")
           /\ objects' = objects \/ objects' = {}
<1>1. ASSUME NEW pass \in {"orphan", "deletion"}, ClaimCleanup(pass) \/ DeletePrefix(pass)
      PROVE  /\ UNCHANGED <<fence, stored, outbox, slots, job>>
             /\ artifacts.scheduled \/ cleaner[pass] # "idle"
             /\ objects' = objects \/ objects' = {}
  BY <1>1 DEF ClaimCleanup, DeletePrefix
<1>2. ASSUME CompleteOrphanCleanup
      PROVE  UNCHANGED <<fence, stored, outbox, slots, job, objects>> /\ cleaner["orphan"] # "idle"
  BY <1>2 DEF CompleteOrphanCleanup
<1>3. ASSUME CompleteDeletionArtifact
      PROVE  /\ UNCHANGED <<fence, stored, outbox, slots, objects>>
             /\ job'.state = job.state /\ job'.claim = job.claim /\ job'.timer = job.timer
             /\ cleaner["deletion"] # "idle"
  BY <1>3, TimerType DEF CompleteDeletionArtifact, Job
<1>4. ASSUME NEW pass \in {"orphan", "deletion"}, NEW r \in BOOLEAN, CleanerStops(pass, r)
      PROVE  /\ UNCHANGED <<fence, stored, outbox, slots, job, objects>>
             /\ cleaner[pass] # "idle"
  BY <1>4 DEF CleanerStops
<1> QED
  BY <1>1, <1>2, <1>3, <1>4 DEF Cleans, Clean

-----------------------------------------------------------------------------
(* The artifacts of a completed job *)

LEMMA KeptStep ==
    ASSUME LeaseInv, KeptInv, [Next]_vars
    PROVE  KeptInv'
<1>0. TypeOK /\ SlotsInv /\ objects \subseteq Files
  BY DEF LeaseInv, TypeOK
<1>1. ASSUME \A t \in Slots : SlotKept(t), UNCHANGED <<fence, objects, cleaner>>,
             artifacts'.scheduled = artifacts.scheduled,
             job'.state = job.state, job'.claim = job.claim
      PROVE  KeptInv'
  <2>1. CleanerInv' /\ CommittedArtifactsKept'
    BY <1>1 DEF KeptInv, CleanerInv, CommittedArtifactsKept
  <2>2. WrittenInv'
    BY <1>1 DEF KeptInv, WrittenInv, SlotKept, OwnsClaim
  <2> QED
    BY <2>1, <2>2 DEF KeptInv
<1>2. CASE Quiet
  BY <1>1, <1>2 DEF Quiet
<1>3. CASE Tick \/ LateTick
  BY <1>1, <1>3, AdvanceEffect DEF Tick, LateTick
<1>4. CASE Cleans
  <2>1. CASE fence = "deleted"
    BY <1>4, <2>1, CleanEffect DEF KeptInv, CleanerInv, WrittenInv, CommittedArtifactsKept
  <2>2. CASE fence # "deleted"
    <3>1. job.state = "failed"
      BY <1>4, <2>2, CleanEffect DEF KeptInv, CleanerInv
    <3>2. \A t \in Slots : slots[t].at # "working"
      BY <3>1, NobodyWorks
    <3>3. UNCHANGED slots /\ job'.state = "failed"
      BY <1>4, <3>1, CleanEffect
    <3> QED
      BY <3>2, <3>3 DEF KeptInv, CleanerInv, WrittenInv, CommittedArtifactsKept, OwnsClaim
  <2> QED
    BY <2>1, <2>2
<1>5. ASSUME NEW s \in Slots, Claims(s) PROVE KeptInv'
  <2>1. CleanerInv' /\ CommittedArtifactsKept'
    BY <1>5, ClaimEffect DEF KeptInv, CleanerInv, CommittedArtifactsKept, terminalState
  <2>2. WrittenInv'
    <3> SUFFICES ASSUME NEW t \in Slots
                 PROVE  /\ slots'[t].at = "working" => slots'[t].wrote \subseteq objects'
                        /\ slots'[t].at = "persisting" /\ slots'[t].outcome = "complete"
                               /\ OwnsClaim(t)' => objects' = Files
      BY DEF WrittenInv
    <3>1. CASE t = s
      BY <1>5, <3>1, ClaimEffect
    <3>2. CASE t # s
      <4>1. slots'[t] = slots[t] /\ slots[t].claim \in Nat /\ job.claim \in Nat
        BY <1>0, <1>5, <3>2, ClaimEffect, TimerType DEF TypeOK, Delivery
      <4>2. fence # "deleted" /\ UNCHANGED objects /\ job'.claim > job.claim
        BY <1>5, ClaimEffect
      <4>3. slots[t].at = "persisting" => slots[t].claim <= job.claim
        BY <1>0 DEF SlotsInv, Active
      <4>4. job'.claim \in Nat
        BY <1>5, ClaimLease DEF Claims, LeaseInv, TypeOK, Job
      <4>5. slots[t].at = "persisting" => ~OwnsClaim(t)'
        BY <4>1, <4>2, <4>3, <4>4 DEF OwnsClaim
      <4> QED
        BY <4>1, <4>2, <4>5 DEF KeptInv, WrittenInv
    <3> QED
      BY <3>1, <3>2
  <2> QED
    BY <2>1, <2>2 DEF KeptInv
<1>6. ASSUME NEW s \in Slots, Works(s) PROVE KeptInv'
  <2>1. job.state = "processing" /\ UNCHANGED <<job, fence, artifacts, cleaner>>
    BY <1>6, WorkEffect DEF OwnsClaim
  <2>2. CleanerInv' /\ CommittedArtifactsKept'
    BY <2>1 DEF KeptInv, CleanerInv, CommittedArtifactsKept
  <2>3. ASSUME fence # "deleted" PROVE slots[s].wrote \subseteq objects
    BY <1>6, <2>3, WorkEffect DEF KeptInv, WrittenInv
  <2>4. ASSUME NEW t \in Slots, t # s
        PROVE  slots'[t].at # "working" /\ (slots'[t].at = "persisting" => ~OwnsClaim(t)')
    BY <1>6, <2>1, <2>4, WorkEffect DEF OwnsClaim, Active
  <2>5. ASSUME fence # "deleted"
        PROVE  /\ slots'[s].at = "working" => slots'[s].wrote \subseteq objects'
               /\ slots'[s].at = "persisting" /\ slots'[s].outcome = "complete"
                      => objects' = Files
    BY <1>0, <1>6, <2>3, <2>5, WorkEffect DEF Files
  <2>6. WrittenInv'
    BY <2>1, <2>4, <2>5 DEF WrittenInv
  <2> QED
    BY <2>2, <2>6 DEF KeptInv
<1>7. ASSUME NEW s \in Slots, Commits(s), Settles(s) PROVE KeptInv'
  <2>1. CASE fence = "deleted"
    <3>1. fence' = "deleted"
      BY <1>7, <2>1 DEF Commits, OwnAwait, AwaitSelection, Complete, Fail, Retry
    <3> QED
      BY <3>1 DEF KeptInv, CleanerInv, WrittenInv, CommittedArtifactsKept
  <2>2. CASE fence # "deleted"
    <3>1. OwnsClaim(s)
      BY <1>7, <2>2 DEF Commits, OwnAwait, Fenced
    <3>2. Complete(s) => objects = Files
      BY <2>2, <3>1 DEF Complete, KeptInv, WrittenInv
    <3>3. /\ slots'[s].at \in {"free", "queued"}
          /\ \A t \in Slots \ {s} : slots'[t] = slots[t] /\ slots[t].at # "working"
          /\ job'.state # "processing" /\ UNCHANGED <<fence, objects, cleaner>>
          /\ job.state = "processing"
          /\ job'.state = "completed" => objects = Files
          /\ job'.state # "failed" => artifacts'.scheduled = artifacts.scheduled
      BY <1>7, <2>2, <3>1, <3>2, CommitEffect DEF Fenced
    <3>4. CleanerInv' /\ CommittedArtifactsKept'
      BY <3>3 DEF KeptInv, CleanerInv, CommittedArtifactsKept
    <3>5. WrittenInv'
      BY <3>3 DEF WrittenInv, OwnsClaim
    <3> QED
      BY <3>4, <3>5 DEF KeptInv
  <2> QED
    BY <2>1, <2>2
<1>8. ASSUME NEW s \in Slots, AcceptDeletion(s), deletion = "requested" PROVE KeptInv'
  BY <1>8 DEF AcceptDeletion, KeptInv, CleanerInv, WrittenInv, CommittedArtifactsKept
<1> QED
  BY <1>2, <1>3, <1>4, <1>5, <1>6, <1>7, <1>8, StepKinds

LEMMA InitKept ==
    Init => KeptInv
<1> SUFFICES ASSUME Init PROVE KeptInv
  OBVIOUS
<1>1. \A t \in Slots : slots[t].at \in {"queued", "free"}
  BY DEF Init, Message, Free
<1>2. /\ job.state = "absent" /\ ~artifacts.scheduled
      /\ cleaner["orphan"] = "idle" /\ cleaner["deletion"] = "idle"
  BY DEF Init
<1> QED
  BY <1>1, <1>2 DEF KeptInv, CleanerInv, WrittenInv, CommittedArtifactsKept

(***************************************************************************)
(* The artifacts a ready event points at are complete and stay until the   *)
(* book is deleted, whatever Abort and the orphan pass remove for attempts *)
(* that lost their lease.                                                  *)
(***************************************************************************)
THEOREM CommittedKept == Spec => []CommittedArtifactsKept
<1>1. Init => LeaseInv /\ KeptInv
  BY InitLease, InitKept
<1>2. LeaseInv /\ KeptInv /\ [Next /\ Remember]_<<vars, history>> => (LeaseInv /\ KeptInv)'
  BY ModelStep, LeaseStep, KeptStep
<1>3. KeptInv => CommittedArtifactsKept
  BY DEF KeptInv
<1> QED
  BY <1>1, <1>2, <1>3, PTL DEF Spec

-----------------------------------------------------------------------------
(* The selection *)

LEMMA RequestStep ==
    ASSUME LeaseInv, RequestInv, [Next]_vars
    PROVE  RequestInv'
<1>0. TypeOK /\ SlotsInv
  BY DEF LeaseInv
<1>1. ASSUME \A t \in Slots : SlotKept(t), UNCHANGED stored,
             objects' = objects \/ objects' = {}, job'.state = job.state,
             outbox'[2] = "none" => outbox[2] = "none"
      PROVE  RequestInv'
  BY <1>1 DEF RequestInv, SlotKept
<1>2. CASE Quiet
  BY <1>1, <1>2 DEF Quiet
<1>3. CASE Tick \/ LateTick
  BY <1>1, <1>3, AdvanceEffect DEF Tick, LateTick
<1>4. CASE Cleans
  BY <1>1, <1>4, CleanEffect, SameKeep
<1>5. ASSUME NEW s \in Slots, Claims(s) PROVE RequestInv'
  <2>1. /\ \A t \in Slots \ {s} : slots'[t] = slots[t]
        /\ slots'[s].at \in {"working", "requesting"}
        /\ job'.state = "processing" /\ objects' = objects
    BY <1>5, ClaimEffect
  <2>2. slots[s] \in Delivery /\ slots \in [Slots -> Delivery]
    BY <1>0 DEF TypeOK
  <2>3. ASSUME NEW at, NEW n, Handling(s, at, n) PROVE slots'[s].at = at
    BY <2>2, <2>3 DEF Handling, Delivery
  <2>4. /\ slots'[s].at = "requesting" => Selection
        /\ outbox[2] = "none" /\ Selection => slots'[s].at = "requesting" /\ ~stored'
    BY <1>5, <2>3 DEF RequestInv, Claims, AcceptNew, AcceptReclaim, ResumeAfterSelection,
       ReclaimSelected, AfterClaim
  <2>5. outbox'[2] = outbox[2]
    <3>1. outbox' = outbox \/ outbox' = [outbox EXCEPT ![1] = "pending"]
      BY <1>5 DEF Claims, AcceptNew, AcceptReclaim, ResumeAfterSelection, ReclaimSelected
    <3> QED
      BY <1>0, <3>1 DEF TypeOK
  <2> QED
    BY <2>1, <2>4, <2>5 DEF RequestInv
<1>6. ASSUME NEW s \in Slots, Works(s) PROVE RequestInv'
  <2>1. /\ \A t \in Slots \ {s} : slots'[t] = slots[t]
        /\ slots'[s].at \in {"working", "persisting"} /\ slots[s].at = "working"
        /\ UNCHANGED <<job, outbox, stored>> /\ job.state = "processing"
    BY <1>6, WorkEffect DEF OwnsClaim
  <2> QED
    BY <2>1 DEF RequestInv
<1>7. ASSUME NEW s \in Slots, Commits(s), Settles(s) PROVE RequestInv'
  <2>1. \A t \in Slots : SlotKept(t)
    BY <1>0, <1>7, SettlesKeep
  <2>2. CASE OwnsClaim(s)
    <3>1. CASE OwnAwait(s)
      <4>1. objects = {} /\ outbox'[2] = "pending"
        BY <3>1 DEF OwnAwait, AwaitSelection, RequestInv
      <4>2. UNCHANGED <<stored, objects>>
        BY <3>1 DEF OwnAwait, AwaitSelection
      <4> QED
        BY <2>1, <4>1, <4>2 DEF RequestInv, SlotKept
    <3>2. CASE ~OwnAwait(s)
      <4>1. /\ UNCHANGED <<stored, objects>> /\ outbox'[2] = outbox[2]
            /\ job'.state = job.state \/ job'.state \in {"completed", "failed", "retrying"}
        BY <1>7, <2>2, <3>2, CommitEffect
      <4> QED
        BY <2>1, <4>1 DEF RequestInv, SlotKept
    <3> QED
      BY <3>1, <3>2
  <2>3. CASE ~OwnsClaim(s)
    <3>1. UNCHANGED <<job, outbox, stored, objects>>
      BY <1>7, <2>3 DEF Commits, OwnAwait, Complete
    <3> QED
      BY <1>1, <2>1, <3>1
  <2> QED
    BY <2>2, <2>3
<1>8. ASSUME NEW s \in Slots, AcceptDeletion(s), Settles(s) PROVE RequestInv'
  <2>1. \A t \in Slots : SlotKept(t)
    BY <1>0, <1>8, SettlesKeep
  <2> QED
    BY <1>1, <1>8, <2>1 DEF AcceptDeletion
<1> QED
  BY <1>2, <1>3, <1>4, <1>5, <1>6, <1>7, <1>8, StepKinds

LEMMA InitRequest ==
    Init => RequestInv
<1> SUFFICES ASSUME Init PROVE RequestInv
  OBVIOUS
<1>1. \A t \in Slots : slots[t].at \in {"queued", "free"}
  BY DEF Init, Message, Free
<1> QED
  BY <1>1 DEF Init, RequestInv

LEMMA SelectionStep ==
    ASSUME LeaseInv, RequestInv, [Next]_vars
    PROVE  [SelectsBeforeWriting]_vars
<1> SUFFICES ASSUME ~stored, stored' PROVE SelectsBeforeWriting
  BY DEF SelectsBeforeWriting
<1>1. PICK s \in Slots : ResumeAfterSelection(s)
  <2>1. ~Quiet /\ ~Tick /\ ~LateTick /\ ~Cleans
    BY CleanEffect DEF Quiet, Tick, LateTick, Advance
  <2>2. PICK s \in Slots : \/ Claims(s) \/ Works(s) \/ Commits(s)
                           \/ AcceptDeletion(s)
    BY <2>1, StepKinds
  <2>3. ~Works(s)
    BY <2>2, WorkEffect
  <2>4. ~Commits(s) /\ ~AcceptDeletion(s)
    BY DEF Commits, OwnAwait, AwaitSelection, Complete, Fail, Retry, AcceptDeletion
  <2> QED
    BY <2>2, <2>3, <2>4 DEF Claims, AcceptNew, AcceptReclaim, ReclaimSelected
<1>2. job.state = "awaiting_selection"
  BY <1>1 DEF ResumeAfterSelection
<1>3. \A t \in Slots : slots[t].at # "working"
  BY <1>2, NobodyWorks
<1> QED
  BY <1>2, <1>3 DEF RequestInv, SelectsBeforeWriting

(***************************************************************************)
(* However late, often or out of turn the layout worker answers, the job   *)
(* records a selection only before anything has been written without it.   *)
(***************************************************************************)
THEOREM SelectionsFirst == Spec => SelectionFirst
<1>1. Init => LeaseInv /\ RequestInv
  BY InitLease, InitRequest
<1>2. LeaseInv /\ RequestInv /\ [Next /\ Remember]_<<vars, history>> => (LeaseInv /\ RequestInv)'
  BY ModelStep, LeaseStep, RequestStep
<1>3. LeaseInv /\ RequestInv /\ [Next /\ Remember]_<<vars, history>> => [SelectsBeforeWriting]_vars
  BY ModelStep, SelectionStep
<1> QED
  BY <1>1, <1>2, <1>3, PTL DEF Spec, SelectionFirst

-----------------------------------------------------------------------------
(* Deletion *)

LEMMA FenceStep ==
    ASSUME LeaseInv, FenceInv, [Next]_vars
    PROVE  FenceInv'
<1>0. TypeOK /\ SlotsInv /\ JobInv
  BY DEF LeaseInv
<1>1. ASSUME fence' = fence, deletion' = deletion \/
                 (deletion \notin {"pending", "acknowledged"} /\ deletion' = "requested"),
             artifacts'.deletion = artifacts.deletion, UNCHANGED cleaner,
             job'.state = "absent" => job.state = "absent" /\ objects' = objects
      PROVE  FenceInv'
  BY <1>1 DEF FenceInv
<1>2. CASE Quiet
  BY <1>1, <1>2 DEF Quiet
<1>3. CASE Tick \/ LateTick
  BY <1>1, <1>3, AdvanceEffect DEF Tick, LateTick
<1>4. CASE Cleans
  <2>1. job'.state = job.state /\ (objects' = objects \/ objects' = {}) /\ UNCHANGED fence
    BY <1>4, CleanEffect
  <2>2. ASSUME NEW pass \in {"orphan", "deletion"}, ClaimCleanup(pass) \/ DeletePrefix(pass)
        PROVE  FenceInv'
    BY <1>0, <2>1, <2>2 DEF ClaimCleanup, DeletePrefix, FenceInv, TypeOK
  <2>3. ASSUME CompleteOrphanCleanup PROVE FenceInv'
    <3>1. artifacts'.deletion = artifacts.deletion
      BY <1>0, <2>3 DEF CompleteOrphanCleanup, TypeOK, ArtifactSet
    <3> QED
      BY <1>0, <2>1, <2>3, <3>1 DEF CompleteOrphanCleanup, FenceInv, TypeOK
  <2>4. ASSUME CompleteDeletionArtifact PROVE FenceInv'
    <3>1. fence = "deleted"
      BY <2>4 DEF CompleteDeletionArtifact, FenceInv
    <3> QED
      BY <2>1, <2>4, <3>1 DEF CompleteDeletionArtifact, FenceInv
  <2>5. ASSUME NEW pass \in {"orphan", "deletion"}, NEW r \in BOOLEAN, CleanerStops(pass, r)
        PROVE  FenceInv'
    <3>1. artifacts'.deletion = artifacts.deletion
      BY <1>0, <2>5 DEF CleanerStops, TypeOK, ArtifactSet
    <3> QED
      BY <1>0, <2>1, <2>5, <3>1 DEF CleanerStops, FenceInv, TypeOK
  <2> QED
    BY <1>4, <2>2, <2>3, <2>4, <2>5 DEF Cleans, Clean
<1>5. ASSUME NEW s \in Slots, Claims(s) PROVE FenceInv'
  BY <1>5, ClaimEffect DEF FenceInv
<1>6. ASSUME NEW s \in Slots, Works(s) PROVE FenceInv'
  BY <1>1, <1>6, WorkEffect DEF OwnsClaim
<1>7. ASSUME NEW s \in Slots, Commits(s), Settles(s) PROVE FenceInv'
  <2>1. CASE Complete(s) /\ Fenced
    BY <2>1 DEF Complete, Fenced, FenceInv
  <2>2. CASE ~(Complete(s) /\ Fenced)
    <3>1. OwnsClaim(s)
      BY <1>7, <2>2 DEF Commits, OwnAwait
    <3> QED
      BY <1>1, <1>7, <2>2, <3>1, CommitEffect
  <2> QED
    BY <2>1, <2>2
<1>8. ASSUME NEW s \in Slots, AcceptDeletion(s), deletion = "requested" PROVE FenceInv'
  BY <1>8 DEF AcceptDeletion, FenceInv
<1> QED
  BY <1>2, <1>3, <1>4, <1>5, <1>6, <1>7, <1>8, StepKinds

(***************************************************************************)
(* The barrier: cleanup_after of a deleted book is not before the end of   *)
(* the lease, so the cleaner finds nobody writing.                         *)
(***************************************************************************)
LEMMA BarrierStep ==
    ASSUME LeaseInv, KeptInv, FenceInv, BarrierInv, [Next]_vars, \A s \in Slots : ~Hastens(s)
    PROVE  BarrierInv'
<1>0. TypeOK /\ SlotsInv /\ ClaimsInv /\ JobInv
  BY DEF LeaseInv
<1>1. \A t \in Slots : slots[t].at = "working" => job.state = "processing" /\ job.timer > 0
  BY <1>0 DEF SlotsInv, OwnsClaim
<1>2. ASSUME NEW t \in Slots, slots[t].at = "working", fence = "deleted"
      PROVE  /\ artifacts.cleanup >= job.timer /\ artifacts.cleanup # 0
             /\ cleaner["orphan"] = "idle" /\ cleaner["deletion"] = "idle"
             /\ deletion # "acknowledged"
  <2>1. artifacts.cleanup >= job.timer /\ cleaner["orphan"] = "idle"
        /\ cleaner["deletion"] = "idle" /\ deletion # "acknowledged"
    BY <1>2 DEF BarrierInv, Gone
  <2>2. artifacts.cleanup \in Nat
    BY <1>0 DEF TypeOK, ArtifactSet
  <2> QED
    BY <1>1, <1>2, <2>1, <2>2, TimerType
<1>3. CASE Quiet
  BY <1>3 DEF Quiet, BarrierInv, Gone, SlotKept
<1>4. CASE Tick \/ LateTick
  <2>1. /\ \A t \in Slots : slots'[t].at = slots[t].at
        /\ job'.timer = Dec(job.timer) /\ artifacts'.cleanup = Dec(artifacts.cleanup)
        /\ artifacts.cleanup \in Nat /\ UNCHANGED <<fence, objects, deletion, cleaner>>
    BY <1>4, AdvanceEffect DEF Tick, LateTick
  <2>2. artifacts.cleanup >= job.timer => artifacts'.cleanup >= job'.timer
    BY <2>1, TimerType, DecMonotone
  <2> QED
    BY <2>1, <2>2 DEF BarrierInv, Gone
<1>5. CASE Cleans
  <2>1. UNCHANGED <<fence, slots>> /\ (objects' = objects \/ objects' = {})
    BY <1>5, CleanEffect
  <2>2. fence = "deleted" => \A t \in Slots : slots[t].at # "working"
    <3> SUFFICES ASSUME NEW t \in Slots, slots[t].at = "working", fence = "deleted"
                 PROVE  FALSE
      OBVIOUS
    <3>1. /\ artifacts.cleanup # 0
          /\ cleaner["orphan"] = "idle" /\ cleaner["deletion"] = "idle"
      BY <1>2
    <3> QED
      BY <1>5, <3>1 DEF Cleans, Clean, ClaimCleanup, DeletePrefix, CompleteOrphanCleanup,
         CompleteDeletionArtifact, CleanerStops
  <2>3. /\ cleaner'["deletion"] = "deleted" => objects' = {}
        /\ deletion' = "acknowledged" => objects' = {}
    <3>1. ASSUME NEW pass \in {"orphan", "deletion"}, ClaimCleanup(pass)
          PROVE  /\ cleaner'["deletion"] = "deleted" => cleaner["deletion"] = "deleted"
                 /\ UNCHANGED <<objects, deletion>>
      BY <1>0, <3>1 DEF ClaimCleanup, TypeOK
    <3>2. ASSUME NEW pass \in {"orphan", "deletion"}, DeletePrefix(pass) PROVE objects' = {}
      BY <3>2 DEF DeletePrefix
    <3>3. ASSUME CompleteOrphanCleanup
          PROVE  cleaner'["deletion"] = cleaner["deletion"] /\ UNCHANGED <<objects, deletion>>
      BY <1>0, <3>3 DEF CompleteOrphanCleanup, TypeOK
    <3>4. ASSUME CompleteDeletionArtifact PROVE objects = {} /\ UNCHANGED objects
      BY <3>4 DEF CompleteDeletionArtifact, BarrierInv
    <3>5. ASSUME NEW pass \in {"orphan", "deletion"}, NEW r \in BOOLEAN, CleanerStops(pass, r)
          PROVE  /\ cleaner'["deletion"] = "deleted" => cleaner["deletion"] = "deleted"
                 /\ UNCHANGED <<objects, deletion>>
      BY <1>0, <3>5 DEF CleanerStops, TypeOK
    <3>6. /\ cleaner["deletion"] = "deleted" => objects = {}
          /\ deletion = "acknowledged" => objects = {}
      BY DEF BarrierInv, Gone
    <3> QED
      BY <1>5, <3>1, <3>2, <3>3, <3>4, <3>5, <3>6 DEF Cleans, Clean
  <2>4. deletion' = "acknowledged" => fence = "deleted"
    BY <1>5, <2>1, FenceStep DEF FenceInv
  <2> QED
    BY <2>1, <2>2, <2>3, <2>4 DEF BarrierInv, Gone
<1>6. ASSUME NEW s \in Slots, Claims(s) PROVE BarrierInv'
  <2>1. fence # "deleted" /\ fence' # "deleted" /\ UNCHANGED <<objects, cleaner, deletion>>
    BY <1>6, ClaimEffect
  <2>2. deletion # "acknowledged"
    BY <2>1 DEF FenceInv
  <2> QED
    BY <2>1, <2>2 DEF BarrierInv, Gone
<1>7. ASSUME NEW s \in Slots, Works(s) PROVE BarrierInv'
  <2>1. /\ slots[s].at = "working" /\ \A t \in Slots \ {s} : slots'[t].at # "working"
        /\ UNCHANGED <<fence, job, artifacts, deletion, cleaner>>
    BY <1>7, WorkEffect
  <2>2. deletion # "acknowledged"
    BY <2>1 DEF BarrierInv, Gone
  <2>3. cleaner["deletion"] = "idle"
    BY <1>2, <2>1 DEF FenceInv
  <2> QED
    BY <2>1, <2>2, <2>3 DEF BarrierInv, Gone
<1>8. ASSUME NEW s \in Slots, Commits(s), Settles(s) PROVE BarrierInv'
  <2>1. ASSUME Complete(s), Fenced
        PROVE  (\A t \in Slots : slots'[t].at # "working") /\ UNCHANGED <<objects, deletion, cleaner>>
    <3>1. \A t \in Slots : slots[t].at # "working" /\ SlotKept(t)
      BY <1>0, <1>8, <2>1, SettlesKeep DEF Hastens
    <3> QED
      BY <2>1, <3>1 DEF Complete, SlotKept
  <2>2. ASSUME ~(Complete(s) /\ Fenced)
        PROVE  (\A t \in Slots : slots'[t].at # "working") /\ UNCHANGED <<objects, deletion, cleaner>>
    <3>1. OwnsClaim(s)
      BY <1>8, <2>2 DEF Commits, OwnAwait
    <3> QED
      BY <1>8, <3>1, CommitEffect
  <2>3. /\ \A t \in Slots : slots'[t].at # "working"
        /\ UNCHANGED <<objects, deletion, cleaner>>
    BY <2>1, <2>2
  <2> QED
    BY <2>3 DEF BarrierInv, Gone
<1>9. ASSUME NEW s \in Slots, AcceptDeletion(s), deletion = "requested", Settles(s)
      PROVE  BarrierInv'
  <2>1. fence # "deleted"
    BY <1>9 DEF FenceInv
  <2>2. UNCHANGED <<job, objects, cleaner>> /\ \A t \in Slots : SlotKept(t)
    BY <1>0, <1>9, SettlesKeep DEF AcceptDeletion
  <2>3. ASSUME NEW t \in Slots, slots'[t].at = "working"
        PROVE  /\ slots[t].at = "working" /\ artifacts.state # "none"
               /\ cleaner["orphan"] = "idle" /\ cleaner["deletion"] = "idle"
               /\ artifacts'.cleanup >= job.timer
    <3>1. slots[t].at = "working"
      BY <2>2, <2>3 DEF SlotKept
    <3>2. job.state = "processing" /\ artifacts.state # "none"
      BY <1>0, <1>1, <3>1 DEF JobInv
    <3>3. cleaner["orphan"] = "idle" /\ cleaner["deletion"] = "idle"
      BY <2>1, <3>2 DEF KeptInv, CleanerInv
    <3>4. artifacts'.cleanup = CleanupAfter
      BY <1>0, <1>9, <3>2 DEF AcceptDeletion, TypeOK, ArtifactSet
    <3>5. artifacts.cleanup \in Nat /\ job.timer \in Nat
      BY <1>0, TimerType DEF TypeOK, ArtifactSet
    <3>6. CleanupAfter >= job.timer
      BY <3>2, <3>5 DEF CleanupAfter, Greatest
    <3> QED
      BY <3>1, <3>2, <3>3, <3>4, <3>6
  <2>4. deletion' = "acknowledged" => artifacts.state = "none"
    BY <1>9 DEF AcceptDeletion
  <2>5. artifacts.state = "none" => objects = {}
    BY <1>0 DEF JobInv, FenceInv
  <2> QED
    BY <2>2, <2>3, <2>4, <2>5 DEF BarrierInv, Gone
<1> QED
  BY <1>3, <1>4, <1>5, <1>6, <1>7, <1>8, <1>9, StepKinds

LEMMA InitDeletion ==
    Init => FenceInv /\ BarrierInv
<1> SUFFICES ASSUME Init PROVE FenceInv /\ BarrierInv
  OBVIOUS
<1>1. \A t \in Slots : slots[t].at \in {"queued", "free"}
  BY DEF Init, Message, Free
<1>2. /\ fence = "none" /\ deletion = "none" /\ objects = {} /\ artifacts.deletion = "no"
      /\ cleaner["deletion"] = "idle"
  BY DEF Init
<1> QED
  BY <1>1, <1>2 DEF FenceInv, BarrierInv, Gone

(***************************************************************************)
(* The artifacts of a completed job stay until its book is deleted, and    *)
(* the deletion is acknowledged when none is left and no attempt can write *)
(* one, unless a Complete whose lease had ended dated cleanup_after back   *)
(* while its successor was working: CleanupAfter waits for the lease.      *)
(***************************************************************************)
THEOREM DeletionAcknowledged == Spec => []ArtifactsKeptOrGone
<1> DEFINE I == LeaseInv /\ KeptInv /\ FenceInv /\ HistoryOK /\ (hastened \/ BarrierInv)
<1>1. Init /\ HistoryInit => I
  BY InitLease, InitKept, InitDeletion, InitHistory
<1>2. I /\ [Next /\ Remember]_<<vars, history>> => I'
  <2> SUFFICES ASSUME I, [Next /\ Remember]_<<vars, history>> PROVE I'
    OBVIOUS
  <2>1. [Next]_vars /\ LeaseInv' /\ KeptInv' /\ FenceInv' /\ HistoryOK'
    BY ModelStep, HistoryStep, LeaseStep, KeptStep, FenceStep
  <2>2. CASE hastened
    BY <2>1, <2>2, HastenedStays
  <2>3. CASE ~hastened /\ Remember
    <3>1. CASE \E s \in Slots : Hastens(s)
      BY <2>1, <2>3, <3>1 DEF Remember
    <3>2. CASE \A s \in Slots : ~Hastens(s)
      BY <2>1, <2>3, <3>2, BarrierStep
    <3> QED
      BY <3>1, <3>2
  <2>4. CASE ~hastened /\ UNCHANGED <<vars, history>>
    <3>1. BarrierInv /\ UNCHANGED vars
      BY <2>4
    <3>2. BarrierInv'
      BY <3>1 DEF BarrierInv, Gone, vars
    <3> QED
      BY <2>1, <3>2
  <2> QED
    BY <2>2, <2>3, <2>4
<1>3. I => ArtifactsKeptOrGone
  BY DEF KeptInv, BarrierInv, Gone, ArtifactsKeptOrGone, AcknowledgedMeansGone
<1> QED
  BY <1>1, <1>2, <1>3, PTL DEF Spec
=============================================================================
