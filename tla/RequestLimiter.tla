--------------------------- MODULE RequestLimiter ---------------------------
(***************************************************************************)
(* The limiter in front of a model provider, in Retrieval and in Answer:   *)
(* requests queue, each has a reservation that every arrival, grant and    *)
(* departure recomputes, and a waiter sleeps until its reservation, a      *)
(* change or the end of its context.  Answer looks at the context before   *)
(* it queues and before it grants; Retrieval does not.                     *)
(***************************************************************************)
EXTENDS Naturals, Sequences, FiniteSetsExt

CONSTANTS Callers,     \* callers of Wait, one call each
          Interval      \* time between two grants

ASSUME LimiterAssumption == Interval \in Nat \ {0}

(* Times are told from now: what lies in the past is 0. *)
VARIABLES next,           \* when the next grant is allowed
          waiters,        \* the queue
          target,         \* the reservation of each caller
          waiting,        \* where each caller is in Wait
          idle,           \* time since the last grant, up to Interval
          checksContext   \* Answer's limiter, or Retrieval's

limiterVars == << next, waiters, target, waiting, idle, checksContext >>

(* A caller sleeps on a timer and on a channel that a change closes; its   *)
(* context may have ended.                                                 *)
Caller(at, timer, closed, ended) ==
  [at |-> at, timer |-> timer, closed |-> closed, ended |-> ended]

LimiterInit ==
  /\ next = 0 /\ waiters = << >> /\ idle = Interval
  /\ target = [r \in Callers |-> 0]
  /\ waiting = [r \in Callers |-> Caller("idle", 0, FALSE, FALSE)]
  /\ checksContext \in BOOLEAN

Place(r, queue) == CHOOSE i \in DOMAIN queue : queue[i] = r

rebalanceLocked(queue, following) ==
  target' = [r \in Callers |-> IF r \in {queue[i] : i \in DOMAIN queue}
                                THEN following + (Place(r, queue) - 1) * Interval
                                ELSE 0]

(* The queue changes: everyone is given a reservation and woken. *)
Requeue(r, at, queue, following) ==
  /\ waiters' = queue /\ next' = following
  /\ rebalanceLocked(queue, following)
  /\ waiting' = [v \in Callers |-> IF v = r THEN [waiting[r] EXCEPT !.at = at]
                                              ELSE [waiting[v] EXCEPT !.closed = TRUE]]

Others(r) ==
  [i \in 1..(Len(waiters) - 1) |-> waiters[IF i < Place(r, waiters) THEN i ELSE i + 1]]

Enqueue(r) ==
  /\ waiting[r].at = "idle" /\ ~ (checksContext /\ waiting[r].ended)
  /\ Requeue(r, "look", Append(waiters, r), next)
  /\ UNCHANGED << idle, checksContext >>

(* Fault: a caller that gives up leaves its reservation in the queue. *)
GiveUpInQueue(r) ==
  /\ Requeue(r, "gaveUp", waiters, next)
  /\ UNCHANGED << idle, checksContext >>

GiveUp(r) ==
  /\ Requeue(r, "gaveUp", Others(r), next)
  /\ UNCHANGED << idle, checksContext >>

(* The next grant counts from now, however late this one is. *)
Grant(r) ==
  /\ Requeue(r, "granted", Others(r), Interval)
  /\ idle' = 0
  /\ UNCHANGED checksContext

(* The head of the queue whose time has come passes, unless its context    *)
(* has ended and the limiter looks at it.                                  *)
Due(r) == Place(r, waiters) = 1 /\ target[r] = 0

Turn(r) ==
  /\ Due(r)
  /\ IF checksContext /\ waiting[r].ended THEN GiveUp(r) ELSE Grant(r)

(* The loop of Wait, under the lock: pass, or read the reservation and the *)
(* channel and go to sleep.                                                *)
Look(r) ==
  /\ waiting[r].at = "look"
  /\ \/ Turn(r)
     \/ /\ ~ Due(r)
        /\ waiting' = [waiting EXCEPT ![r] = Caller("sleep", target[r], FALSE, @.ended)]
        /\ UNCHANGED << next, waiters, target, idle, checksContext >>

LookAgain(r) ==
  /\ waiting' = [waiting EXCEPT ![r].at = "look"]
  /\ UNCHANGED << next, waiters, target, idle, checksContext >>

(* The select: several of its cases may be ready. *)
ContextEnds(r) == waiting[r].at = "sleep" /\ waiting[r].ended /\ GiveUp(r)

TimerFires(r) ==
  /\ waiting[r].at = "sleep" /\ waiting[r].timer = 0
  /\ (Turn(r) \/ (~ Due(r) /\ LookAgain(r)))

Notified(r) == waiting[r].at = "sleep" /\ waiting[r].closed /\ LookAgain(r)

CallerCancelled(r) ==
  /\ waiting[r].at # "granted" /\ ~ waiting[r].ended
  /\ waiting' = [waiting EXCEPT ![r].ended = TRUE]
  /\ UNCHANGED << next, waiters, target, idle, checksContext >>

Sooner(t) == IF t = 0 THEN 0 ELSE t - 1

TimePasses ==
  /\ waiters # << >>
  /\ next' = Sooner(next) /\ idle' = Min({Interval, idle + 1})
  /\ target' = [r \in Callers |-> Sooner(target[r])]
  /\ waiting' = [r \in Callers |-> [waiting[r] EXCEPT !.timer = Sooner(@)]]
  /\ UNCHANGED << waiters, checksContext >>

Wakes(r) == Look(r) \/ ContextEnds(r) \/ TimerFires(r) \/ Notified(r)

LimiterNext == TimePasses \/ \E r \in Callers : Enqueue(r) \/ Wakes(r) \/ CallerCancelled(r)

LimiterFairness == WF_limiterVars(TimePasses) /\ \A r \in Callers : WF_limiterVars(Wakes(r))

LimiterSpec == LimiterInit /\ [][LimiterNext]_limiterVars /\ LimiterFairness

-----------------------------------------------------------------------------
Passes(r) == waiting[r].at # "granted" /\ waiting'[r].at = "granted"

PassesInTurn ==
  \A r \in Callers : Passes(r) => idle = Interval /\ ~ (checksContext /\ waiting[r].ended)

(***************************************************************************)
(* However callers come, give up and wake, two requests never pass within  *)
(* one interval, and where the limiter looks at the context, one that has  *)
(* ended takes no turn.                                                    *)
(***************************************************************************)
GrantsSpaced == [][PassesInTurn]_limiterVars

(***************************************************************************)
(* Grants are spaced, and every call returns, since a caller that gives up *)
(* moves the others forward.                                               *)
(***************************************************************************)
RequestsSpaced == GrantsSpaced /\ <>[](\A r \in Callers : waiting[r].at \notin {"look", "sleep"})
=============================================================================
