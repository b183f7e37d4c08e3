---------------------------- MODULE AnswerService ----------------------------
(***************************************************************************)
(* Answer Service: concurrent requests share the final-answer cache, the   *)
(* in-flight table that coalesces equal generations, and the generator     *)
(* permits. Retrieval and the generator are external: a search returns any *)
(* evidence, a generation cites any passages or fails.                     *)
(*                                                                         *)
(* Every request generates at most once, so a generated answer is named by *)
(* its request: cache entries, in-flight calls and results refer to it.    *)
(* Each method that holds a mutex is one action; the goroutines of         *)
(* different requests interleave between them.                             *)
(***************************************************************************)
EXTENDS Integers, Sequences, FiniteSets, Functions

CONSTANTS Requests,
          Searches,      \* what may be asked, with the evidence a search selects for it
          None,          \* no request
          Capacity, TTL, \* CachePolicy
          GeneratorConcurrency,
          MaxClock       \* bound on the clock

ASSUME AnswerAssumption ==
    /\ None \notin Requests
    /\ Capacity \in Nat \ {0} /\ TTL \in Nat \ {0}
    /\ GeneratorConcurrency \in Nat \ {0} /\ MaxClock \in Nat
    /\ IsFiniteSet(Requests)
    /\ Searches # {} /\ \A s \in Searches : s.context # {} /\ s.cacheable \in BOOLEAN

VARIABLES pc,        \* where the goroutine of a request is
          req,       \* what it asks for and the evidence its search selected
          cites,     \* the passages its generation cites
          answer,    \* the generation it answers with, or None
          clock,
          entries,   \* answerCache.entries: generations, least recently used first
          created,   \* cacheEntry.created
          calls,     \* answerInflight.calls: the requests that registered one
          ready,     \* calls whose ready channel is closed
          outcome,   \* the segments a call completed with; None is not ok
          joined,    \* the call a follower waits for
          permits,   \* permits taken
          panicked   \* a closed channel was closed again

vars == <<pc, req, cites, answer, clock, entries, created, calls, ready, outcome, joined,
          permits, panicked>>

cache == <<entries, created>>

inflight == <<calls, ready, outcome, joined>>

-----------------------------------------------------------------------------
(* Matching *)

(***************************************************************************)
(* A search has a question (its normalized query norm, its guard tokens    *)
(* guards, and a topic that stands for modes, topic tokens and embedding), *)
(* a scope (actor, filters, limit and profiles), the context of passages   *)
(* it selected, and cacheable: whether it came with match metadata.        *)
(***************************************************************************)
Passages == UNION {s.context : s \in Searches}

NoSearch == CHOOSE s \in Searches : TRUE

(* Fault: the evidence is not part of the key. *)
keyOfScope(r) == <<req[r].scope>>

key(r) == <<req[r].scope, req[r].context>>

(* Fault: the evidence is not part of the key. *)
flightKeyOfScope(r) == <<req[r].scope, req[r].question.norm>>

flightKey(r) == <<key(r), req[r].question.norm>>

queriesMatch(p, q) == p.guards = q.guards /\ (p.norm = q.norm \/ p.topic = q.topic)

equivalentCacheEntry(g, h) == key(g) = key(h) /\ req[g].question.norm = req[h].question.norm

(* The segments of generation g are valid answers to the evidence of r. *)
validateSegments(g, r) == cites[g] # {} /\ cites[g] \subseteq req[r].context

-----------------------------------------------------------------------------

Init ==
    /\ pc = [r \in Requests |-> "new"] /\ req = [r \in Requests |-> NoSearch]
    /\ cites = [r \in Requests |-> {}] /\ answer = [r \in Requests |-> None]
    /\ clock = 0 /\ entries = <<>> /\ created = [r \in Requests |-> 0]
    /\ calls = {} /\ ready = {} /\ outcome = [r \in Requests |-> None]
    /\ joined = [r \in Requests |-> None]
    /\ permits = 0 /\ panicked = FALSE

Goto(r, step) == pc' = [pc EXCEPT ![r] = step]

Tick ==
    /\ clock < MaxClock /\ clock' = clock + 1
    /\ UNCHANGED <<pc, req, cites, answer, cache, inflight, permits, panicked>>

(* The live search; without the metadata a cache key needs, cache and       *)
(* coalescing are bypassed.                                                 *)
Retrieve(r, s) ==
    /\ pc[r] = "new"
    /\ req' = [req EXCEPT ![r] = s]
    /\ Goto(r, IF s.cacheable THEN "retrieved" ELSE "claiming")
    /\ UNCHANGED <<cites, answer, clock, cache, inflight, permits, panicked>>

(* The search fails or selects nothing. *)
NoEvidence(r) ==
    /\ pc[r] = "new" /\ Goto(r, "done")
    /\ UNCHANGED <<req, cites, answer, clock, cache, inflight, permits, panicked>>

-----------------------------------------------------------------------------
(* answerCache *)

(* Fault: an entry lives one instant too long. *)
LiveAtLimit(g) == clock - created[g] <= TTL

Live(g) == clock - created[g] < TTL

(* The entries of seq that are in gs, in their order. *)
Remaining(seq, gs) ==
    LET kept[i \in 0..Len(seq)] ==
            IF i = 0 THEN <<>>
            ELSE IF seq[i] \in gs THEN Append(kept[i - 1], seq[i]) ELSE kept[i - 1]
    IN  kept[Len(seq)]

pruned == Remaining(entries, {g \in Requests : Live(g)})

Hits(r) ==
    {g \in Range(pruned) : /\ key(g) = key(r)
                           /\ queriesMatch(req[r].question, req[g].question)
                           /\ cites[g] \subseteq req[r].context}

(* The first entry that matches, moved to the end. *)
First(gs) == pruned[CHOOSE i \in DOMAIN pruned : /\ pruned[i] \in gs
                                                 /\ \A j \in 1..(i - 1) : pruned[j] \notin gs]

lookup(r) ==
    /\ pc[r] = "retrieved"
    /\ IF Hits(r) = {}
       THEN /\ entries' = pruned /\ Goto(r, "missed") /\ UNCHANGED answer
       ELSE LET g == First(Hits(r))
            IN  /\ entries' = Append(Remaining(pruned, Requests \ {g}), g)
                /\ IF validateSegments(g, r)
                   THEN answer' = [answer EXCEPT ![r] = g] /\ Goto(r, "done")
                   ELSE Goto(r, "missed") /\ UNCHANGED answer
    /\ UNCHANGED <<req, cites, clock, created, inflight, permits, panicked>>

(* An equivalent entry is replaced; otherwise the oldest makes room. *)
stored(r) ==
    LET others == Remaining(pruned, {g \in Requests : ~equivalentCacheEntry(g, r)})
        full == Len(others) = Len(pruned) /\ Len(pruned) = Capacity
    IN  Append(IF full THEN Tail(pruned) ELSE others, r)

-----------------------------------------------------------------------------
(* answerInflight *)

CallsFor(r) == {c \in calls : flightKey(c) = flightKey(r)}

(* wait: join the call for this key, or register one and lead. *)
wait(r) ==
    /\ pc[r] = "missed"
    /\ IF CallsFor(r) # {}
       THEN /\ joined' = [joined EXCEPT ![r] = CHOOSE c \in CallsFor(r) : TRUE]
            /\ Goto(r, "waiting") /\ UNCHANGED calls
       ELSE /\ calls' = calls \cup {r}
            /\ Goto(r, "claiming") /\ UNCHANGED joined
    /\ UNCHANGED <<req, cites, answer, clock, cache, ready, outcome, permits, panicked>>

(***************************************************************************)
(* The call is ready: its answer is used when it validates; a call without *)
(* an answer leaves the follower without one; and a call whose answer does *)
(* not validate lets the follower go on to generate, without a call of its *)
(* own and with the deferred done of the key.                              *)
(***************************************************************************)
Follow(r) ==
    /\ pc[r] = "waiting" /\ joined[r] \in ready
    /\ LET g == outcome[joined[r]]
       IN  IF g # None /\ validateSegments(g, r)
           THEN answer' = [answer EXCEPT ![r] = g] /\ Goto(r, "done")
           ELSE Goto(r, IF g = None THEN "done" ELSE "claiming") /\ UNCHANGED answer
    /\ UNCHANGED <<req, cites, clock, cache, inflight, permits, panicked>>

(* The request's deadline passes, or its caller goes away. *)
Cancel(r) ==
    /\ pc[r] = "waiting" /\ Goto(r, "done")
    /\ UNCHANGED <<req, cites, answer, clock, cache, inflight, permits, panicked>>

(* complete: the first call of this key gets the segments and is closed. *)
complete(r, g) ==
    IF req[r].cacheable /\ CallsFor(r) # {}
    THEN LET c == CHOOSE x \in CallsFor(r) : TRUE
         IN  /\ outcome' = [outcome EXCEPT ![c] = g]
             /\ ready' = ready \cup {c}
             /\ panicked' = (panicked \/ c \in ready)
    ELSE UNCHANGED <<outcome, ready, panicked>>

(* done, deferred: closes the call unless complete did, and deletes it. *)
done(r) ==
    /\ pc[r] = "returning" /\ Goto(r, "done")
    /\ calls' = IF req[r].cacheable THEN calls \ CallsFor(r) ELSE calls
    /\ ready' = IF req[r].cacheable THEN ready \cup CallsFor(r) ELSE ready
    /\ UNCHANGED <<req, cites, answer, clock, cache, outcome, joined, permits, panicked>>

-----------------------------------------------------------------------------
(* Generation *)

AcquirePermit(r) ==
    /\ pc[r] = "claiming" /\ permits < GeneratorConcurrency
    /\ permits' = permits + 1 /\ Goto(r, "generating")
    /\ UNCHANGED <<req, cites, answer, clock, cache, inflight, panicked>>

(* Fault: the early return forgets the deferred done. *)
CapacityExhaustedEarly(r) ==
    /\ pc[r] = "claiming" /\ permits = GeneratorConcurrency
    /\ Goto(r, "done")
    /\ UNCHANGED <<req, cites, answer, clock, cache, inflight, permits, panicked>>

CapacityExhausted(r) ==
    /\ pc[r] = "claiming" /\ permits = GeneratorConcurrency
    /\ Goto(r, "returning")
    /\ UNCHANGED <<req, cites, answer, clock, cache, inflight, permits, panicked>>

(* The generator answers with citations that validate: cache.store. *)
GenerateAnswer(r, cited) ==
    /\ pc[r] = "generating" /\ cited # {} /\ cited \subseteq req[r].context
    /\ cites' = [cites EXCEPT ![r] = cited] /\ answer' = [answer EXCEPT ![r] = r]
    /\ IF req[r].cacheable
       THEN entries' = stored(r) /\ created' = [created EXCEPT ![r] = clock]
       ELSE UNCHANGED cache
    /\ Goto(r, "answered")
    /\ UNCHANGED <<req, clock, inflight, permits, panicked>>

(* It fails, times out, or cites what it was not given. *)
GenerateFails(r) ==
    /\ pc[r] = "generating" /\ complete(r, None) /\ Goto(r, "releasing")
    /\ UNCHANGED <<req, cites, answer, clock, cache, calls, joined, permits>>

CompleteAnswered(r) ==
    /\ pc[r] = "answered" /\ complete(r, r) /\ Goto(r, "releasing")
    /\ UNCHANGED <<req, cites, answer, clock, cache, calls, joined, permits>>

(* The last defer runs first. *)
ReleasePermit(r) ==
    /\ pc[r] = "releasing" /\ permits' = permits - 1 /\ Goto(r, "returning")
    /\ UNCHANGED <<req, cites, answer, clock, cache, inflight, panicked>>

-----------------------------------------------------------------------------

Proceed(r) ==
    \/ lookup(r) \/ wait(r) \/ Follow(r) \/ AcquirePermit(r) \/ CapacityExhausted(r)
    \/ \E cited \in SUBSET Passages : GenerateAnswer(r, cited)
    \/ GenerateFails(r) \/ CompleteAnswered(r) \/ ReleasePermit(r) \/ done(r)

Next ==
    \/ Tick
    \/ \E r \in Requests : Proceed(r) \/ Cancel(r) \/ NoEvidence(r)
    \/ \E r \in Requests, s \in Searches : Retrieve(r, s)

Spec == Init /\ [][Next]_vars

(* Goroutines run, and a generation ends within GeneratorTimeout. *)
FairSpec == Spec /\ \A r \in Requests : WF_vars(Proceed(r))

-----------------------------------------------------------------------------
(* Properties *)

Steps == {"new", "retrieved", "missed", "waiting", "claiming", "generating", "answered",
          "releasing", "returning", "done"}

(* The state keeps its types. *)
TypeOK ==
    /\ pc \in [Requests -> Steps] /\ req \in [Requests -> Searches]
    /\ cites \in [Requests -> SUBSET Passages]
    /\ answer \in [Requests -> Requests \cup {None}]
    /\ clock \in 0..MaxClock /\ entries \in Seq(Requests) /\ Len(entries) <= Capacity
    /\ created \in [Requests -> 0..MaxClock]
    /\ calls \subseteq Requests /\ ready \subseteq Requests
    /\ outcome \in [Requests -> Requests \cup {None}]
    /\ joined \in [Requests -> Requests \cup {None}]
    /\ permits \in 0..GeneratorConcurrency /\ panicked \in BOOLEAN

(***************************************************************************)
(* Equal requests generate once, and a call has one owner: every request   *)
(* at work leads a call of its own, two calls never have one key, no call  *)
(* stays in the table after its owner returned (where it would answer, or  *)
(* block, every later request for the key), and no ready channel is closed *)
(* twice, which would end the process. A follower that goes on after an    *)
(* answer that did not validate would complete and delete the call of      *)
(* another request; the evidence in the flight key makes that impossible.  *)
(***************************************************************************)
Owners == {"claiming", "generating", "answered", "releasing", "returning"}

SingleFlight ==
    /\ ~panicked
    /\ \A r \in Requests : pc[r] \in Owners /\ req[r].cacheable => r \in calls
    /\ \A c, d \in calls : flightKey(c) = flightKey(d) => c = d
    /\ \A c \in calls : pc[c] \in Owners

(* Every path that took a permit gives it back, and nobody else does.       *)
Holding == {"generating", "answered", "releasing"}

PermitsExact == permits = Cardinality({r \in Requests : pc[r] \in Holding})

(* The table of calls and the permits agree with what the requests are at,  *)
(* and the state keeps its types, the cache its capacity.                   *)
GenerationsExact == TypeOK /\ SingleFlight /\ PermitsExact

(***************************************************************************)
(* An answer, cached or coalesced or new, was generated for this scope     *)
(* from exactly the evidence this request's own search selected, and cites *)
(* only that: cached answers never bring back passages that search does    *)
(* not return any more.                                                    *)
(***************************************************************************)
AnswersGrounded ==
    \A r \in Requests : answer[r] # None =>
        /\ validateSegments(answer[r], r)
        /\ req[answer[r]].scope = req[r].scope /\ req[answer[r]].context = req[r].context

(***************************************************************************)
(* An answer given for another question was given for one with the same    *)
(* guard tokens ("C" is not "C++"): through the cache or a coalesced call. *)
(***************************************************************************)
GuardsRespected ==
    \A r \in Requests : answer[r] # None =>
        req[answer[r]].question.guards = req[r].question.guards

(***************************************************************************)
(* The cache serves an entry only within its time to live, and only to a   *)
(* question with the same guard tokens as the one it was generated for.    *)
(***************************************************************************)
ServedFits(r, g) ==
    clock - created[g] < TTL /\ req[g].question.guards = req[r].question.guards

CacheHitsFit ==
    [][\A r \in Requests :
          pc[r] = "retrieved" /\ answer'[r] # answer[r] => ServedFits(r, answer'[r])]_vars

(***************************************************************************)
(* Every request that came returns: no follower waits for a call that its  *)
(* owner left open, on any path out of Answer. A request comes once, so    *)
(* from some time on none is under way.                                    *)
(***************************************************************************)
EveryRequestReturns == <>[](\A r \in Requests : pc[r] \in {"new", "done"})
=============================================================================
