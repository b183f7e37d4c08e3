-------------------------- MODULE BookStatusStream --------------------------
(***************************************************************************)
(* The status stream of the Edge API: Catalog's status events reach this   *)
(* instance's broker queue, the consumer hands them to BookStatusHub, and  *)
(* one handler per browser (Events) drains its subscriber and writes       *)
(* server-sent frames.                                                     *)
(*                                                                         *)
(* Every hub method holds BookStatusHub.mu and is one action. The handlers *)
(* run beside it: receiving the wake token, draining, and writing each     *)
(* frame are separate steps. Catalog, the broker and the browser are       *)
(* external: the browser reloads the book list on a resync frame, so it    *)
(* then knows every version published so far. The outbox may publish a row *)
(* twice and late, hence the events in flight are an unordered set.        *)
(***************************************************************************)
EXTENDS Integers, FiniteSets

CONSTANTS Books, Streams, Sessions, IPs,
          MaxSubscribers,            \* BookStatusHubPolicy
          MaxSubscribersPerSession,
          MaxSubscribersPerIP,
          MaxPendingEvents,
          MaxPublications,           \* bound on status changes of all books
          MaxFaults                  \* bound on repeated and dropped events, lost connections

ASSUME StreamAssumption ==
    /\ MaxSubscribers \in Nat \ {0} /\ MaxSubscribersPerSession \in Nat \ {0}
    /\ MaxSubscribersPerIP \in Nat \ {0} /\ MaxPendingEvents \in Nat \ {0}
    /\ MaxPublications \in Nat /\ MaxFaults \in Nat
    /\ Sessions # {} /\ IPs # {} /\ IsFiniteSet(Streams)

VARIABLES catalog,    \* the newest version Catalog has published, by book
          changes,    \* status changes still to come
          flight,     \* events in this instance's queue
          lost,       \* books with an event the queue dropped
          faults,     \* faults still allowed
          consumer,   \* how far consume has come
          connected,  \* the broker connection is alive
          available,  \* BookStatusHub.available
          subs,       \* BookStatusHub.subscribers
          who,        \* the subscription of a stream: its session and address
          bySession, byIP,
          pending,    \* bookStatusSubscriber.pending; version 0 is no event
          resync,     \* subscribers with resync set
          wake,       \* subscribers with a token in their wake channel
          closed,     \* subscribers whose wake channel is closed
          writer,     \* where the handler of a stream is
          batch,      \* events drained and not yet written
          shown       \* the newest version the browser was told, by book

hub == <<available, subs, who, bySession, byIP, pending, resync, wake, closed>>

broker == <<catalog, changes, flight, lost, faults, consumer, connected>>

vars == <<broker, hub, writer, batch, shown>>

-----------------------------------------------------------------------------
(* State *)

Versions == 1..MaxPublications

Events == [book : Books, version : Versions]

NoEvents == [b \in Books |-> 0]

Newest(m, n) == IF m < n THEN n ELSE m

Waiting(s) == {b \in Books : pending[s][b] # 0}

(* Those of the streams whose subscription has this session, or this address. *)
Of(streams, field, key) == {s \in streams : who[s][field] = key}

Nobody == [session |-> CHOOSE k \in Sessions : TRUE, ip |-> CHOOSE i \in IPs : TRUE]

Init ==
    /\ catalog = NoEvents /\ changes = MaxPublications
    /\ flight = {} /\ lost = {} /\ faults = MaxFaults
    /\ consumer = "down" /\ connected = FALSE
    /\ available = FALSE /\ subs = {}
    /\ who = [s \in Streams |-> Nobody]
    /\ bySession = [k \in Sessions |-> 0] /\ byIP = [k \in IPs |-> 0]
    /\ pending = [s \in Streams |-> NoEvents]
    /\ resync = {} /\ wake = {} /\ closed = {}
    /\ writer = [s \in Streams |-> "idle"]
    /\ batch = [s \in Streams |-> NoEvents] /\ shown = [s \in Streams |-> NoEvents]

-----------------------------------------------------------------------------
(* Catalog and the broker *)

(* A status event enters the queue of every connected instance. *)
CatalogPublishes(b) ==
    /\ changes > 0 /\ changes' = changes - 1
    /\ catalog' = [catalog EXCEPT ![b] = @ + 1]
    /\ flight' = IF connected THEN flight \cup {[book |-> b, version |-> catalog[b] + 1]}
                 ELSE flight
    /\ UNCHANGED <<lost, faults, consumer, connected, hub, writer, batch, shown>>

(* The outbox publishes a row again whose first publication was not marked. *)
CatalogRepeats(b, v) ==
    /\ faults > 0 /\ faults' = faults - 1
    /\ connected /\ v <= catalog[b]
    /\ flight' = flight \cup {[book |-> b, version |-> v]}
    /\ UNCHANGED <<catalog, changes, lost, consumer, connected, hub, writer, batch, shown>>

(* x-max-length-bytes with x-overflow drop-head. *)
QueueDrops(e) ==
    /\ faults > 0 /\ faults' = faults - 1
    /\ flight' = flight \ {e} /\ lost' = lost \cup {e.book}
    /\ UNCHANGED <<catalog, changes, consumer, connected, hub, writer, batch, shown>>

(* The exclusive queue goes with the connection; prefetched events may stay. *)
ConnectionLost ==
    /\ faults > 0 /\ faults' = faults - 1
    /\ connected /\ connected' = FALSE
    /\ flight' \in {flight, {}}
    /\ UNCHANGED <<catalog, changes, lost, consumer, hub, writer, batch, shown>>

-----------------------------------------------------------------------------
(* BookStatusHub *)

(* releaseBookStatusLimit, once for each of the subscribers removed, never below 0. *)
released(counts, gone, field) ==
    [k \in DOMAIN counts |-> Newest(0, counts[k] - Cardinality(Of(gone, field, k)))]

(* Fault: a subscriber that SetAvailable removed is released again. *)
releasedAlways(streams) ==
    /\ subs' = subs \ streams
    /\ bySession' = released(bySession, streams, "session")
    /\ byIP' = released(byIP, streams, "ip")

(* Deletes those of the streams that are still registered. *)
remove(streams) ==
    /\ subs' = subs \ streams
    /\ bySession' = released(bySession, streams \cap subs, "session")
    /\ byIP' = released(byIP, streams \cap subs, "ip")

(* What becomes of one subscriber when event e is published. *)
Ignores(s, e) == s \in resync \/ pending[s][e.book] >= e.version

Overflows(s, e) ==
    /\ ~Ignores(s, e) /\ pending[s][e.book] = 0
    /\ Cardinality(Waiting(s)) >= MaxPendingEvents

queued(s, e) ==
    IF s \notin subs \/ Ignores(s, e) THEN pending[s]
    ELSE IF Overflows(s, e) THEN NoEvents
    ELSE [pending[s] EXCEPT ![e.book] = e.version]

(* Fault: the events over the limit are dropped and nobody is told. *)
overflowedSilently(e) == {s \in subs : FALSE /\ Overflows(s, e)}

overflowed(e) == {s \in subs : Overflows(s, e)}

(* Fault: only a replaced event is signalled. *)
signalledOnReplacement(e) == {s \in subs : ~Ignores(s, e) /\ pending[s][e.book] # 0}

(* signalBookStatusSubscriber: a token unless one is already there. *)
signalled(e) == {s \in subs : ~Ignores(s, e)}

Publish(e) ==
    IF ~available THEN UNCHANGED hub
    ELSE
    /\ pending' = [s \in Streams |-> queued(s, e)]
    /\ resync' = resync \cup overflowed(e)
    /\ wake' = wake \cup signalled(e)
    /\ UNCHANGED <<available, subs, who, bySession, byIP, closed>>

-----------------------------------------------------------------------------
(* The consumer of the instance queue *)

(* consume: dial, declare and bind the queue, start consuming. *)
Connect ==
    /\ consumer = "down"
    /\ consumer' = "consuming" /\ connected' = TRUE /\ flight' = {}
    /\ UNCHANGED <<catalog, changes, lost, faults, hub, writer, batch, shown>>

(* SetAvailable(true). *)
Announce ==
    /\ consumer = "consuming" /\ consumer' = "announced" /\ available' = TRUE
    /\ UNCHANGED <<catalog, changes, flight, lost, faults, connected, writer, batch, shown>>
    /\ UNCHANGED <<subs, who, bySession, byIP, pending, resync, wake, closed>>

(* A delivery: decode, Publish, Ack. *)
Receive(e) ==
    /\ consumer = "announced"
    /\ flight' = flight \ {e}
    /\ Publish(e)
    /\ UNCHANGED <<catalog, changes, lost, faults, consumer, connected, writer, batch, shown>>

(* Run after consume returned: SetAvailable(false) ends every stream. *)
Withdraw ==
    /\ consumer = "announced" /\ ~connected
    /\ consumer' = "down" /\ available' = FALSE
    /\ remove(subs) /\ closed' = closed \cup subs
    /\ UNCHANGED <<catalog, changes, flight, lost, faults, connected, who, pending, resync, wake,
                   writer, batch, shown>>

-----------------------------------------------------------------------------
(* Events: the handler of one stream *)

Admitted(session, ip) ==
    /\ available /\ Cardinality(subs) < MaxSubscribers
    /\ bySession[session] < MaxSubscribersPerSession
    /\ byIP[ip] < MaxSubscribersPerIP

(* A fresh subscriber: everything a stream leaves behind was dropped. *)
subscribe(s, session, ip) ==
    /\ writer[s] = "idle" /\ Admitted(session, ip)
    /\ subs' = subs \cup {s}
    /\ who' = [who EXCEPT ![s] = [session |-> session, ip |-> ip]]
    /\ bySession' = [bySession EXCEPT ![session] = @ + 1]
    /\ byIP' = [byIP EXCEPT ![ip] = @ + 1]
    /\ writer' = [writer EXCEPT ![s] = "opening"]
    /\ UNCHANGED <<broker, available, pending, resync, wake, closed, batch, shown>>

(* A resync frame: the first of the stream, or the one after an overflow. *)
WriteResync(s) ==
    /\ writer[s] \in {"opening", "resyncing"}
    /\ writer' = [writer EXCEPT ![s] = "select"]
    /\ shown' = [shown EXCEPT ![s] = [b \in Books |-> Newest(shown[s][b], catalog[b])]]
    /\ UNCHANGED <<broker, hub, batch>>

(* case <-subscriber.wake, open. *)
ReceiveWake(s) ==
    /\ writer[s] = "select" /\ s \in wake
    /\ wake' = wake \ {s}
    /\ writer' = [writer EXCEPT ![s] = "woken"]
    /\ UNCHANGED <<broker, available, subs, who, bySession, byIP, pending, resync, closed,
                   batch, shown>>

(* Fault: drain does not look at resync. *)
drainOfEventsOnly(s) ==
    /\ writer[s] = "woken" /\ s \in subs
    /\ batch' = [batch EXCEPT ![s] = pending[s]]
    /\ pending' = [pending EXCEPT ![s] = NoEvents]
    /\ writer' = [writer EXCEPT ![s] = "writing"]
    /\ UNCHANGED <<broker, available, subs, who, bySession, byIP, resync, wake, closed, shown>>

drain(s) ==
    /\ writer[s] = "woken" /\ s \in subs
    /\ IF s \in resync
       THEN /\ resync' = resync \ {s}
            /\ writer' = [writer EXCEPT ![s] = "resyncing"]
            /\ UNCHANGED <<pending, batch>>
       ELSE /\ batch' = [batch EXCEPT ![s] = pending[s]]
            /\ pending' = [pending EXCEPT ![s] = NoEvents]
            /\ writer' = [writer EXCEPT ![s] = "writing"]
            /\ UNCHANGED resync
    /\ UNCHANGED <<broker, available, subs, who, bySession, byIP, wake, closed, shown>>

(* One book-processing-status-changed frame; the map gives them in any order. *)
WriteEvent(s, b) ==
    /\ writer[s] = "writing" /\ batch[s][b] # 0
    /\ shown' = [shown EXCEPT ![s][b] = Newest(@, batch[s][b])]
    /\ batch' = [batch EXCEPT ![s][b] = 0]
    /\ UNCHANGED <<broker, hub, writer>>

(* The loop goes back to its select. *)
WrittenAll(s) ==
    /\ writer[s] = "writing" /\ batch[s] = NoEvents
    /\ writer' = [writer EXCEPT ![s] = "select"]
    /\ UNCHANGED <<broker, hub, batch, shown>>

(* return: the deferred remove, and nobody holds the subscriber any more. *)
Return(s) ==
    /\ remove({s})
    /\ writer' = [writer EXCEPT ![s] = "idle"]
    /\ who' = [who EXCEPT ![s] = Nobody]
    /\ resync' = resync \ {s} /\ wake' = wake \ {s} /\ closed' = closed \ {s}
    /\ pending' = [pending EXCEPT ![s] = NoEvents]
    /\ batch' = [batch EXCEPT ![s] = NoEvents] /\ shown' = [shown EXCEPT ![s] = NoEvents]
    /\ UNCHANGED <<broker, available>>

(* The wake channel is closed, or drain finds the subscriber gone. *)
StreamEnds(s) ==
    /\ \/ writer[s] = "select" /\ s \in closed \ wake
       \/ writer[s] = "woken" /\ s \notin subs
    /\ Return(s)

(* The browser leaves, the session ends, a write fails, the time is up. *)
StreamStops(s) == writer[s] # "idle" /\ Return(s)

-----------------------------------------------------------------------------

Handle(s) ==
    \/ WriteResync(s) \/ ReceiveWake(s) \/ drain(s) \/ WrittenAll(s) \/ StreamEnds(s)
    \/ \E b \in Books : WriteEvent(s, b)

Consume == Announce \/ Withdraw \/ \E e \in flight : Receive(e)

Next ==
    \/ \E b \in Books : CatalogPublishes(b) \/ \E v \in Versions : CatalogRepeats(b, v)
    \/ \E e \in flight : QueueDrops(e)
    \/ Connect \/ ConnectionLost \/ Consume
    \/ \E s \in Streams, k \in Sessions, i \in IPs : subscribe(s, k, i)
    \/ \E s \in Streams : Handle(s) \/ StreamStops(s)

Spec == Init /\ [][Next]_vars

(***************************************************************************)
(* The consumer runs for ever and every handler keeps going round its      *)
(* loop: a frame is written or fails within the write timeout.             *)
(***************************************************************************)
FairSpec == Spec /\ WF_vars(Consume) /\ \A s \in Streams : WF_vars(Handle(s))

-----------------------------------------------------------------------------
(* Properties *)

(* The state keeps its types. *)
TypeOK ==
    /\ catalog \in [Books -> 0..MaxPublications] /\ changes \in 0..MaxPublications
    /\ flight \subseteq Events /\ lost \subseteq Books
    /\ faults \in 0..MaxFaults
    /\ consumer \in {"down", "consuming", "announced"} /\ connected \in BOOLEAN
    /\ available \in BOOLEAN /\ subs \subseteq Streams
    /\ who \in [Streams -> [session : Sessions, ip : IPs]]
    /\ bySession \in [Sessions -> Nat] /\ byIP \in [IPs -> Nat]
    /\ pending \in [Streams -> [Books -> 0..MaxPublications]]
    /\ resync \subseteq Streams /\ wake \subseteq Streams /\ closed \subseteq Streams
    /\ writer \in [Streams -> {"idle", "opening", "select", "woken", "resyncing", "writing"}]
    /\ batch \in [Streams -> [Books -> 0..MaxPublications]]
    /\ shown \in [Streams -> [Books -> 0..MaxPublications]]

(***************************************************************************)
(* No lost wake-up: a subscriber with something to tell has a token in its *)
(* channel, or its handler has taken the token and is about to drain. A    *)
(* handler resting in its select would otherwise hold the event for ever.  *)
(***************************************************************************)
WakePending(s) == s \in wake \/ writer[s] = "woken"

NoLostWakeup ==
    \A s \in subs : s \in resync \/ Waiting(s) # {} => WakePending(s)

(***************************************************************************)
(* Nothing is missed: for every open stream and book, the newest version   *)
(* Catalog published was told to the browser, or is on its way to it, or   *)
(* a resync is: whatever was published while the stream was opening, while *)
(* the handler was writing, or over the pending limit. What the broker     *)
(* drops or loses is excepted.                                             *)
(***************************************************************************)
OnItsWay(s, b) ==
    \/ \E e \in flight : e.book = b /\ e.version >= catalog[b]
    \/ pending[s][b] >= catalog[b] \/ batch[s][b] >= catalog[b]
    \/ s \in resync \/ writer[s] \in {"opening", "resyncing"}

NothingMissed ==
    connected =>
        \A s \in subs, b \in Books :
            shown[s][b] >= catalog[b] \/ OnItsWay(s, b) \/ b \in lost

(***************************************************************************)
(* The limits hold and the counters are exact: every path that ends a      *)
(* stream, also after the broker was lost, releases its session and its    *)
(* address once, and no subscriber retains more than MaxPendingEvents.     *)
(***************************************************************************)
LimitsExact ==
    /\ Cardinality(subs) <= MaxSubscribers
    /\ \A k \in Sessions : /\ bySession[k] = Cardinality(Of(subs, "session", k))
                           /\ bySession[k] <= MaxSubscribersPerSession
    /\ \A i \in IPs : /\ byIP[i] = Cardinality(Of(subs, "ip", i))
                      /\ byIP[i] <= MaxSubscribersPerIP
    /\ \A s \in subs : Cardinality(Waiting(s)) <= MaxPendingEvents

(* A browser that stays connected learns the newest version in the end.     *)
EventuallyCurrent ==
    \A s \in Streams, b \in Books, v \in Versions :
        s \in subs /\ catalog[b] = v ~> shown[s][b] >= v \/ s \notin subs \/ b \in lost

(* No stream outlives the broker connection, so no browser waits on a       *)
(* stream that cannot tell it anything.                                     *)
StreamsEndWithBroker ==
    \A s \in Streams : writer[s] # "idle" /\ ~connected ~> writer[s] = "idle"

(* A stream is current or over: a connected browser learns the newest       *)
(* version, and no stream waits on a broker connection that is gone.        *)
StreamsCurrentOrOver == EventuallyCurrent /\ StreamsEndWithBroker
=============================================================================
