----------------------- MODULE BookStatusStream_proofs -----------------------
(***************************************************************************)
(* The status stream never loses a wake-up and never misses a status, for  *)
(* any number of books, streams and publications and any limits.           *)
(*                                                                         *)
(* Neither property is inductive alone. Three facts carry them:            *)
(*   FeedInv   a stream is registered only while the consumer is           *)
(*             announced, so a new connection starts without subscribers;  *)
(*   IdleInv   a handler that has returned left nothing behind, so the     *)
(*             subscriber of the next request starts clean;                *)
(*   QueueInv  a subscriber to be resynchronised holds no events, and only *)
(*             a handler that is writing holds drained ones.               *)
(***************************************************************************)
EXTENDS BookStatusStream, FiniteSetTheorems, TLAPS

Bounded == \A b \in Books : catalog[b] + changes <= MaxPublications

FeedInv ==
    /\ available <=> consumer = "announced"
    /\ ~available => subs = {}

IdleInv ==
    \A s \in Streams : writer[s] = "idle" =>
        /\ s \notin subs /\ s \notin resync
        /\ pending[s] = NoEvents /\ batch[s] = NoEvents

QueueInv ==
    \A s \in Streams : /\ s \in resync => pending[s] = NoEvents
                       /\ writer[s] # "writing" => batch[s] = NoEvents

Typed == TypeOK /\ Bounded

StreamInv == Typed /\ FeedInv /\ IdleInv /\ QueueInv /\ NoLostWakeup /\ NothingMissed

-----------------------------------------------------------------------------
(* Types *)

(* Newest returns one of its arguments and is at least as large as both. *)
LEMMA NewestBounds ==
    ASSUME NEW m \in Int, NEW n \in Int
    PROVE  Newest(m, n) \in {m, n} /\ Newest(m, n) >= m /\ Newest(m, n) >= n
  BY DEF Newest

LEMMA NoEventsType == NoEvents \in [Books -> 0..MaxPublications]
  BY StreamAssumption DEF NoEvents

LEMMA NobodyType == Nobody \in [session : Sessions, ip : IPs]
  BY StreamAssumption DEF Nobody

(* Releasing subscribers leaves counts. *)
LEMMA ReleasedType ==
    ASSUME NEW K, NEW counts \in [K -> Nat], NEW gone \in SUBSET Streams, NEW field
    PROVE  released(counts, gone, field) \in [K -> Nat]
  <1>1. ASSUME NEW k \in K
        PROVE  Newest(0, counts[k] - Cardinality(Of(gone, field, k))) \in Nat
    <2>1. Of(gone, field, k) \subseteq Streams
      BY DEF Of
    <2>2. IsFiniteSet(Of(gone, field, k))
      BY <2>1, StreamAssumption, FS_Subset
    <2>3. Cardinality(Of(gone, field, k)) \in Nat
      BY <2>2, FS_CardinalityType
    <2>4. counts[k] \in Nat
      OBVIOUS
    <2>. QED
      BY <2>3, <2>4 DEF Newest
  <1>2. DOMAIN counts = K
    OBVIOUS
  <1>. QED
    BY <1>1, <1>2 DEF released

LEMMA RemoveType ==
    ASSUME TypeOK, NEW streams \in SUBSET Streams, remove(streams)
    PROVE  /\ subs' \subseteq Streams
           /\ bySession' \in [Sessions -> Nat] /\ byIP' \in [IPs -> Nat]
  <1>1. streams \cap subs \in SUBSET Streams
    OBVIOUS
  <1>2. bySession \in [Sessions -> Nat] /\ byIP \in [IPs -> Nat] /\ subs \subseteq Streams
    BY DEF TypeOK
  <1>3. bySession' \in [Sessions -> Nat]
    BY <1>1, <1>2, ReleasedType DEF remove
  <1>4. byIP' \in [IPs -> Nat]
    BY <1>1, <1>2, ReleasedType DEF remove
  <1>. QED
    BY <1>2, <1>3, <1>4 DEF remove

LEMMA InitTyped == Init => Typed
  <1> SUFFICES ASSUME Init PROVE Typed
    OBVIOUS
  <1>1. TypeOK
    <2>1. /\ catalog \in [Books -> 0..MaxPublications]
          /\ pending \in [Streams -> [Books -> 0..MaxPublications]]
          /\ batch \in [Streams -> [Books -> 0..MaxPublications]]
          /\ shown \in [Streams -> [Books -> 0..MaxPublications]]
      BY NoEventsType DEF Init
    <2>2. who \in [Streams -> [session : Sessions, ip : IPs]]
      BY NobodyType DEF Init
    <2>3. changes \in 0..MaxPublications /\ faults \in 0..MaxFaults
      BY StreamAssumption DEF Init
    <2>4. bySession \in [Sessions -> Nat] /\ byIP \in [IPs -> Nat]
      BY DEF Init
    <2>. QED
      BY <2>1, <2>2, <2>3, <2>4 DEF Init, TypeOK
  <1>2. Bounded
    BY StreamAssumption DEF Init, Bounded, NoEvents
  <1>. QED
    BY <1>1, <1>2 DEF Typed

LEMMA CatalogPublishesTyped ==
    ASSUME Typed, NEW b \in Books, CatalogPublishes(b)
    PROVE  Typed'
  <1>1. /\ catalog \in [Books -> 0..MaxPublications] /\ changes \in 0..MaxPublications
        /\ catalog[b] + changes <= MaxPublications /\ changes > 0
    BY DEF Typed, TypeOK, Bounded, CatalogPublishes
  <1>2. catalog[b] + 1 \in 1..MaxPublications /\ changes - 1 \in 0..MaxPublications
    BY <1>1, StreamAssumption
  <1>3. [book |-> b, version |-> catalog[b] + 1] \in Events
    BY <1>2 DEF Events, Versions
  <1>4. catalog' \in [Books -> 0..MaxPublications] /\ changes' \in 0..MaxPublications
    BY <1>1, <1>2 DEF CatalogPublishes
  <1>5. flight' \subseteq Events
    BY <1>3 DEF Typed, TypeOK, CatalogPublishes
  <1>6. TypeOK'
    BY <1>4, <1>5 DEF Typed, TypeOK, CatalogPublishes, hub
  <1>7. Bounded'
    <2> SUFFICES ASSUME NEW a \in Books PROVE catalog'[a] + changes' <= MaxPublications
      BY DEF Bounded
    <2>1. catalog'[a] = IF a = b THEN catalog[b] + 1 ELSE catalog[a]
      BY <1>1 DEF CatalogPublishes
    <2>2. changes' = changes - 1
      BY DEF CatalogPublishes
    <2>3. catalog[a] \in Int /\ catalog[b] \in Int /\ changes \in Int
      BY <1>1
    <2>4. catalog[a] + changes <= MaxPublications
      BY DEF Typed, Bounded
    <2>. QED
      BY <1>1, <2>1, <2>2, <2>3, <2>4, StreamAssumption
  <1>. QED
    BY <1>6, <1>7 DEF Typed

LEMMA BrokerTyped ==
    ASSUME Typed
    PROVE  /\ \A b \in Books, v \in Versions : CatalogRepeats(b, v) => Typed'
           /\ \A e \in flight : QueueDrops(e) => Typed'
           /\ ConnectionLost => Typed'
           /\ Connect => Typed'
           /\ Announce => Typed'
  <1>1. ASSUME NEW b \in Books, NEW v \in Versions, CatalogRepeats(b, v) PROVE Typed'
    <2>1. faults \in 0..MaxFaults /\ faults > 0 /\ faults' = faults - 1
      BY <1>1 DEF Typed, TypeOK, CatalogRepeats
    <2>2. faults' \in 0..MaxFaults
      BY <2>1, StreamAssumption
    <2>3. [book |-> b, version |-> v] \in Events
      BY DEF Events
    <2>4. TypeOK'
      BY <1>1, <2>2, <2>3 DEF Typed, TypeOK, CatalogRepeats, hub
    <2>. QED
      BY <1>1, <2>4 DEF Typed, Bounded, CatalogRepeats
  <1>2. ASSUME NEW e \in flight, QueueDrops(e) PROVE Typed'
    <2>1. faults \in 0..MaxFaults /\ faults > 0 /\ faults' = faults - 1
      BY <1>2 DEF Typed, TypeOK, QueueDrops
    <2>2. faults' \in 0..MaxFaults
      BY <2>1, StreamAssumption
    <2>3. e.book \in Books
      BY DEF Typed, TypeOK, Events
    <2>4. TypeOK'
      BY <1>2, <2>2, <2>3 DEF Typed, TypeOK, QueueDrops, hub
    <2>. QED
      BY <1>2, <2>4 DEF Typed, Bounded, QueueDrops
  <1>3. ASSUME ConnectionLost PROVE Typed'
    <2>1. faults \in 0..MaxFaults /\ faults > 0 /\ faults' = faults - 1
      BY <1>3 DEF Typed, TypeOK, ConnectionLost
    <2>2. faults' \in 0..MaxFaults
      BY <2>1, StreamAssumption
    <2>4. TypeOK'
      BY <1>3, <2>2 DEF Typed, TypeOK, ConnectionLost, hub
    <2>. QED
      BY <1>3, <2>4 DEF Typed, Bounded, ConnectionLost
  <1>4. ASSUME Connect PROVE Typed'
    BY <1>4 DEF Typed, TypeOK, Bounded, Connect, hub
  <1>5. ASSUME Announce PROVE Typed'
    BY <1>5 DEF Typed, TypeOK, Bounded, Announce
  <1>. QED
    BY <1>1, <1>2, <1>3, <1>4, <1>5

LEMMA HubTyped ==
    ASSUME Typed
    PROVE  /\ \A e \in flight : Receive(e) => Typed'
           /\ Withdraw => Typed'
           /\ \A s \in Streams, k \in Sessions, i \in IPs : subscribe(s, k, i) => Typed'
  <1>1. ASSUME NEW e \in flight, Receive(e) PROVE Typed'
    <2>1. e.book \in Books /\ e.version \in 0..MaxPublications
      <3>1. e \in Events
        BY DEF Typed, TypeOK
      <3>2. e.version \in 1..MaxPublications /\ e.book \in Books
        BY <3>1 DEF Events, Versions
      <3>. QED
        BY <3>2, StreamAssumption
    <2>2. ASSUME NEW s \in Streams PROVE queued(s, e) \in [Books -> 0..MaxPublications]
      <3>1. pending[s] \in [Books -> 0..MaxPublications]
        BY DEF Typed, TypeOK
      <3>. QED
        BY <2>1, <3>1, NoEventsType DEF queued
    <2>3. pending' \in [Streams -> [Books -> 0..MaxPublications]]
      BY <1>1, <2>2 DEF Typed, TypeOK, Receive, Publish, hub
    <2>4. resync' \subseteq Streams /\ wake' \subseteq Streams
      BY <1>1 DEF Typed, TypeOK, Receive, Publish, hub, overflowed, signalled
    <2>5. TypeOK'
      BY <1>1, <2>3, <2>4 DEF Typed, TypeOK, Receive, Publish, hub
    <2>. QED
      BY <1>1, <2>5 DEF Typed, Bounded, Receive
  <1>2. ASSUME Withdraw PROVE Typed'
    <2>1. subs \in SUBSET Streams /\ remove(subs) /\ TypeOK
      BY <1>2 DEF Typed, TypeOK, Withdraw
    <2>2. /\ subs' \subseteq Streams
          /\ bySession' \in [Sessions -> Nat] /\ byIP' \in [IPs -> Nat]
      BY <2>1, RemoveType
    <2>3. TypeOK'
      BY <1>2, <2>2 DEF Typed, TypeOK, Withdraw
    <2>. QED
      BY <1>2, <2>3 DEF Typed, Bounded, Withdraw
  <1>3. ASSUME NEW s \in Streams, NEW k \in Sessions, NEW i \in IPs, subscribe(s, k, i)
        PROVE  Typed'
    <2>1. bySession' \in [Sessions -> Nat] /\ byIP' \in [IPs -> Nat]
      BY <1>3 DEF Typed, TypeOK, subscribe
    <2>2. who' \in [Streams -> [session : Sessions, ip : IPs]]
      BY <1>3 DEF Typed, TypeOK, subscribe
    <2>3. TypeOK'
      BY <1>3, <2>1, <2>2 DEF Typed, TypeOK, subscribe, broker
    <2>. QED
      BY <1>3, <2>3 DEF Typed, Bounded, subscribe, broker
  <1>. QED
    BY <1>1, <1>2, <1>3

LEMMA HandlerTyped ==
    ASSUME Typed, NEW s \in Streams
    PROVE  /\ WriteResync(s) => Typed'
           /\ ReceiveWake(s) => Typed'
           /\ drain(s) => Typed'
           /\ \A b \in Books : WriteEvent(s, b) => Typed'
           /\ WrittenAll(s) => Typed'
           /\ Return(s) => Typed'
  <1>1. ASSUME WriteResync(s) PROVE Typed'
    <2>1. shown' \in [Streams -> [Books -> 0..MaxPublications]]
      BY <1>1 DEF Typed, TypeOK, WriteResync, Newest
    <2>2. TypeOK'
      BY <1>1, <2>1 DEF Typed, TypeOK, WriteResync, broker, hub
    <2>. QED
      BY <1>1, <2>2 DEF Typed, Bounded, WriteResync, broker
  <1>2. ASSUME ReceiveWake(s) PROVE Typed'
    <2>2. TypeOK'
      BY <1>2 DEF Typed, TypeOK, ReceiveWake, broker
    <2>. QED
      BY <1>2, <2>2 DEF Typed, Bounded, ReceiveWake, broker
  <1>3. ASSUME drain(s) PROVE Typed'
    <2>1. /\ pending' \in [Streams -> [Books -> 0..MaxPublications]]
          /\ batch' \in [Streams -> [Books -> 0..MaxPublications]]
      <3>0. /\ pending \in [Streams -> [Books -> 0..MaxPublications]]
            /\ batch \in [Streams -> [Books -> 0..MaxPublications]]
        BY DEF Typed, TypeOK
      <3>1. CASE s \in resync
        BY <1>3, <3>0, <3>1 DEF drain
      <3>2. CASE s \notin resync
        <4>1. /\ batch' = [batch EXCEPT ![s] = pending[s]]
              /\ pending' = [pending EXCEPT ![s] = NoEvents]
          BY <1>3, <3>2 DEF drain
        <4>2. pending[s] \in [Books -> 0..MaxPublications]
          BY <3>0
        <4>. QED
          BY <3>0, <4>1, <4>2, NoEventsType
      <3>. QED
        BY <3>1, <3>2
    <2>2. TypeOK'
      BY <1>3, <2>1 DEF Typed, TypeOK, drain, broker
    <2>. QED
      BY <1>3, <2>2 DEF Typed, Bounded, drain, broker
  <1>4. ASSUME NEW b \in Books, WriteEvent(s, b) PROVE Typed'
    <2>0. 0 \in 0..MaxPublications
      BY StreamAssumption
    <2>1. shown' \in [Streams -> [Books -> 0..MaxPublications]]
      <3>1. shown[s][b] \in 0..MaxPublications /\ batch[s][b] \in 0..MaxPublications
        BY DEF Typed, TypeOK
      <3>2. Newest(shown[s][b], batch[s][b]) \in 0..MaxPublications
        BY <3>1 DEF Newest
      <3>3. shown[s] \in [Books -> 0..MaxPublications]
        BY DEF Typed, TypeOK
      <3>4. [shown[s] EXCEPT ![b] = Newest(shown[s][b], batch[s][b])]
                \in [Books -> 0..MaxPublications]
        BY <3>2, <3>3
      <3>. QED
        BY <1>4, <3>4 DEF Typed, TypeOK, WriteEvent
    <2>2. batch' \in [Streams -> [Books -> 0..MaxPublications]]
      BY <1>4, <2>0 DEF Typed, TypeOK, WriteEvent
    <2>3. TypeOK'
      BY <1>4, <2>1, <2>2 DEF Typed, TypeOK, WriteEvent, broker, hub
    <2>. QED
      BY <1>4, <2>3 DEF Typed, Bounded, WriteEvent, broker
  <1>5. ASSUME WrittenAll(s) PROVE Typed'
    <2>3. TypeOK'
      BY <1>5 DEF Typed, TypeOK, WrittenAll, broker, hub
    <2>. QED
      BY <1>5, <2>3 DEF Typed, Bounded, WrittenAll, broker
  <1>6. ASSUME Return(s) PROVE Typed'
    <2>1. {s} \in SUBSET Streams /\ remove({s}) /\ TypeOK
      BY <1>6 DEF Typed, Return
    <2>2. /\ subs' \subseteq Streams
          /\ bySession' \in [Sessions -> Nat] /\ byIP' \in [IPs -> Nat]
      BY <2>1, RemoveType
    <2>3. who' \in [Streams -> [session : Sessions, ip : IPs]]
      BY <1>6, NobodyType DEF Typed, TypeOK, Return
    <2>4. /\ pending' \in [Streams -> [Books -> 0..MaxPublications]]
          /\ batch' \in [Streams -> [Books -> 0..MaxPublications]]
          /\ shown' \in [Streams -> [Books -> 0..MaxPublications]]
      BY <1>6, NoEventsType DEF Typed, TypeOK, Return
    <2>5. TypeOK'
      BY <1>6, <2>2, <2>3, <2>4 DEF Typed, TypeOK, Return, broker
    <2>. QED
      BY <1>6, <2>5 DEF Typed, Bounded, Return, broker
  <1>. QED
    BY <1>1, <1>2, <1>3, <1>4, <1>5, <1>6

LEMMA TypedStep == Typed /\ [Next]_vars => Typed'
  <1> SUFFICES ASSUME Typed, [Next]_vars PROVE Typed'
    OBVIOUS
  <1>1. ASSUME NEW s \in Streams, Handle(s) \/ StreamStops(s) PROVE Typed'
    BY <1>1, HandlerTyped DEF Handle, StreamEnds, StreamStops
  <1>2. ASSUME Consume PROVE Typed'
    BY <1>2, BrokerTyped, HubTyped DEF Consume
  <1>3. CASE UNCHANGED vars
    BY <1>3 DEF vars, broker, hub, Typed, TypeOK, Bounded
  <1>. QED
    BY <1>1, <1>2, <1>3, CatalogPublishesTyped, BrokerTyped, HubTyped DEF Next

-----------------------------------------------------------------------------
(* Registration, returned handlers and drained events *)

Shape == FeedInv /\ IdleInv /\ QueueInv

LEMMA ShapeStep == Typed /\ Shape /\ [Next]_vars => Shape'
  <1> SUFFICES ASSUME Typed, Shape, [Next]_vars PROVE Shape'
    OBVIOUS
  <1> USE DEF Shape
  <1>1. ASSUME NEW b \in Books, CatalogPublishes(b) PROVE Shape'
    BY <1>1 DEF FeedInv, IdleInv, QueueInv, CatalogPublishes, hub
  <1>2. ASSUME NEW b \in Books, NEW v \in Versions, CatalogRepeats(b, v) PROVE Shape'
    BY <1>2 DEF FeedInv, IdleInv, QueueInv, CatalogRepeats, hub
  <1>3. ASSUME NEW e \in flight, QueueDrops(e) PROVE Shape'
    BY <1>3 DEF FeedInv, IdleInv, QueueInv, QueueDrops, hub
  <1>4. ASSUME ConnectionLost PROVE Shape'
    BY <1>4 DEF FeedInv, IdleInv, QueueInv, ConnectionLost, hub
  <1>5. ASSUME Connect PROVE Shape'
    BY <1>5 DEF FeedInv, IdleInv, QueueInv, Connect, hub
  <1>6. ASSUME Announce PROVE Shape'
    BY <1>6 DEF FeedInv, IdleInv, QueueInv, Announce
  <1>7. ASSUME NEW e \in flight, Receive(e) PROVE Shape'
    <2>1. available /\ Publish(e) /\ UNCHANGED <<consumer, writer, batch>>
      BY <1>7 DEF Receive, FeedInv
    <2>2. /\ pending' = [s \in Streams |-> queued(s, e)]
          /\ resync' = resync \cup overflowed(e)
          /\ UNCHANGED <<available, subs>>
      BY <2>1 DEF Publish
    <2>3. FeedInv'
      BY <2>1, <2>2 DEF FeedInv
    <2>4. ASSUME NEW s \in Streams, s \notin subs
          PROVE  pending'[s] = pending[s] /\ (s \in resync' <=> s \in resync)
      BY <2>2, <2>4 DEF queued, overflowed
    <2>5. IdleInv'
      BY <2>1, <2>2, <2>4 DEF IdleInv
    <2>6. ASSUME NEW s \in Streams, s \in resync' PROVE pending'[s] = NoEvents
      <3>1. CASE s \in resync
        BY <2>2, <3>1 DEF queued, Ignores, QueueInv
      <3>2. CASE s \in overflowed(e)
        BY <2>2, <3>2 DEF queued, overflowed, Overflows
      <3>. QED
        BY <2>2, <2>6, <3>1, <3>2
    <2>7. QueueInv'
      BY <2>1, <2>6 DEF QueueInv
    <2>. QED
      BY <2>3, <2>5, <2>7
  <1>8. ASSUME Withdraw PROVE Shape'
    BY <1>8 DEF FeedInv, IdleInv, QueueInv, Withdraw, remove
  <1>9. ASSUME NEW s \in Streams, NEW k \in Sessions, NEW i \in IPs, subscribe(s, k, i)
        PROVE  Shape'
    <2>1. FeedInv'
      BY <1>9 DEF FeedInv, subscribe, Admitted, broker
    <2>2. \A t \in Streams : writer'[t] = IF t = s THEN "opening" ELSE writer[t]
      BY <1>9 DEF Typed, TypeOK, subscribe
    <2>3. writer[s] = "idle" /\ subs' = subs \cup {s} /\ UNCHANGED <<pending, resync, batch>>
      BY <1>9 DEF subscribe
    <2>4. IdleInv'
      BY <2>2, <2>3 DEF IdleInv
    <2>5. QueueInv'
      BY <2>2, <2>3 DEF IdleInv, QueueInv
    <2>. QED
      BY <2>1, <2>4, <2>5
  <1>10. ASSUME NEW s \in Streams, Handle(s) \/ StreamStops(s) PROVE Shape'
    <2>1. UNCHANGED <<consumer, available>> /\ subs' \subseteq subs
      BY <1>10 DEF Handle, StreamStops, StreamEnds, WriteResync, ReceiveWake, drain, WriteEvent,
                   WrittenAll, Return, remove, broker, hub
    <2>2. FeedInv'
      BY <2>1 DEF FeedInv
    <2>3. CASE WriteResync(s)
      <3>1. /\ \A t \in Streams : writer'[t] = IF t = s THEN "select" ELSE writer[t]
            /\ writer[s] \in {"opening", "resyncing"}
            /\ UNCHANGED <<subs, pending, resync, batch>>
        BY <2>3 DEF Typed, TypeOK, WriteResync, hub
      <3>. QED
        BY <2>2, <3>1 DEF IdleInv, QueueInv
    <2>4. CASE ReceiveWake(s)
      <3>1. /\ \A t \in Streams : writer'[t] = IF t = s THEN "woken" ELSE writer[t]
            /\ writer[s] = "select"
            /\ UNCHANGED <<subs, pending, resync, batch>>
        BY <2>4 DEF Typed, TypeOK, ReceiveWake
      <3>. QED
        BY <2>2, <3>1 DEF IdleInv, QueueInv
    <2>5. CASE drain(s)
      <3>0. writer[s] = "woken" /\ s \in subs /\ UNCHANGED subs
        BY <2>5 DEF drain
      <3>1. CASE s \in resync
        <4>1. /\ \A t \in Streams : writer'[t] = IF t = s THEN "resyncing" ELSE writer[t]
              /\ resync' = resync \ {s} /\ UNCHANGED <<pending, batch>>
          BY <2>5, <3>1 DEF Typed, TypeOK, drain
        <4>. QED
          BY <2>2, <3>0, <4>1 DEF IdleInv, QueueInv
      <3>2. CASE s \notin resync
        <4>1. /\ \A t \in Streams : writer'[t] = IF t = s THEN "writing" ELSE writer[t]
              /\ \A t \in Streams : batch'[t] = IF t = s THEN pending[s] ELSE batch[t]
              /\ \A t \in Streams : pending'[t] = IF t = s THEN NoEvents ELSE pending[t]
              /\ UNCHANGED resync
          BY <2>5, <3>2 DEF Typed, TypeOK, drain
        <4>2. IdleInv'
          BY <3>0, <4>1 DEF IdleInv
        <4>3. QueueInv'
          BY <4>1 DEF QueueInv
        <4>. QED
          BY <2>2, <4>2, <4>3
      <3>. QED
        BY <3>1, <3>2
    <2>6. ASSUME NEW b \in Books, WriteEvent(s, b) PROVE Shape'
      <3>1. /\ writer[s] = "writing" /\ UNCHANGED <<writer, subs, pending, resync>>
            /\ \A t \in Streams : t # s => batch'[t] = batch[t]
        BY <2>6 DEF Typed, TypeOK, WriteEvent, hub
      <3>. QED
        BY <2>2, <3>1 DEF IdleInv, QueueInv
    <2>7. CASE WrittenAll(s)
      <3>1. /\ \A t \in Streams : writer'[t] = IF t = s THEN "select" ELSE writer[t]
            /\ writer[s] = "writing" /\ batch[s] = NoEvents
            /\ UNCHANGED <<subs, pending, resync, batch>>
        BY <2>7 DEF Typed, TypeOK, WrittenAll, hub
      <3>. QED
        BY <2>2, <3>1 DEF IdleInv, QueueInv
    <2>8. CASE Return(s)
      <3>1. /\ \A t \in Streams : writer'[t] = IF t = s THEN "idle" ELSE writer[t]
            /\ \A t \in Streams : pending'[t] = IF t = s THEN NoEvents ELSE pending[t]
            /\ \A t \in Streams : batch'[t] = IF t = s THEN NoEvents ELSE batch[t]
            /\ subs' = subs \ {s} /\ resync' = resync \ {s}
        BY <2>8 DEF Typed, TypeOK, Return, remove
      <3>2. IdleInv'
        BY <3>1 DEF IdleInv
      <3>3. QueueInv'
        BY <3>1 DEF QueueInv
      <3>. QED
        BY <2>2, <3>2, <3>3
    <2>. QED
      BY <1>10, <2>3, <2>4, <2>5, <2>6, <2>7, <2>8 DEF Handle, StreamEnds, StreamStops
  <1>11. CASE UNCHANGED vars
    BY <1>11 DEF vars, broker, hub, FeedInv, IdleInv, QueueInv
  <1>. QED
    BY <1>1, <1>2, <1>3, <1>4, <1>5, <1>6, <1>7, <1>8, <1>9, <1>10, <1>11 DEF Next, Consume

-----------------------------------------------------------------------------
(* No lost wake-up *)

(* A subscriber holds nothing to tell when its pending events are empty. *)
LEMMA WaitingNothing ==
    ASSUME NEW s, pending[s] = NoEvents
    PROVE  Waiting(s) = {}
  BY DEF Waiting, NoEvents

LEMMA WakeStep == Typed /\ Shape /\ NoLostWakeup /\ [Next]_vars => NoLostWakeup'
  <1> SUFFICES ASSUME Typed, Shape, NoLostWakeup, [Next]_vars PROVE NoLostWakeup'
    OBVIOUS
  <1>1. ASSUME UNCHANGED <<subs, resync, pending, wake, writer>> PROVE NoLostWakeup'
    BY <1>1 DEF NoLostWakeup, Waiting, WakePending
  <1>2. ASSUME NEW e \in flight, Receive(e) PROVE NoLostWakeup'
    <2>1. available /\ Publish(e) /\ UNCHANGED writer
      BY <1>2 DEF Receive, Shape, FeedInv
    <2>2. /\ pending' = [s \in Streams |-> queued(s, e)]
          /\ resync' = resync \cup overflowed(e) /\ wake' = wake \cup signalled(e)
          /\ UNCHANGED subs
      BY <2>1 DEF Publish
    <2> SUFFICES ASSUME NEW s \in subs', s \in resync' \/ Waiting(s)' # {}
                 PROVE  WakePending(s)'
      BY DEF NoLostWakeup
    <2>3. s \in subs /\ s \in Streams
      BY <2>2 DEF Typed, TypeOK
    <2>4. CASE Ignores(s, e)
      <3>1. s \in resync' <=> s \in resync
        BY <2>2, <2>4 DEF overflowed, Overflows
      <3>2. pending'[s] = pending[s]
        BY <2>2, <2>3, <2>4 DEF queued
      <3>3. Waiting(s)' = Waiting(s)
        BY <3>2 DEF Waiting
      <3>4. WakePending(s)
        BY <2>3, <3>1, <3>3 DEF NoLostWakeup
      <3>. QED
        BY <2>1, <2>2, <3>4 DEF WakePending
    <2>5. CASE ~Ignores(s, e)
      BY <2>2, <2>3, <2>5 DEF signalled, WakePending
    <2>. QED
      BY <2>4, <2>5
  <1>3. ASSUME Withdraw PROVE NoLostWakeup'
    BY <1>3 DEF NoLostWakeup, Withdraw, remove
  <1>4. ASSUME NEW s \in Streams, NEW k \in Sessions, NEW i \in IPs, subscribe(s, k, i)
        PROVE  NoLostWakeup'
    <2>1. /\ subs' = subs \cup {s} /\ UNCHANGED <<pending, resync, wake>> /\ writer[s] = "idle"
          /\ \A t \in Streams : t # s => writer'[t] = writer[t]
      BY <1>4 DEF Typed, TypeOK, subscribe
    <2>2. Waiting(s) = {} /\ s \notin resync
      BY <2>1, WaitingNothing DEF Shape, IdleInv
    <2>3. subs \subseteq Streams
      BY DEF Typed, TypeOK
    <2>. QED
      BY <2>1, <2>2, <2>3 DEF NoLostWakeup, Waiting, WakePending
  <1>5. ASSUME NEW s \in Streams, Handle(s) \/ StreamStops(s) PROVE NoLostWakeup'
    <2>0. subs \subseteq Streams
      BY DEF Typed, TypeOK
    <2>1. CASE WriteResync(s) \/ WrittenAll(s)
      <3>1. /\ UNCHANGED <<subs, pending, resync, wake>> /\ writer[s] # "woken"
            /\ \A t \in Streams : t # s => writer'[t] = writer[t]
        BY <2>1 DEF Typed, TypeOK, WriteResync, WrittenAll, hub
      <3>. QED
        BY <2>0, <3>1 DEF NoLostWakeup, Waiting, WakePending
    <2>2. CASE ReceiveWake(s)
      <3>1. /\ UNCHANGED <<subs, pending, resync>> /\ wake' = wake \ {s}
            /\ \A t \in Streams : writer'[t] = IF t = s THEN "woken" ELSE writer[t]
        BY <2>2 DEF Typed, TypeOK, ReceiveWake
      <3>. QED
        BY <2>0, <3>1 DEF NoLostWakeup, Waiting, WakePending
    <2>3. CASE drain(s)
      <3>0. /\ s \in subs /\ UNCHANGED <<subs, wake>>
            /\ \A t \in Streams : t # s => writer'[t] = writer[t] /\ pending'[t] = pending[t]
        BY <2>3 DEF Typed, TypeOK, drain
      <3>1. pending'[s] = NoEvents /\ s \notin resync' /\ resync' \subseteq resync
        <4>1. CASE s \in resync
          BY <2>3, <4>1 DEF drain, Shape, QueueInv
        <4>2. CASE s \notin resync
          BY <2>3, <4>2 DEF drain, Typed, TypeOK
        <4>. QED
          BY <4>1, <4>2
      <3>2. Waiting(s)' = {}
        BY <3>1 DEF Waiting, NoEvents
      <3>3. \A t \in Streams : t # s => Waiting(t)' = Waiting(t)
        BY <3>0 DEF Waiting
      <3>. QED
        BY <2>0, <3>0, <3>1, <3>2, <3>3 DEF NoLostWakeup, WakePending
    <2>4. ASSUME NEW b \in Books, WriteEvent(s, b) PROVE NoLostWakeup'
      BY <1>1, <2>4 DEF WriteEvent, hub
    <2>5. CASE Return(s)
      <3>1. /\ subs' = subs \ {s} /\ resync' = resync \ {s} /\ wake' = wake \ {s}
            /\ \A t \in Streams : t # s => writer'[t] = writer[t] /\ pending'[t] = pending[t]
        BY <2>5 DEF Typed, TypeOK, Return, remove
      <3>2. \A t \in Streams : t # s => Waiting(t)' = Waiting(t)
        BY <3>1 DEF Waiting
      <3>. QED
        BY <2>0, <3>1, <3>2 DEF NoLostWakeup, WakePending
    <2>. QED
      BY <1>5, <2>1, <2>2, <2>3, <2>4, <2>5 DEF Handle, StreamEnds, StreamStops
  <1>6. CASE UNCHANGED vars
    BY <1>1, <1>6 DEF vars, hub
  <1>7. ASSUME \/ \E b \in Books : CatalogPublishes(b) \/ \E v \in Versions : CatalogRepeats(b, v)
               \/ \E e \in flight : QueueDrops(e)
               \/ ConnectionLost \/ Connect \/ Announce
        PROVE  NoLostWakeup'
    BY <1>1, <1>7 DEF CatalogPublishes, CatalogRepeats, QueueDrops, ConnectionLost, Connect,
                      Announce, hub
  <1>. QED
    BY <1>2, <1>3, <1>4, <1>5, <1>6, <1>7 DEF Next, Consume

-----------------------------------------------------------------------------
(* Nothing is missed *)

Told(s, b) == shown[s][b] >= catalog[b] \/ OnItsWay(s, b) \/ b \in lost

LEMMA MissedStep ==
    Typed /\ Shape /\ NothingMissed /\ [Next]_vars => NothingMissed'
  <1> SUFFICES ASSUME Typed, Shape, NothingMissed, [Next]_vars,
                      connected', NEW t \in subs', NEW b \in Books
               PROVE  Told(t, b)'
    BY DEF NothingMissed, Told
  <1>0. /\ subs \subseteq Streams
        /\ connected /\ t \in subs => Told(t, b)
    BY DEF Typed, TypeOK, NothingMissed, Told
  <1> DEFINE rest == <<resync, pending, batch, shown, writer>>
  <1>1. ASSUME NEW a \in Books, CatalogPublishes(a) PROVE Told(t, b)'
    <2>1. /\ connected /\ t \in subs /\ UNCHANGED <<rest, lost>>
          /\ flight' = flight \cup {[book |-> a, version |-> catalog[a] + 1]}
      BY <1>1 DEF CatalogPublishes, hub
    <2>2. catalog'[b] = IF a = b THEN catalog[b] + 1 ELSE catalog[b]
      BY <1>1 DEF CatalogPublishes, Typed, TypeOK
    <2>3. CASE a = b
      <3>1. [book |-> b, version |-> catalog[b] + 1] \in flight'
        BY <2>1, <2>3
      <3>2. catalog[b] \in Int
        BY DEF Typed, TypeOK
      <3>3. catalog'[b] = catalog[b] + 1
        BY <2>2, <2>3
      <3>4. catalog[b] + 1 >= catalog'[b]
        BY <3>2, <3>3
      <3>. QED
        BY <3>1, <3>4 DEF Told, OnItsWay
    <2>4. CASE a # b
      <3>1. Told(t, b)
        BY <1>0, <2>1
      <3>. QED
        BY <2>1, <2>2, <2>4, <3>1 DEF Told, OnItsWay
    <2>. QED
      BY <2>3, <2>4
  <1>2. ASSUME NEW a \in Books, NEW v \in Versions, CatalogRepeats(a, v) PROVE Told(t, b)'
    <2>1. Told(t, b)
      BY <1>0, <1>2 DEF CatalogRepeats, hub
    <2>. QED
      BY <1>2, <2>1 DEF CatalogRepeats, hub, Told, OnItsWay
  <1>3. ASSUME NEW e \in flight, QueueDrops(e) PROVE Told(t, b)'
    <2>1. Told(t, b)
      BY <1>0, <1>3 DEF QueueDrops, hub
    <2>2. /\ flight' = flight \ {e} /\ lost' = lost \cup {e.book}
          /\ UNCHANGED <<catalog, resync, pending, batch, shown, writer>>
      BY <1>3 DEF QueueDrops, hub
    <2>. QED
      BY <2>1, <2>2 DEF Told, OnItsWay
  <1>4. ASSUME ConnectionLost PROVE Told(t, b)'
    BY <1>4 DEF ConnectionLost
  <1>5. ASSUME Connect PROVE Told(t, b)'
    BY <1>5 DEF Connect, hub, Shape, FeedInv
  <1>6. ASSUME Announce PROVE Told(t, b)'
    <2>1. Told(t, b)
      BY <1>0, <1>6 DEF Announce
    <2>. QED
      BY <1>6, <2>1 DEF Announce, Told, OnItsWay
  <1>7. ASSUME NEW e \in flight, Receive(e) PROVE Told(t, b)'
    <2>1. /\ available /\ Publish(e) /\ flight' = flight \ {e}
          /\ UNCHANGED <<catalog, lost, connected, writer, batch, shown>>
      BY <1>7 DEF Receive, Shape, FeedInv
    <2>2. /\ pending' = [s \in Streams |-> queued(s, e)]
          /\ resync' = resync \cup overflowed(e) /\ UNCHANGED subs
      BY <2>1 DEF Publish
    <2>3. Told(t, b) /\ t \in subs /\ t \in Streams
      BY <1>0, <2>1, <2>2
    <2>4. /\ pending[t] \in [Books -> 0..MaxPublications] /\ catalog[b] \in Int
          /\ e.book \in Books /\ e.version \in Int
      <3>1. e \in Events /\ pending[t] \in [Books -> 0..MaxPublications]
            /\ catalog \in [Books -> 0..MaxPublications]
        BY <2>3 DEF Typed, TypeOK
      <3>. QED
        BY <3>1 DEF Events, Versions
    <2>5. CASE t \in resync'
      BY <2>5 DEF Told, OnItsWay
    <2>6. CASE t \notin resync' /\ Ignores(t, e)
      <3>1. pending'[t] = pending[t] /\ pending[t][e.book] >= e.version
        BY <2>2, <2>3, <2>6 DEF queued, Ignores
      <3>2. ASSUME e.book = b, e.version >= catalog[b] PROVE pending[t][b] >= catalog[b]
        <4>1. pending[t][b] \in Int
          BY <2>4
        <4>. QED
          BY <2>4, <3>1, <3>2, <4>1
      <3>. QED
        BY <2>1, <2>2, <2>3, <3>1, <3>2 DEF Told, OnItsWay
    <2>7. CASE t \notin resync' /\ ~Ignores(t, e)
      <3>1. ~Overflows(t, e) /\ t \notin resync
        BY <2>2, <2>3, <2>7 DEF overflowed
      <3>2. pending'[t] = [pending[t] EXCEPT ![e.book] = e.version]
        BY <2>2, <2>3, <2>7, <3>1 DEF queued
      <3>3. pending[t][e.book] \in Int /\ ~(pending[t][e.book] >= e.version)
        BY <2>4, <2>7 DEF Ignores
      <3>4. pending'[t][e.book] = e.version
        BY <2>4, <3>2
      <3>5. e.book # b => pending'[t][b] = pending[t][b]
        BY <2>4, <3>2
      <3>6. ASSUME e.book = b, pending[t][b] >= catalog[b] PROVE pending'[t][b] >= catalog[b]
        BY <2>4, <3>3, <3>4, <3>6
      <3>7. ASSUME pending[t][b] >= catalog[b] PROVE pending'[t][b] >= catalog[b]
        BY <3>5, <3>6, <3>7
      <3>8. ASSUME e.book = b, e.version >= catalog[b] PROVE pending'[t][b] >= catalog[b]
        BY <3>4, <3>8
      <3>. QED
        BY <2>1, <2>3, <3>1, <3>7, <3>8 DEF Told, OnItsWay
    <2>. QED
      BY <2>5, <2>6, <2>7
  <1>8. ASSUME Withdraw PROVE Told(t, b)'
    BY <1>8 DEF Withdraw, remove
  <1>9. ASSUME NEW s \in Streams, NEW k \in Sessions, NEW i \in IPs, subscribe(s, k, i)
        PROVE  Told(t, b)'
    <2>1. /\ subs' = subs \cup {s}
          /\ UNCHANGED <<catalog, flight, lost, connected, resync, pending, batch, shown>>
          /\ \A u \in Streams : writer'[u] = IF u = s THEN "opening" ELSE writer[u]
      BY <1>9 DEF subscribe, broker, Typed, TypeOK
    <2>2. CASE t = s
      BY <2>1, <2>2 DEF Told, OnItsWay
    <2>3. CASE t # s
      <3>1. t \in subs /\ t \in Streams /\ Told(t, b) /\ writer'[t] = writer[t]
        BY <1>0, <2>1, <2>3
      <3>. QED
        BY <2>1, <3>1 DEF Told, OnItsWay
    <2>. QED
      BY <2>2, <2>3
  <1>10. ASSUME NEW s \in Streams, Handle(s) \/ StreamStops(s) PROVE Told(t, b)'
    <2>1. /\ UNCHANGED broker /\ subs' \subseteq subs
          /\ t # s => UNCHANGED <<writer[t], pending[t], batch[t], shown[t]>>
          /\ t # s => (t \in resync' <=> t \in resync)
      BY <1>10 DEF Handle, StreamStops, StreamEnds, WriteResync, ReceiveWake, drain, WriteEvent,
                   WrittenAll, Return, remove, hub, Typed, TypeOK
    <2>2. Told(t, b) /\ t \in Streams /\ UNCHANGED <<catalog, flight, lost>>
      BY <1>0, <2>1 DEF broker
    <2>3. CASE t # s
      BY <2>1, <2>2, <2>3 DEF Told, OnItsWay
    <2>4. /\ catalog[b] \in Nat /\ shown[s][b] \in Nat /\ batch[s][b] \in Nat
          /\ pending[s][b] \in Nat
      BY DEF Typed, TypeOK
    <2>5. CASE t = s /\ WriteResync(s)
      <3>1. shown'[s][b] = Newest(shown[s][b], catalog[b])
        BY <2>5 DEF WriteResync, Typed, TypeOK
      <3>2. shown'[s][b] >= catalog'[b]
        BY <2>2, <2>4, <3>1 DEF Newest
      <3>. QED
        BY <2>5, <3>2 DEF Told
    <2>6. CASE t = s /\ (ReceiveWake(s) \/ WrittenAll(s))
      <3>1. /\ writer[s] \notin {"opening", "resyncing"}
            /\ UNCHANGED <<pending, batch, shown, resync>>
        BY <2>6 DEF ReceiveWake, WrittenAll, hub
      <3>. QED
        BY <2>2, <2>6, <3>1 DEF Told, OnItsWay
    <2>7. CASE t = s /\ drain(s)
      <3>1. CASE s \in resync
        BY <2>7, <3>1 DEF drain, Told, OnItsWay, Typed, TypeOK
      <3>2. CASE s \notin resync
        <4>1. /\ writer[s] = "woken" /\ batch'[s] = pending[s] /\ shown' = shown
          BY <2>7, <3>2 DEF drain, Typed, TypeOK
        <4>2. batch[s] = NoEvents
          BY <4>1 DEF Shape, QueueInv
        <4>3. batch[s][b] = 0
          BY <4>2 DEF NoEvents
        <4>4. batch[s][b] >= catalog[b] => shown[s][b] >= catalog[b]
          BY <2>4, <4>3
        <4>. QED
          BY <2>2, <2>7, <3>2, <4>1, <4>4 DEF Told, OnItsWay
      <3>. QED
        BY <3>1, <3>2
    <2>8. ASSUME t = s, NEW a \in Books, WriteEvent(s, a) PROVE Told(t, b)'
      <3>1. UNCHANGED <<pending, resync, writer>>
        BY <2>8 DEF WriteEvent, hub
      <3>2. CASE a # b
        <4>1. shown'[s][b] = shown[s][b] /\ batch'[s][b] = batch[s][b]
          BY <2>8, <3>2 DEF WriteEvent, Typed, TypeOK
        <4>. QED
          BY <2>2, <2>8, <3>1, <4>1 DEF Told, OnItsWay
      <3>3. CASE a = b
        <4>1. shown'[s][b] = Newest(shown[s][b], batch[s][b])
          BY <2>8, <3>3 DEF WriteEvent, Typed, TypeOK
        <4>2. shown'[s][b] >= shown[s][b] /\ shown'[s][b] >= batch[s][b] /\ shown'[s][b] \in Nat
          BY <2>4, <4>1 DEF Newest
        <4>3. shown[s][b] >= catalog[b] \/ batch[s][b] >= catalog[b] => shown'[s][b] >= catalog[b]
          BY <2>4, <4>2
        <4>. QED
          BY <2>2, <2>8, <3>1, <4>3 DEF Told, OnItsWay
      <3>. QED
        BY <3>2, <3>3
    <2>9. CASE Return(s)
      <3>1. t # s
        BY <2>9 DEF Return, remove
      <3>. QED
        BY <2>3, <3>1
    <2>. QED
      BY <1>10, <2>3, <2>5, <2>6, <2>7, <2>8, <2>9 DEF Handle, StreamEnds, StreamStops
  <1>11. CASE UNCHANGED vars
    <2>1. Told(t, b)
      BY <1>0, <1>11 DEF vars, broker, hub
    <2>. QED
      BY <1>11, <2>1 DEF vars, broker, hub, Told, OnItsWay
  <1>. QED
    BY <1>1, <1>2, <1>3, <1>4, <1>5, <1>6, <1>7, <1>8, <1>9, <1>10, <1>11 DEF Next, Consume

-----------------------------------------------------------------------------
(* The limits *)

CountsInv ==
    /\ Cardinality(subs) <= MaxSubscribers
    /\ \A k \in Sessions : /\ bySession[k] = Cardinality(Of(subs, "session", k))
                           /\ bySession[k] <= MaxSubscribersPerSession
    /\ \A i \in IPs : /\ byIP[i] = Cardinality(Of(subs, "ip", i))
                      /\ byIP[i] <= MaxSubscribersPerIP

RetainedInv ==
    \A s \in Streams :
        IsFiniteSet(Waiting(s)) /\ Cardinality(Waiting(s)) <= MaxPendingEvents

(* A set of streams, and those of it with a given session or address, are finite. *)
LEMMA OfFinite ==
    ASSUME NEW streams \in SUBSET Streams, NEW field, NEW k
    PROVE  /\ IsFiniteSet(streams) /\ Cardinality(streams) \in Nat
           /\ IsFiniteSet(Of(streams, field, k)) /\ Cardinality(Of(streams, field, k)) \in Nat
           /\ Cardinality(Of(streams, field, k)) <= Cardinality(streams)
  <1>1. IsFiniteSet(streams)
    BY StreamAssumption, FS_Subset
  <1>2. Of(streams, field, k) \subseteq streams
    BY DEF Of
  <1>. QED
    BY <1>1, <1>2, FS_Subset, FS_CardinalityType

(* Releasing registered subscribers keeps a count exact: it never falls below zero. *)
LEMMA ReleasedExact ==
    ASSUME NEW K, NEW counts \in [K -> Nat], NEW streams \in SUBSET Streams,
           NEW gone \in SUBSET streams, NEW field, NEW k \in K,
           counts[k] = Cardinality(Of(streams, field, k))
    PROVE  /\ released(counts, gone, field)[k] = Cardinality(Of(streams \ gone, field, k))
           /\ released(counts, gone, field)[k] <= counts[k]
  <1>1. /\ Of(streams \ gone, field, k) = Of(streams, field, k) \ Of(gone, field, k)
        /\ Of(streams, field, k) \cap Of(gone, field, k) = Of(gone, field, k)
    BY DEF Of
  <1>2. /\ IsFiniteSet(Of(streams, field, k)) /\ Cardinality(Of(streams, field, k)) \in Nat
        /\ IsFiniteSet(Of(gone, field, k)) /\ Cardinality(Of(gone, field, k)) \in Nat
        /\ Cardinality(Of(streams \ gone, field, k)) \in Nat
    BY OfFinite
  <1>3. Cardinality(Of(streams \ gone, field, k))
            = Cardinality(Of(streams, field, k)) - Cardinality(Of(gone, field, k))
    BY <1>1, <1>2, FS_Difference
  <1>4. released(counts, gone, field)[k] = Newest(0, counts[k] - Cardinality(Of(gone, field, k)))
    BY DEF released
  <1>. QED
    BY <1>2, <1>3, <1>4 DEF Newest

LEMMA RemoveCounts ==
    ASSUME Typed, CountsInv, NEW streams \in SUBSET Streams, remove(streams)
    PROVE  /\ Cardinality(subs') <= MaxSubscribers
           /\ \A k \in Sessions : /\ bySession'[k] = Cardinality(Of(subs \ streams, "session", k))
                                  /\ bySession'[k] <= MaxSubscribersPerSession
           /\ \A i \in IPs : /\ byIP'[i] = Cardinality(Of(subs \ streams, "ip", i))
                             /\ byIP'[i] <= MaxSubscribersPerIP
  <1> DEFINE gone == streams \cap subs
  <1>1. /\ bySession \in [Sessions -> Nat] /\ byIP \in [IPs -> Nat] /\ subs \in SUBSET Streams
        /\ gone \in SUBSET subs /\ subs \ streams = subs \ gone
    BY DEF Typed, TypeOK
  <1>2. /\ subs' = subs \ gone
        /\ bySession' = released(bySession, gone, "session")
        /\ byIP' = released(byIP, gone, "ip")
    BY DEF remove
  <1> HIDE DEF gone
  <1>3. Cardinality(subs') <= MaxSubscribers
    <2>1. subs' \subseteq subs /\ IsFiniteSet(subs)
      BY <1>1, <1>2, OfFinite
    <2>2. Cardinality(subs') <= Cardinality(subs)
      BY <2>1, FS_Subset
    <2>3. Cardinality(subs') \in Nat /\ Cardinality(subs) \in Nat
      BY <2>1, FS_Subset, FS_CardinalityType
    <2>. QED
      BY <2>2, <2>3, StreamAssumption DEF CountsInv
  <1>4. ASSUME NEW k \in Sessions
        PROVE  /\ bySession'[k] = Cardinality(Of(subs \ gone, "session", k))
               /\ bySession'[k] <= MaxSubscribersPerSession
    <2>1. bySession[k] = Cardinality(Of(subs, "session", k))
          /\ bySession[k] <= MaxSubscribersPerSession
      BY DEF CountsInv
    <2>2. /\ bySession'[k] = Cardinality(Of(subs \ gone, "session", k))
          /\ bySession'[k] <= bySession[k]
      <3>1. /\ released(bySession, gone, "session")[k]
                   = Cardinality(Of(subs \ gone, "session", k))
            /\ released(bySession, gone, "session")[k] <= bySession[k]
        BY <1>1, <2>1, ReleasedExact
      <3>. QED
        BY <1>2, <3>1
    <2>3. bySession[k] \in Nat /\ Cardinality(Of(subs \ gone, "session", k)) \in Nat
      BY <1>1, OfFinite
    <2>. QED
      BY <2>1, <2>2, <2>3, StreamAssumption
  <1>5. ASSUME NEW i \in IPs
        PROVE  /\ byIP'[i] = Cardinality(Of(subs \ gone, "ip", i))
               /\ byIP'[i] <= MaxSubscribersPerIP
    <2>1. byIP[i] = Cardinality(Of(subs, "ip", i)) /\ byIP[i] <= MaxSubscribersPerIP
      BY DEF CountsInv
    <2>2. byIP'[i] = Cardinality(Of(subs \ gone, "ip", i)) /\ byIP'[i] <= byIP[i]
      BY <1>1, <1>2, <2>1, ReleasedExact
    <2>3. byIP[i] \in Nat /\ Cardinality(Of(subs \ gone, "ip", i)) \in Nat
      BY <1>1, OfFinite
    <2>. QED
      BY <2>1, <2>2, <2>3, StreamAssumption
  <1>. QED
    BY <1>1, <1>3, <1>4, <1>5

LEMMA CountsStep == Typed /\ Shape /\ CountsInv /\ [Next]_vars => CountsInv'
  <1> SUFFICES ASSUME Typed, Shape, CountsInv, [Next]_vars PROVE CountsInv'
    OBVIOUS
  <1>1. ASSUME UNCHANGED <<subs, who, bySession, byIP>> PROVE CountsInv'
    BY <1>1 DEF CountsInv, Of
  <1>2. ASSUME NEW e \in flight, Receive(e) PROVE CountsInv'
    BY <1>1, <1>2 DEF Receive, Publish, hub
  <1>3. ASSUME Withdraw PROVE CountsInv'
    <2>1. remove(subs) /\ subs \in SUBSET Streams /\ subs' = subs \ subs /\ UNCHANGED who
      BY <1>3 DEF Withdraw, remove, Typed, TypeOK
    <2>. QED
      BY <2>1, RemoveCounts DEF CountsInv, Of
  <1>4. ASSUME NEW s \in Streams, Return(s) PROVE CountsInv'
    <2>1. remove({s}) /\ {s} \in SUBSET Streams /\ subs' = subs \ {s} /\ subs \subseteq Streams
      BY <1>4 DEF Return, remove, Typed, TypeOK
    <2>2. \A t \in Streams : t # s => who'[t] = who[t]
      BY <1>4 DEF Return, Typed, TypeOK
    <2>3. ASSUME NEW field, NEW k
          PROVE  Of(subs, field, k)' = Of(subs \ {s}, field, k)
      BY <2>1, <2>2 DEF Of
    <2>4. /\ Cardinality(subs') <= MaxSubscribers
          /\ \A k \in Sessions : /\ bySession'[k] = Cardinality(Of(subs \ {s}, "session", k))
                                 /\ bySession'[k] <= MaxSubscribersPerSession
          /\ \A i \in IPs : /\ byIP'[i] = Cardinality(Of(subs \ {s}, "ip", i))
                            /\ byIP'[i] <= MaxSubscribersPerIP
      BY <2>1, RemoveCounts
    <2>. QED
      BY <2>3, <2>4 DEF CountsInv
  <1>5. ASSUME NEW s \in Streams, NEW session \in Sessions, NEW ip \in IPs,
               subscribe(s, session, ip)
        PROVE  CountsInv'
    <2>1. /\ s \notin subs /\ subs \in SUBSET Streams /\ subs' = subs \cup {s}
          /\ bySession \in [Sessions -> Nat] /\ byIP \in [IPs -> Nat]
          /\ bySession' = [bySession EXCEPT ![session] = @ + 1]
          /\ byIP' = [byIP EXCEPT ![ip] = @ + 1]
          /\ Admitted(session, ip)
      BY <1>5 DEF subscribe, Shape, IdleInv, Typed, TypeOK
    <2>2. /\ who'[s] = [session |-> session, ip |-> ip]
          /\ \A t \in Streams : t # s => who'[t] = who[t]
      BY <1>5 DEF subscribe, Typed, TypeOK
    <2>3. Cardinality(subs') <= MaxSubscribers
      <3>1. IsFiniteSet(subs) /\ Cardinality(subs) \in Nat /\ Cardinality(subs) < MaxSubscribers
        BY <2>1, OfFinite DEF Admitted
      <3>2. Cardinality(subs') = Cardinality(subs) + 1
        BY <2>1, <3>1, FS_AddElement
      <3>. QED
        BY <3>1, <3>2, StreamAssumption
    <2>4. ASSUME NEW field, NEW k
          PROVE  Of(subs, field, k)'
                     = IF who'[s][field] = k THEN Of(subs, field, k) \cup {s}
                       ELSE Of(subs, field, k)
      BY <2>1, <2>2 DEF Of
    <2>5. ASSUME NEW field, NEW k
          PROVE  /\ Cardinality(Of(subs, field, k)) \in Nat
                 /\ Cardinality(Of(subs, field, k) \cup {s}) = Cardinality(Of(subs, field, k)) + 1
      <3>1. IsFiniteSet(Of(subs, field, k)) /\ Cardinality(Of(subs, field, k)) \in Nat
        BY <2>1, OfFinite
      <3>2. s \notin Of(subs, field, k)
        BY <2>1 DEF Of
      <3>. QED
        BY <3>1, <3>2, FS_AddElement
    <2>6. ASSUME NEW k \in Sessions
          PROVE  /\ bySession'[k] = Cardinality(Of(subs, "session", k)')
                 /\ bySession'[k] <= MaxSubscribersPerSession
      <3>1. who'[s]["session"] = session
        BY <2>2
      <3>2. /\ bySession[k] = Cardinality(Of(subs, "session", k)) /\ bySession[k] \in Nat
            /\ bySession[k] <= MaxSubscribersPerSession
        BY <2>1 DEF CountsInv
      <3>3. CASE k = session
        <4>1. bySession'[k] = bySession[k] + 1 /\ bySession[k] < MaxSubscribersPerSession
          BY <2>1, <3>3 DEF Admitted
        <4>2. Of(subs, "session", k)' = Of(subs, "session", k) \cup {s}
          BY <2>4, <3>1, <3>3
        <4>. QED
          BY <2>5, <3>2, <4>1, <4>2, StreamAssumption
      <3>4. CASE k # session
        <4>1. bySession'[k] = bySession[k]
          BY <2>1, <3>4
        <4>2. Of(subs, "session", k)' = Of(subs, "session", k)
          BY <2>4, <3>1, <3>4
        <4>. QED
          BY <3>2, <4>1, <4>2
      <3>. QED
        BY <3>3, <3>4
    <2>7. ASSUME NEW k \in IPs
          PROVE  /\ byIP'[k] = Cardinality(Of(subs, "ip", k)')
                 /\ byIP'[k] <= MaxSubscribersPerIP
      <3>1. who'[s]["ip"] = ip
        BY <2>2
      <3>2. /\ byIP[k] = Cardinality(Of(subs, "ip", k)) /\ byIP[k] \in Nat
            /\ byIP[k] <= MaxSubscribersPerIP
        BY <2>1 DEF CountsInv
      <3>3. CASE k = ip
        <4>1. byIP'[k] = byIP[k] + 1 /\ byIP[k] < MaxSubscribersPerIP
          BY <2>1, <3>3 DEF Admitted
        <4>2. Of(subs, "ip", k)' = Of(subs, "ip", k) \cup {s}
          BY <2>4, <3>1, <3>3
        <4>. QED
          BY <2>5, <3>2, <4>1, <4>2, StreamAssumption
      <3>4. CASE k # ip
        <4>1. byIP'[k] = byIP[k]
          BY <2>1, <3>4
        <4>2. Of(subs, "ip", k)' = Of(subs, "ip", k)
          BY <2>4, <3>1, <3>4
        <4>. QED
          BY <3>2, <4>1, <4>2
      <3>. QED
        BY <3>3, <3>4
    <2>. QED
      BY <2>3, <2>6, <2>7 DEF CountsInv
  <1>6. ASSUME NEW s \in Streams, Handle(s) \/ StreamStops(s) PROVE CountsInv'
    BY <1>1, <1>4, <1>6 DEF Handle, StreamStops, StreamEnds, WriteResync, ReceiveWake, drain,
                            WriteEvent, WrittenAll, hub
  <1>7. ASSUME \/ \E b \in Books : CatalogPublishes(b) \/ \E v \in Versions : CatalogRepeats(b, v)
               \/ \E e \in flight : QueueDrops(e)
               \/ ConnectionLost \/ Connect \/ Announce \/ UNCHANGED vars
        PROVE  CountsInv'
    BY <1>1, <1>7 DEF CatalogPublishes, CatalogRepeats, QueueDrops, ConnectionLost, Connect,
                      Announce, hub, vars
  <1>. QED
    BY <1>2, <1>3, <1>5, <1>6, <1>7 DEF Next, Consume

(* A book enters a pending map only below MaxPendingEvents. *)
LEMMA RetainedStep == Typed /\ RetainedInv /\ [Next]_vars => RetainedInv'
  <1> SUFFICES ASSUME Typed, RetainedInv, [Next]_vars, NEW t \in Streams
               PROVE  /\ IsFiniteSet(Waiting(t)')
                      /\ Cardinality(Waiting(t)') <= MaxPendingEvents
    BY DEF RetainedInv
  <1> DEFINE Goal == /\ IsFiniteSet(Waiting(t)')
                     /\ Cardinality(Waiting(t)') <= MaxPendingEvents
  <1>0. IsFiniteSet(Waiting(t)) /\ Cardinality(Waiting(t)) <= MaxPendingEvents
    BY DEF RetainedInv
  <1>1. ASSUME pending'[t] = pending[t] PROVE Goal
    BY <1>0, <1>1 DEF Waiting
  <1>2. ASSUME pending'[t] = NoEvents PROVE Goal
    <2>1. Waiting(t)' = {}
      BY <1>2 DEF Waiting, NoEvents
    <2>. QED
      BY <2>1, FS_EmptySet, StreamAssumption
  <1>3. ASSUME NEW e \in flight, Receive(e) PROVE Goal
    <2>1. CASE ~available
      BY <1>1, <1>3, <2>1 DEF Receive, Publish, hub
    <2>2. CASE available
      <3>1. pending'[t] = queued(t, e) /\ pending[t] \in [Books -> 0..MaxPublications]
        BY <1>3, <2>2 DEF Receive, Publish, Typed, TypeOK
      <3>2. CASE t \notin subs \/ Ignores(t, e) \/ Overflows(t, e)
        BY <1>1, <1>2, <3>1, <3>2 DEF queued
      <3>3. CASE ~(t \notin subs \/ Ignores(t, e) \/ Overflows(t, e))
        <4>1. pending'[t] = [pending[t] EXCEPT ![e.book] = e.version]
          BY <3>1, <3>3 DEF queued
        <4>2. pending[t][e.book] # 0 \/ ~(Cardinality(Waiting(t)) >= MaxPendingEvents)
          BY <3>3 DEF Overflows
        <4>3. Waiting(t)' \subseteq Waiting(t) \cup {e.book}
          BY <3>1, <4>1 DEF Waiting
        <4>4. CASE e.book \in Waiting(t)
          <5>1. Waiting(t)' \subseteq Waiting(t)
            BY <4>3, <4>4
          <5>2. Cardinality(Waiting(t)') <= Cardinality(Waiting(t)) /\ IsFiniteSet(Waiting(t)')
            BY <1>0, <5>1, FS_Subset
          <5>3. Cardinality(Waiting(t)') \in Nat /\ Cardinality(Waiting(t)) \in Nat
            BY <1>0, <5>2, FS_CardinalityType
          <5>. QED
            BY <1>0, <5>2, <5>3, StreamAssumption
        <4>5. CASE e.book \notin Waiting(t)
          <5>1. e.book \in Books
            BY DEF Typed, TypeOK, Events
          <5>2. ~(Cardinality(Waiting(t)) >= MaxPendingEvents)
            BY <4>2, <4>5, <5>1 DEF Waiting
          <5>3. /\ IsFiniteSet(Waiting(t) \cup {e.book})
                /\ Cardinality(Waiting(t) \cup {e.book}) = Cardinality(Waiting(t)) + 1
            BY <1>0, <4>5, FS_AddElement
          <5>4. /\ IsFiniteSet(Waiting(t)')
                /\ Cardinality(Waiting(t)') <= Cardinality(Waiting(t) \cup {e.book})
            BY <4>3, <5>3, FS_Subset
          <5>5. Cardinality(Waiting(t)') \in Nat /\ Cardinality(Waiting(t)) \in Nat
            BY <1>0, <5>4, FS_CardinalityType
          <5>. QED
            BY <5>2, <5>3, <5>4, <5>5, StreamAssumption
        <4>. QED
          BY <4>4, <4>5
      <3>. QED
        BY <3>2, <3>3
    <2>. QED
      BY <2>1, <2>2
  <1>4. ASSUME NEW s \in Streams, drain(s) \/ Return(s) PROVE Goal
    <2>1. pending' = pending \/ pending' = [pending EXCEPT ![s] = NoEvents]
      BY <1>4 DEF drain, Return
    <2>2. pending'[t] = pending[t] \/ pending'[t] = NoEvents
      BY <2>1 DEF Typed, TypeOK
    <2>. QED
      BY <1>1, <1>2, <2>2
  <1>5. ASSUME NEW s \in Streams, Handle(s) \/ StreamStops(s) PROVE Goal
    BY <1>1, <1>4, <1>5 DEF Handle, StreamStops, StreamEnds, WriteResync, ReceiveWake,
                            WriteEvent, WrittenAll, hub
  <1>6. ASSUME NEW s \in Streams, NEW k \in Sessions, NEW i \in IPs, subscribe(s, k, i)
        PROVE  Goal
    BY <1>1, <1>6 DEF subscribe
  <1>7. ASSUME \/ \E b \in Books : CatalogPublishes(b) \/ \E v \in Versions : CatalogRepeats(b, v)
               \/ \E e \in flight : QueueDrops(e)
               \/ ConnectionLost \/ Connect \/ Announce \/ Withdraw \/ UNCHANGED vars
        PROVE  Goal
    BY <1>1, <1>7 DEF CatalogPublishes, CatalogRepeats, QueueDrops, ConnectionLost, Connect,
                      Announce, Withdraw, hub, vars
  <1>. QED
    BY <1>3, <1>5, <1>6, <1>7 DEF Next, Consume

LEMMA InitLimits == Init => CountsInv /\ RetainedInv
  <1> SUFFICES ASSUME Init PROVE CountsInv /\ RetainedInv
    OBVIOUS
  <1>1. \A field, k : Of(subs, field, k) = {}
    BY DEF Init, Of
  <1>2. \A s \in Streams : Waiting(s) = {}
    BY DEF Init, Waiting, NoEvents
  <1>3. subs = {} /\ (\A k \in Sessions : bySession[k] = 0) /\ \A i \in IPs : byIP[i] = 0
    BY DEF Init
  <1>. QED
    BY <1>1, <1>2, <1>3, FS_EmptySet, StreamAssumption DEF CountsInv, RetainedInv

-----------------------------------------------------------------------------
(* Theorems *)

LEMMA InitStreamInv == Init => StreamInv
  <1>1. Init => FeedInv /\ IdleInv /\ QueueInv
    BY DEF Init, FeedInv, IdleInv, QueueInv
  <1>2. Init => NoLostWakeup /\ NothingMissed
    BY DEF Init, NoLostWakeup, NothingMissed
  <1>. QED
    BY <1>1, <1>2, InitTyped DEF StreamInv

LEMMA StreamInvStep == StreamInv /\ [Next]_vars => StreamInv'
  BY TypedStep, ShapeStep, WakeStep, MissedStep DEF StreamInv, Shape

(***************************************************************************)
(* Every reachable state of the hub, its consumer and its handlers is well *)
(* typed.                                                                  *)
(***************************************************************************)
THEOREM StreamTyped == Spec => []TypeOK
  <1>1. StreamInv => TypeOK
    BY DEF StreamInv, Typed
  <1>. QED
    BY <1>1, InitStreamInv, StreamInvStep, PTL DEF Spec

(***************************************************************************)
(* However Publish, drain and the wake channel interleave, a subscriber    *)
(* with something to tell has a token or a handler about to drain it.      *)
(***************************************************************************)
THEOREM WakeupsKept == Spec => []NoLostWakeup
  <1>1. StreamInv => NoLostWakeup
    BY DEF StreamInv
  <1>. QED
    BY <1>1, InitStreamInv, StreamInvStep, PTL DEF Spec

(***************************************************************************)
(* Whatever arrives while a stream opens, while its handler writes, over   *)
(* the pending limit or around a lost connection, the browser of an open   *)
(* stream has been told of every published status, or is about to be.      *)
(***************************************************************************)
THEOREM StatusesTold == Spec => []NothingMissed
  <1>1. StreamInv => NothingMissed
    BY DEF StreamInv
  <1>. QED
    BY <1>1, InitStreamInv, StreamInvStep, PTL DEF Spec

(***************************************************************************)
(* The subscription limits hold and their counters are exact: however a    *)
(* stream ends (its handler returns, its subscriber was removed before by  *)
(* SetAvailable, or both), its session and its address are released once,  *)
(* and no subscriber retains more than MaxPendingEvents books.             *)
(***************************************************************************)
THEOREM LimitsHold == Spec => []LimitsExact
  <1>1. StreamInv /\ CountsInv /\ RetainedInv => LimitsExact
    BY DEF StreamInv, Typed, TypeOK, CountsInv, RetainedInv, LimitsExact
  <1>2. StreamInv /\ CountsInv /\ RetainedInv /\ [Next]_vars
            => StreamInv' /\ CountsInv' /\ RetainedInv'
    BY StreamInvStep, CountsStep, RetainedStep DEF StreamInv, Shape
  <1>. QED
    BY <1>1, <1>2, InitStreamInv, InitLimits, PTL DEF Spec
=============================================================================
