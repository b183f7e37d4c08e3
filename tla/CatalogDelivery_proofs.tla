----------------------- MODULE CatalogDelivery_proofs -----------------------
(***************************************************************************)
(* What stands between Catalog's transactions and the outside, for any     *)
(* number of books, uploads, events and processes: the outbox implements   *)
(* the ordered delivery it promises, no upload and no pass of the          *)
(* reconciler takes the original of a book, and the consumer loses no      *)
(* event.  The parts share no variable; each has its own invariant.        *)
(***************************************************************************)
EXTENDS CatalogOutbox, CatalogUpload, CatalogConsumer, FiniteSetTheorems, FunctionTheorems, TLAPS

-----------------------------------------------------------------------------
(* The outbox                                                              *)
(*                                                                         *)
(* The argument is about the rows of a book that are not published yet.    *)
(* They are always its last ones (TailInv), so the lowest of them is the   *)
(* one after settledOf, and only that one can be claimed.  A claim goes    *)
(* stale, though: the lease ends, another process publishes, the book is   *)
(* purged.  What stays true of every message a process holds, however old, *)
(* is that it is at most one past what is settled (KnownInv); so marking   *)
(* its row published either settles the next event, which the broker then  *)
(* has taken (TakenInv), or repeats what was done.                         *)

Messages == Aggregates \X (1..MaximumEvents)

Flights ==
  [phase : {"sent", "mark", "retry"}, message : Messages, mandatory : BOOLEAN,
   returned : BOOLEAN, confirmed : {"no", "ack", "nack"}]

OutboxTyped ==
  /\ committed \in [Aggregates -> 0..MaximumEvents]
  /\ queue \subseteq QueueRow /\ taken \subseteq Messages
  /\ batch \in [Dispatchers -> SUBSET Messages]
  /\ flight \in [Dispatchers -> Flights \cup {NoFlight}]

(* No two rows of a book have one number. *)
Unique(part) == \A p, r \in part : p.book = r.book /\ p.number = r.number => p = r

(* The numbers of the rows of book b that are not published. *)
Waiting(part, b) == {k \in Nat : \E r \in part : r.book = b /\ r.number = k /\ ~ r.published}

RowsInv ==
  /\ Unique(queue)
  /\ \A r \in queue : r.number <= committed[r.book]

TailInv ==
  \A b \in Aggregates : /\ settledOf[b] \in 0..committed[b]
                        /\ Waiting(queue, b) = (settledOf[b] + 1)..committed[b]

(* Event m was committed and its predecessors are settled. *)
Known(m) == m[2] <= committed[m[1]] /\ m[2] <= settledOf[m[1]] + 1

KnownInv ==
  /\ \A m \in taken : Known(m)
  /\ \A d \in Dispatchers : /\ \A m \in batch[d] : Known(m)
                            /\ flight[d] # NoFlight => Known(flight[d].message)

TakenInv ==
  \A d \in Dispatchers :
     flight[d] # NoFlight /\ (flight[d].phase = "mark" \/ awaitRoutedConfirmation(flight[d]))
        => flight[d].phase = "retry" \/ flight[d].message \in taken

OutboxInv == OutboxTyped /\ RowsInv /\ TailInv /\ KnownInv /\ TakenInv

-----------------------------------------------------------------------------
(* The refinement mapping *)

(* When the pending rows are the last ones, counting them tells where they *)
(* begin.                                                                  *)
LEMMA PendingCount ==
  ASSUME NEW part \in SUBSET QueueRow, Unique(part), NEW b, NEW c \in Nat, NEW n \in 0..c,
         Waiting(part, b) = (n + 1)..c
  PROVE  c - Cardinality({r \in part : r.book = b /\ ~ r.published}) = n
  <1> DEFINE U == {r \in part : r.book = b /\ ~ r.published}
             f == [r \in U |-> r.number]
  <1>1. \A r \in U : r.number \in Nat
    BY OutboxAssumption DEF QueueRow
  <1>2. f \in Bijection(U, (n + 1)..c)
    <2>1. \A r \in U : r.number \in (n + 1)..c
      BY <1>1 DEF Waiting
    <2>2. \A p, r \in U : f[p] = f[r] => p = r
      BY DEF Unique
    <2>3. \A k \in (n + 1)..c : \E r \in U : f[r] = k
      <3> SUFFICES ASSUME NEW k \in (n + 1)..c PROVE \E r \in U : r.number = k
        OBVIOUS
      <3>. QED
        BY DEF Waiting
    <2>4. f \in [U -> (n + 1)..c] /\ DOMAIN f = U
      BY <2>1
    <2> HIDE DEF U, f
    <2>. QED
      BY <2>2, <2>3, <2>4 DEF Bijection, Injection, Surjection, IsInjective
  <1>3. IsFiniteSet((n + 1)..c) /\ Cardinality((n + 1)..c) = c - n
    <2>1. n + 1 \in Int /\ c \in Int
      OBVIOUS
    <2>2. /\ IsFiniteSet((n + 1)..c)
          /\ Cardinality((n + 1)..c) = IF n + 1 > c THEN 0 ELSE c - (n + 1) + 1
      BY <2>1, FS_Interval
    <2>. QED
      BY <2>2
  <1>4. IsFiniteSet(U) /\ Cardinality(U) = c - n
    <2> HIDE DEF U, f
    <2>. QED
      BY <1>2, <1>3, Fun_ExistsBijSymmetric, FS_Bijection DEF ExistsBijection
  <1>. QED
    BY <1>4

LEMMA MaxOfTaken ==
  ASSUME NEW T \in SUBSET Nat, NEW s \in Nat, \A k \in T : k <= s + 1
  PROVE  Max({s} \cup T) = IF s + 1 \in T THEN s + 1 ELSE s
  <1> DEFINE top == IF s + 1 \in T THEN s + 1 ELSE s
  <1>1. top \in {s} \cup T /\ \A k \in {s} \cup T : top >= k
    OBVIOUS
  <1>2. \A x \in {s} \cup T : (\A k \in {s} \cup T : x >= k) => x = top
    BY <1>1
  <1>. QED
    BY <1>1, <1>2 DEF Max

(* The broker is at most one event ahead of what is settled. *)
LEMMA ReachedIs ==
  ASSUME NEW T \in SUBSET Messages, NEW b \in Aggregates, NEW s \in Nat,
         \A m \in T : m[1] = b => m[2] <= s + 1
  PROVE  Max({s} \cup {m[2] : m \in {t \in T : t[1] = b}})
            = IF << b, s + 1 >> \in T THEN s + 1 ELSE s
  <1> DEFINE N == {m[2] : m \in {t \in T : t[1] = b}}
  <1>1. N \in SUBSET Nat /\ \A k \in N : k <= s + 1
    BY OutboxAssumption DEF Messages
  <1>2. s + 1 \in N <=> << b, s + 1 >> \in T
    BY DEF Messages
  <1> HIDE DEF N
  <1>3. Max({s} \cup N) = IF << b, s + 1 >> \in T THEN s + 1 ELSE s
    BY <1>1, <1>2, MaxOfTaken
  <1>. QED
    BY <1>3 DEF N

(* What the mapping shows of a state and of the state after a step. *)
LEMMA ReachedNow ==
  ASSUME OutboxInv, NEW b \in Aggregates
  PROVE  /\ settledOf[b] \in Nat /\ committed[b] \in Nat /\ settledOf[b] <= committed[b]
         /\ reachedOf[b] = IF << b, settledOf[b] + 1 >> \in taken THEN settledOf[b] + 1
                           ELSE settledOf[b]
  <1>1. settledOf[b] \in Nat /\ committed[b] \in Nat /\ settledOf[b] <= committed[b]
    BY DEF OutboxInv, OutboxTyped, TailInv
  <1>2. taken \in SUBSET Messages /\ \A m \in taken : m[1] = b => m[2] <= settledOf[b] + 1
    BY DEF OutboxInv, OutboxTyped, KnownInv, Known
  <1>. QED
    BY <1>1, <1>2, ReachedIs DEF reachedOf

LEMMA ReachedAfter ==
  ASSUME OutboxInv', NEW b \in Aggregates
  PROVE  /\ settledOf'[b] \in Nat /\ committed'[b] \in Nat /\ settledOf'[b] <= committed'[b]
         /\ reachedOf'[b] = IF << b, settledOf'[b] + 1 >> \in taken' THEN settledOf'[b] + 1
                            ELSE settledOf'[b]
  <1>1. settledOf'[b] \in Nat /\ committed'[b] \in Nat /\ settledOf'[b] <= committed'[b]
    BY DEF OutboxInv, OutboxTyped, TailInv
  <1>2. taken' \in SUBSET Messages /\ \A m \in taken' : m[1] = b => m[2] <= settledOf'[b] + 1
    BY DEF OutboxInv, OutboxTyped, KnownInv, Known
  <1>. QED
    BY <1>1, <1>2, ReachedIs DEF reachedOf

LEMMA SettledAfter ==
  ASSUME queue' \subseteq QueueRow, Unique(queue'), NEW b \in Aggregates,
         committed'[b] \in Nat, NEW n \in 0..committed'[b],
         Waiting(queue', b) = (n + 1)..committed'[b]
  PROVE  settledOf'[b] = n
  BY PendingCount DEF settledOf, Unpublished

(* What is known of a message stays known. *)
LEMMA KnownStays ==
  ASSUME OutboxInv, NEW m \in Messages, Known(m),
         \A b \in Aggregates : /\ committed'[b] \in Nat /\ committed'[b] >= committed[b]
                               /\ settledOf'[b] \in Nat /\ settledOf'[b] >= settledOf[b]
  PROVE  Known(m)'
  <1>1. m[1] \in Aggregates /\ m[2] \in Nat
    BY OutboxAssumption DEF Messages
  <1>2. /\ committed[m[1]] \in Nat /\ settledOf[m[1]] \in Nat
        /\ committed'[m[1]] \in Nat /\ settledOf'[m[1]] \in Nat
        /\ committed'[m[1]] >= committed[m[1]] /\ settledOf'[m[1]] >= settledOf[m[1]]
    BY <1>1 DEF OutboxInv, OutboxTyped, TailInv
  <1>. QED
    BY <1>1, <1>2 DEF Known

-----------------------------------------------------------------------------
(* Rows *)

Rewritten(part, R, f) == (part \ R) \cup {f[r] : r \in R}

(* Rewriting rows in place keeps them unique. *)
LEMMA RewrittenRows ==
  ASSUME OutboxInv, NEW R \in SUBSET queue, NEW f,
         \A r \in R : f[r] \in QueueRow /\ f[r].book = r.book /\ f[r].number = r.number,
         queue' = Rewritten(queue, R, f), committed' = committed
  PROVE  queue' \subseteq QueueRow /\ RowsInv'
  <1>1. queue \subseteq QueueRow /\ RowsInv
    BY DEF OutboxInv, OutboxTyped
  <1>2. ASSUME NEW p \in queue'
        PROVE  \E r \in queue : /\ p.book = r.book /\ p.number = r.number
                                /\ p = IF r \in R THEN f[r] ELSE r
    BY DEF Rewritten
  <1>3. queue' \subseteq QueueRow
    BY <1>1, <1>2
  <1>4. Unique(queue')
    <2> SUFFICES ASSUME NEW p \in queue', NEW q \in queue',
                        p.book = q.book, p.number = q.number
                 PROVE  p = q
      BY DEF Unique
    <2>1. PICK r \in queue : /\ p.book = r.book /\ p.number = r.number
                             /\ p = IF r \in R THEN f[r] ELSE r
      BY <1>2
    <2>2. PICK t \in queue : /\ q.book = t.book /\ q.number = t.number
                             /\ q = IF t \in R THEN f[t] ELSE t
      BY <1>2
    <2>3. r.book = t.book /\ r.number = t.number
      BY <2>1, <2>2
    <2>4. r = t
      BY <1>1, <2>3 DEF RowsInv, Unique
    <2>. QED
      BY <2>1, <2>2, <2>4
  <1>5. \A p \in queue' : p.number <= committed'[p.book]
    BY <1>1, <1>2 DEF RowsInv
  <1>. QED
    BY <1>3, <1>4, <1>5 DEF RowsInv

(* And when it leaves alone whether they are published, nothing is settled. *)
LEMMA RewrittenKeepsSettled ==
  ASSUME OutboxInv, NEW R \in SUBSET queue, NEW f,
         \A r \in R : /\ f[r] \in QueueRow /\ f[r].book = r.book
                      /\ f[r].number = r.number /\ f[r].published = r.published,
         queue' = Rewritten(queue, R, f), committed' = committed
  PROVE  queue' \subseteq QueueRow /\ RowsInv' /\ settledOf' = settledOf /\ TailInv'
  <1>1. queue' \subseteq QueueRow /\ RowsInv'
    <2>1. \A r \in R : f[r] \in QueueRow /\ f[r].book = r.book /\ f[r].number = r.number
      OBVIOUS
    <2>. QED
      BY <2>1, RewrittenRows
  <1>2. ASSUME NEW b \in Aggregates
        PROVE  Waiting(queue', b) = Waiting(queue, b)
    <2>1. ASSUME NEW p \in queue'
          PROVE  \E r \in queue : p.book = r.book /\ p.number = r.number /\ p.published = r.published
      BY DEF Rewritten
    <2>2. ASSUME NEW r \in queue
          PROVE  \E p \in queue' : p.book = r.book /\ p.number = r.number /\ p.published = r.published
      <3>1. CASE r \in R
        BY <3>1 DEF Rewritten
      <3>2. CASE r \notin R
        BY <3>2 DEF Rewritten
      <3>. QED
        BY <3>1, <3>2
    <2>. QED
      BY <2>1, <2>2 DEF Waiting
  <1>3. ASSUME NEW b \in Aggregates PROVE settledOf'[b] = settledOf[b]
    <2>1. /\ settledOf[b] \in 0..committed[b] /\ committed[b] \in Nat
          /\ Waiting(queue, b) = (settledOf[b] + 1)..committed[b]
      BY DEF OutboxInv, OutboxTyped, TailInv
    <2>. QED
      BY <1>1, <1>2, <2>1, SettledAfter DEF RowsInv
  <1>4. settledOf' = settledOf
    BY <1>3 DEF settledOf
  <1>. QED
    BY <1>1, <1>2, <1>4 DEF OutboxInv, TailInv

-----------------------------------------------------------------------------
(* Steps *)

Refines == Delivery!OrderNext \/ UNCHANGED << committed, reachedOf, settledOf >>

LEMMA InitRefines == OutboxInit => OutboxInv /\ Delivery!OrderInit
  <1> SUFFICES ASSUME OutboxInit PROVE OutboxInv /\ Delivery!OrderInit
    OBVIOUS
  <1>1. \A b \in Aggregates : Unpublished(b) = {} /\ Waiting(queue, b) = {}
    BY DEF OutboxInit, Unpublished, Waiting
  <1>2. settledOf = [b \in Aggregates |-> 0]
    BY <1>1, FS_EmptySet DEF OutboxInit, settledOf
  <1>3. OutboxTyped
    BY OutboxAssumption DEF OutboxInit, OutboxTyped
  <1>4. OutboxInv
    BY <1>1, <1>2, <1>3
       DEF OutboxInit, OutboxInv, RowsInv, Unique, TailInv, KnownInv, TakenInv
  <1>5. reachedOf = [b \in Aggregates |-> 0]
    <2>1. ASSUME NEW b \in Aggregates PROVE reachedOf[b] = 0
      BY <1>2, <1>4, ReachedNow DEF OutboxInit
    <2>. QED
      BY <2>1 DEF reachedOf
  <1>. QED
    BY <1>2, <1>4, <1>5 DEF Delivery!OrderInit, OutboxInit

(***************************************************************************)
(* A step of process d: it leaves the rows alone, the broker may take a    *)
(* message it sent, and d goes on with flight g and the batch left to it.  *)
(***************************************************************************)
Fit(g, broker) ==
  g # NoFlight /\ (g.phase = "mark" \/ awaitRoutedConfirmation(g))
     => g.phase = "retry" \/ g.message \in broker

LEMMA ProcessStep ==
  ASSUME OutboxInv, UNCHANGED << committed, queue >>, NEW d \in Dispatchers,
         NEW g \in Flights \cup {NoFlight}, NEW rest \in SUBSET batch[d],
         taken' = taken \/ \E m \in Messages : Known(m) /\ taken' = taken \cup {m},
         flight' = [flight EXCEPT ![d] = g], batch' = [batch EXCEPT ![d] = rest],
         g # NoFlight => Known(g.message),
         Fit(g, taken')
  PROVE  OutboxInv' /\ Refines
  <1>1. settledOf' = settledOf
    BY DEF settledOf, Unpublished
  <1>2. taken \subseteq taken' /\ taken' \subseteq Messages
    BY DEF OutboxInv, OutboxTyped
  <1>3. /\ \A e \in Dispatchers : flight'[e] = IF e = d THEN g ELSE flight[e]
        /\ \A e \in Dispatchers : batch'[e] = IF e = d THEN rest ELSE batch[e]
        /\ flight' \in [Dispatchers -> Flights \cup {NoFlight}]
        /\ batch' \in [Dispatchers -> SUBSET Messages]
    BY DEF OutboxInv, OutboxTyped
  <1>4. OutboxTyped' /\ RowsInv'
    BY <1>2, <1>3 DEF OutboxInv, OutboxTyped, RowsInv
  <1>5. TailInv'
    BY <1>1 DEF OutboxInv, TailInv
  <1>6. \A m : Known(m)' <=> Known(m)
    BY <1>1 DEF Known
  <1>7. KnownInv'
    <2>1. \A m \in taken' : Known(m)
      BY DEF OutboxInv, KnownInv
    <2>2. \A e \in Dispatchers : /\ \A m \in batch'[e] : Known(m)
                                 /\ flight'[e] # NoFlight => Known(flight'[e].message)
      BY <1>3 DEF OutboxInv, KnownInv
    <2>. QED
      BY <1>6, <2>1, <2>2 DEF KnownInv
  <1>8. TakenInv'
    <2>1. \A e \in Dispatchers : Fit(flight'[e], taken')
      BY <1>2, <1>3 DEF OutboxInv, TakenInv, Fit
    <2>. QED
      BY <2>1 DEF TakenInv, Fit, awaitRoutedConfirmation
  <1>9. OutboxInv'
    BY <1>4, <1>5, <1>7, <1>8 DEF OutboxInv
  <1>10. CASE taken' = taken
    BY <1>1, <1>9, <1>10 DEF Refines, reachedOf
  <1>11. ASSUME NEW m \in Messages, Known(m), taken' = taken \cup {m} PROVE Refines
    <2> DEFINE b == m[1]
    <2>1. b \in Aggregates /\ m[2] \in Nat /\ m = << b, m[2] >>
      BY OutboxAssumption DEF Messages
    <2>2. m[2] <= committed[b] /\ m[2] <= settledOf[b] + 1
      BY <1>11 DEF Known
    <2>3. \A a \in Aggregates :
             /\ settledOf[a] \in Nat /\ committed[a] \in Nat
             /\ reachedOf[a] = IF << a, settledOf[a] + 1 >> \in taken THEN settledOf[a] + 1
                               ELSE settledOf[a]
             /\ reachedOf'[a] = IF << a, settledOf[a] + 1 >> \in taken' THEN settledOf[a] + 1
                                ELSE settledOf[a]
      BY <1>1, <1>9, ReachedNow, ReachedAfter
    <2>4. CASE m \in taken \/ m[2] # settledOf[b] + 1
      <3>1. \A a \in Aggregates :
               << a, settledOf[a] + 1 >> \in taken' <=> << a, settledOf[a] + 1 >> \in taken
        BY <1>11, <2>1, <2>4
      <3>2. ASSUME NEW a \in Aggregates PROVE reachedOf'[a] = reachedOf[a]
        <4> DEFINE k == settledOf[a] + 1
        <4>1. /\ reachedOf[a] = IF << a, k >> \in taken THEN k ELSE settledOf[a]
              /\ reachedOf'[a] = IF << a, k >> \in taken' THEN k ELSE settledOf[a]
              /\ << a, k >> \in taken' <=> << a, k >> \in taken
          BY <2>3, <3>1
        <4> HIDE DEF k
        <4>. QED
          BY <4>1
      <3>3. reachedOf' = reachedOf
        BY <3>2 DEF reachedOf
      <3>. QED
        BY <1>1, <3>3 DEF Refines
    <2>5. CASE m \notin taken /\ m[2] = settledOf[b] + 1
      <3>1. m = << b, settledOf[b] + 1 >>
        BY <2>1, <2>5
      <3>2. reachedOf[b] = settledOf[b] /\ reachedOf'[b] = reachedOf[b] + 1
        BY <1>11, <2>1, <2>3, <2>5, <3>1
      <3>3. \A a \in Aggregates : a # b => reachedOf'[a] = reachedOf[a]
        <4>1. \A a \in Aggregates : a # b =>
                 (<< a, settledOf[a] + 1 >> \in taken' <=> << a, settledOf[a] + 1 >> \in taken)
          BY <1>11, <3>1
        <4>. QED
          BY <2>3, <4>1
      <3>4. reachedOf' = [reachedOf EXCEPT ![b] = @ + 1]
        <4>1. /\ reachedOf = [a \in Aggregates |-> reachedOf[a]]
              /\ reachedOf' = [a \in Aggregates |-> reachedOf'[a]]
          BY DEF reachedOf
        <4>2. [reachedOf EXCEPT ![b] = @ + 1]
                 = [a \in Aggregates |-> IF a = b THEN reachedOf[b] + 1 ELSE reachedOf[a]]
          BY <4>1
        <4>. QED
          BY <2>1, <3>2, <3>3, <4>1, <4>2
      <3>5. settledOf[b] < committed[b]
        BY <2>1, <2>2, <2>3, <2>5
      <3>6. Delivery!Reach(b)
        BY <1>1, <3>2, <3>4, <3>5 DEF Delivery!Reach
      <3>. QED
        BY <2>1, <3>6 DEF Refines, Delivery!OrderNext
    <2>. QED
      BY <2>4, <2>5
  <1>. QED
    BY <1>9, <1>10, <1>11

(* A flight that is under way holds a message that is known. *)
LEMMA FlightFacts ==
  ASSUME OutboxInv, NEW d \in Dispatchers, flight[d].phase # "none"
  PROVE  /\ flight[d] # NoFlight /\ flight[d] \in Flights /\ flight[d].message \in Messages
         /\ Known(flight[d].message) /\ Fit(flight[d], taken)
  <1>1. flight[d] # NoFlight
    BY DEF NoFlight
  <1>. QED
    BY <1>1 DEF OutboxInv, OutboxTyped, Flights, KnownInv, TakenInv, Fit

LEMMA PublishRefines ==
  ASSUME OutboxInv, NEW d \in Dispatchers, NEW m \in batch[d], Publish(d, m)
  PROVE  OutboxInv' /\ Refines
  <1>1. PICK mandatory \in BOOLEAN :
           flight' = [flight EXCEPT ![d] =
              [phase |-> "sent", message |-> m, mandatory |-> mandatory,
               returned |-> FALSE, confirmed |-> "no"]]
    BY DEF Publish
  <1> DEFINE g == [phase |-> "sent", message |-> m, mandatory |-> mandatory,
                   returned |-> FALSE, confirmed |-> "no"]
             rest == batch[d] \ {m}
  <1>2. m \in Messages /\ Known(m) /\ g \in Flights
    BY DEF OutboxInv, OutboxTyped, KnownInv, Flights
  <1>3. g.message = m /\ Fit(g, taken')
    BY DEF Fit, awaitRoutedConfirmation
  <1>4. batch' = [batch EXCEPT ![d] = rest] /\ flight' = [flight EXCEPT ![d] = g]
        /\ UNCHANGED << committed, queue, taken >> /\ rest \in SUBSET batch[d]
    BY <1>1 DEF Publish
  <1> HIDE DEF g, rest
  <1>. QED
    BY <1>2, <1>3, <1>4, ProcessStep

(* The broker's answers, and what the process makes of them. *)
LEMMA BrokerRefines ==
  ASSUME OutboxInv, NEW d \in Dispatchers,
         BrokerTakes(d) \/ BrokerReturns(d) \/ BrokerConfirms(d) \/ Confirmed(d)
  PROVE  OutboxInv' /\ Refines
  <1>1. /\ flight[d].phase = "sent" /\ flight[d] # NoFlight /\ flight[d] \in Flights
        /\ flight[d].message \in Messages /\ Known(flight[d].message) /\ Fit(flight[d], taken)
    BY FlightFacts DEF BrokerTakes, BrokerReturns, BrokerConfirms, Confirmed
  <1>2. UNCHANGED << committed, queue >> /\ batch' = [batch EXCEPT ![d] = batch[d]]
    BY DEF BrokerTakes, BrokerReturns, BrokerConfirms, Confirmed, OutboxInv, OutboxTyped
  <1>3. ASSUME NEW g \in Flights, g.message = flight[d].message, Fit(g, taken'),
               flight' = [flight EXCEPT ![d] = g],
               taken' = taken \/ taken' = taken \cup {flight[d].message}
        PROVE  OutboxInv' /\ Refines
    <2>1. batch[d] \in SUBSET batch[d]
      OBVIOUS
    <2>2. taken' = taken \/ \E m \in Messages : Known(m) /\ taken' = taken \cup {m}
      BY <1>1, <1>3
    <2>3. g \in Flights \cup {NoFlight} /\ Known(g.message)
      BY <1>1, <1>3
    <2>. QED
      BY <1>2, <1>3, <2>1, <2>2, <2>3, ProcessStep
  <1>4. CASE BrokerTakes(d)
    <2> DEFINE g == [flight[d] EXCEPT !.confirmed = "ack"]
    <2>1. g \in Flights /\ g.message = flight[d].message
      BY <1>1 DEF Flights
    <2>2. taken' = taken \cup {flight[d].message} /\ flight' = [flight EXCEPT ![d] = g]
      BY <1>4 DEF BrokerTakes, OutboxInv, OutboxTyped
    <2>3. Fit(g, taken')
      BY <2>1, <2>2 DEF Fit
    <2> HIDE DEF g
    <2>. QED
      BY <1>3, <2>1, <2>2, <2>3
  <1>5. CASE BrokerReturns(d)
    <2> DEFINE g == [flight[d] EXCEPT !.returned = TRUE]
    <2>1. g \in Flights /\ g.message = flight[d].message /\ g.phase = "sent" /\ g.returned
      BY <1>1 DEF Flights
    <2>2. taken' = taken /\ flight' = [flight EXCEPT ![d] = g]
      BY <1>5 DEF BrokerReturns, OutboxInv, OutboxTyped
    <2>3. Fit(g, taken')
      BY <2>1 DEF Fit, awaitRoutedConfirmation
    <2> HIDE DEF g
    <2>. QED
      BY <1>3, <2>1, <2>2, <2>3
  <1>6. ASSUME NEW c \in {"ack", "nack"}, c = "ack" => flight[d].returned,
               BrokerConfirms(d), flight' = [flight EXCEPT ![d].confirmed = c]
        PROVE  OutboxInv' /\ Refines
    <2> DEFINE g == [flight[d] EXCEPT !.confirmed = c]
    <2>1. g \in Flights /\ g.message = flight[d].message /\ g.phase = "sent"
          /\ g.confirmed = c /\ g.returned = flight[d].returned
      BY <1>1 DEF Flights
    <2>2. taken' = taken /\ flight' = [flight EXCEPT ![d] = g]
      BY <1>6 DEF BrokerConfirms, OutboxInv, OutboxTyped
    <2>3. Fit(g, taken')
      BY <1>6, <2>1 DEF Fit, awaitRoutedConfirmation
    <2> HIDE DEF g
    <2>. QED
      BY <1>3, <2>1, <2>2, <2>3
  <1>7. CASE Confirmed(d)
    <2> DEFINE g == [flight[d] EXCEPT !.phase = "mark"]
    <2>1. g \in Flights /\ g.message = flight[d].message
      BY <1>1 DEF Flights
    <2>2. taken' = taken /\ flight' = [flight EXCEPT ![d] = g]
      BY <1>7 DEF Confirmed, OutboxInv, OutboxTyped
    <2>3. flight[d].message \in taken
      BY <1>1, <1>7 DEF Confirmed, Fit
    <2>4. Fit(g, taken')
      BY <2>1, <2>2, <2>3 DEF Fit
    <2> HIDE DEF g
    <2>. QED
      BY <1>3, <2>1, <2>2, <2>4
  <1>. QED
    BY <1>4, <1>5, <1>6, <1>7 DEF BrokerConfirms

(* A publication that ends without a confirmation, and a process that stops. *)
LEMMA EndingRefines ==
  ASSUME OutboxInv, NEW d \in Dispatchers,
         Unconfirmed(d) \/ StatementFails(d) \/ Abandon(d)
  PROVE  OutboxInv' /\ Refines
  <1>1. UNCHANGED << committed, queue >>
    BY DEF Unconfirmed, StatementFails, Abandon
  <1>2. taken' = taken \/ \E m \in Messages : Known(m) /\ taken' = taken \cup {m}
    BY FlightFacts DEF Unconfirmed, StatementFails, Abandon, Disconnect
  <1>3. CASE Unconfirmed(d)
    <2> DEFINE g == [flight[d] EXCEPT !.phase = "retry"]
    <2>1. flight[d] \in Flights /\ Known(flight[d].message)
      BY <1>3, FlightFacts DEF Unconfirmed
    <2>2. g \in Flights \cup {NoFlight} /\ g.message = flight[d].message /\ g.phase = "retry"
      BY <2>1 DEF Flights
    <2>3. /\ flight' = [flight EXCEPT ![d] = g] /\ batch' = [batch EXCEPT ![d] = batch[d]]
          /\ batch[d] \in SUBSET batch[d]
      BY <1>3 DEF Unconfirmed, OutboxInv, OutboxTyped
    <2>4. Fit(g, taken') /\ Known(g.message)
      BY <2>1, <2>2 DEF Fit
    <2> HIDE DEF g
    <2>. QED
      BY <1>1, <1>2, <2>2, <2>3, <2>4, ProcessStep
  <1>4. ASSUME NEW rest \in SUBSET batch[d], batch' = [batch EXCEPT ![d] = rest],
               flight' = [flight EXCEPT ![d] = NoFlight]
        PROVE  OutboxInv' /\ Refines
    <2>1. NoFlight \in Flights \cup {NoFlight} /\ Fit(NoFlight, taken')
      BY DEF Fit
    <2>. QED
      BY <1>1, <1>2, <1>4, <2>1, ProcessStep
  <1>5. CASE StatementFails(d)
    <2>1. batch' = [batch EXCEPT ![d] = batch[d]] /\ batch[d] \in SUBSET batch[d]
      BY <1>5 DEF StatementFails, OutboxInv, OutboxTyped
    <2>. QED
      BY <1>4, <1>5, <2>1 DEF StatementFails
  <1>6. CASE Abandon(d)
    <2>1. {} \in SUBSET batch[d]
      OBVIOUS
    <2>. QED
      BY <1>4, <1>6, <2>1 DEF Abandon
  <1>. QED
    BY <1>3, <1>5, <1>6

(***************************************************************************)
(* A step that rewrites rows and leaves alone whether they are published:  *)
(* a lease that is taken, ended or given back, a delay that ends.          *)
(***************************************************************************)
LEMMA RewriteStep ==
  ASSUME OutboxInv, NEW R \in SUBSET queue, NEW f,
         \A r \in R : /\ f[r] \in QueueRow /\ f[r].book = r.book
                      /\ f[r].number = r.number /\ f[r].published = r.published,
         queue' = Rewritten(queue, R, f), UNCHANGED << committed, taken >>,
         batch' \in [Dispatchers -> SUBSET Messages],
         \A d \in Dispatchers : \A m \in batch'[d] : Known(m),
         \A d \in Dispatchers : flight'[d] = flight[d] \/ flight'[d] = NoFlight,
         flight' \in [Dispatchers -> Flights \cup {NoFlight}]
  PROVE  OutboxInv' /\ Refines
  <1>1. queue' \subseteq QueueRow /\ RowsInv' /\ settledOf' = settledOf /\ TailInv'
    BY RewrittenKeepsSettled
  <1>2. reachedOf' = reachedOf
    BY <1>1 DEF reachedOf
  <1>3. OutboxTyped'
    BY <1>1 DEF OutboxInv, OutboxTyped
  <1>4. \A m : Known(m)' <=> Known(m)
    BY <1>1 DEF Known
  <1>5. KnownInv'
    BY <1>4 DEF OutboxInv, KnownInv
  <1>6. TakenInv'
    BY DEF OutboxInv, TakenInv, awaitRoutedConfirmation
  <1>. QED
    BY <1>1, <1>2, <1>3, <1>5, <1>6 DEF OutboxInv, Refines

LEMMA TimeRefines ==
  ASSUME OutboxInv, NEW r \in queue, LeaseEnds(r) \/ DelayEnds(r)
  PROVE  OutboxInv' /\ Refines
  <1>0. r \in QueueRow /\ {r} \in SUBSET queue
    BY DEF OutboxInv, OutboxTyped
  <1>1. /\ UNCHANGED << committed, taken >>
        /\ batch' \in [Dispatchers -> SUBSET Messages]
        /\ \A d \in Dispatchers : \A m \in batch'[d] : Known(m)
        /\ \A d \in Dispatchers : flight'[d] = flight[d] \/ flight'[d] = NoFlight
        /\ flight' \in [Dispatchers -> Flights \cup {NoFlight}]
    BY DEF OutboxInv, OutboxTyped, KnownInv, LeaseEnds, DelayEnds
  <1>2. ASSUME NEW q \in QueueRow, queue' = (queue \ {r}) \cup {q},
               q.book = r.book, q.number = r.number, q.published = r.published
        PROVE  OutboxInv' /\ Refines
    <2> DEFINE f == [p \in {r} |-> q]
    <2>1. queue' = Rewritten(queue, {r}, f)
      BY <1>2 DEF Rewritten
    <2>2. \A p \in {r} : /\ f[p] \in QueueRow /\ f[p].book = p.book
                         /\ f[p].number = p.number /\ f[p].published = p.published
      BY <1>2
    <2> HIDE DEF f
    <2>. QED
      BY <1>0, <1>1, <2>1, <2>2, RewriteStep
  <1>3. CASE LeaseEnds(r)
    <2>1. /\ [r EXCEPT !.leased = FALSE] \in QueueRow
          /\ [r EXCEPT !.leased = FALSE].book = r.book
          /\ [r EXCEPT !.leased = FALSE].number = r.number
          /\ [r EXCEPT !.leased = FALSE].published = r.published
      BY <1>0 DEF QueueRow
    <2>. QED
      BY <1>2, <1>3, <2>1 DEF LeaseEnds
  <1>4. CASE DelayEnds(r)
    <2>1. /\ [r EXCEPT !.due = TRUE] \in QueueRow
          /\ [r EXCEPT !.due = TRUE].book = r.book
          /\ [r EXCEPT !.due = TRUE].number = r.number
          /\ [r EXCEPT !.due = TRUE].published = r.published
      BY <1>0 DEF QueueRow
    <2>. QED
      BY <1>2, <1>4, <2>1 DEF DelayEnds
  <1>. QED
    BY <1>3, <1>4

LEMMA RetrySentRefines ==
  ASSUME OutboxInv, NEW d \in Dispatchers, RetrySent(d)
  PROVE  OutboxInv' /\ Refines
  <1> DEFINE R == Row(flight[d].message)
             f == [r \in R |-> [r EXCEPT !.due = FALSE, !.leased = FALSE]]
  <1>1. R \in SUBSET queue /\ R \subseteq QueueRow
    BY DEF Row, OutboxInv, OutboxTyped
  <1>2. queue' = Rewritten(queue, R, f)
    BY DEF RetrySent, RetryOutbox, Rewritten
  <1>3. \A r \in R : /\ f[r] \in QueueRow /\ f[r].book = r.book
                     /\ f[r].number = r.number /\ f[r].published = r.published
    BY <1>1 DEF QueueRow
  <1>4. /\ UNCHANGED << committed, taken >>
        /\ batch' \in [Dispatchers -> SUBSET Messages]
        /\ \A e \in Dispatchers : \A m \in batch'[e] : Known(m)
        /\ \A e \in Dispatchers : flight'[e] = flight[e] \/ flight'[e] = NoFlight
        /\ flight' \in [Dispatchers -> Flights \cup {NoFlight}]
    BY DEF OutboxInv, OutboxTyped, KnownInv, RetrySent
  <1> HIDE DEF R, f
  <1>. QED
    BY <1>1, <1>2, <1>3, <1>4, RewriteStep

(* Only the row after the settled ones can be claimed. *)
LEMMA ClaimRefines ==
  ASSUME OutboxInv, NEW d \in Dispatchers, ClaimOutbox(d)
  PROVE  OutboxInv' /\ Refines
  <1>1. PICK part \in kSubset(Min({ClaimLimit, Cardinality(Candidates)}), Candidates) :
           /\ queue' = (queue \ part) \cup {[r EXCEPT !.leased = TRUE] : r \in part}
           /\ batch' = [batch EXCEPT ![d] = {<< r.book, r.number >> : r \in part}]
    BY DEF ClaimOutbox
  <1>2. part \subseteq Candidates /\ part \in SUBSET queue /\ part \subseteq QueueRow
    BY DEF kSubset, Candidates, OutboxInv, OutboxTyped
  <1> DEFINE f == [r \in part |-> [r EXCEPT !.leased = TRUE]]
  <1>3. queue' = Rewritten(queue, part, f)
    BY <1>1 DEF Rewritten
  <1>4. \A r \in part : /\ f[r] \in QueueRow /\ f[r].book = r.book
                        /\ f[r].number = r.number /\ f[r].published = r.published
    BY <1>2 DEF QueueRow
  <1>5. ASSUME NEW r \in part
        PROVE  << r.book, r.number >> \in Messages /\ Known(<< r.book, r.number >>)
    <2>1. /\ r \in queue /\ r \in QueueRow /\ ~ r.published
          /\ \A p \in queue : p.book = r.book /\ ~ p.published => p.number >= r.number
      BY <1>2 DEF Candidates
    <2>2. r.book \in Aggregates /\ r.number \in 1..MaximumEvents /\ r.number \in Nat
      BY <2>1, OutboxAssumption DEF QueueRow
    <2>3. /\ settledOf[r.book] \in 0..committed[r.book] /\ committed[r.book] \in Nat
          /\ Waiting(queue, r.book) = (settledOf[r.book] + 1)..committed[r.book]
      BY <2>2 DEF OutboxInv, OutboxTyped, TailInv
    <2>4. r.number \in (settledOf[r.book] + 1)..committed[r.book]
      BY <2>1, <2>2, <2>3 DEF Waiting
    <2>5. settledOf[r.book] + 1 \in Waiting(queue, r.book)
      BY <2>3, <2>4
    <2>6. PICK p \in queue : /\ p.book = r.book /\ ~ p.published
                             /\ p.number = settledOf[r.book] + 1
      BY <2>5 DEF Waiting
    <2>7. r.number <= settledOf[r.book] + 1
      BY <2>1, <2>2, <2>3, <2>6
    <2>. QED
      BY <2>2, <2>3, <2>4, <2>7 DEF Messages, Known
  <1>6. /\ UNCHANGED << committed, taken >>
        /\ \A e \in Dispatchers : flight'[e] = flight[e] \/ flight'[e] = NoFlight
        /\ flight' \in [Dispatchers -> Flights \cup {NoFlight}]
    BY DEF OutboxInv, OutboxTyped, ClaimOutbox
  <1>7. batch' \in [Dispatchers -> SUBSET Messages]
    BY <1>1, <1>5 DEF OutboxInv, OutboxTyped
  <1>8. \A e \in Dispatchers : \A m \in batch'[e] : Known(m)
    BY <1>1, <1>5 DEF OutboxInv, OutboxTyped, KnownInv
  <1> HIDE DEF f
  <1>. QED
    BY <1>2, <1>3, <1>4, <1>6, <1>7, <1>8, RewriteStep

(***************************************************************************)
(* Marking a row: the next event of the book is settled, or the row was    *)
(* published or purged before.                                             *)
(***************************************************************************)
LEMMA MarkSentRefines ==
  ASSUME OutboxInv, NEW d \in Dispatchers, MarkSent(d)
  PROVE  OutboxInv' /\ Refines
  <1> DEFINE m == flight[d].message
             b == m[1]
             R == Row(m)
             f == [r \in R |-> [r EXCEPT !.published = TRUE, !.leased = FALSE]]
  <1>1. m \in Messages /\ Known(m) /\ m \in taken
    BY FlightFacts DEF MarkSent, Fit
  <1>2. /\ b \in Aggregates /\ m[2] \in Nat /\ m[2] >= 1 /\ m = << b, m[2] >>
        /\ m[2] <= committed[b] /\ m[2] <= settledOf[b] + 1
    BY <1>1, OutboxAssumption DEF Messages, Known
  <1>3. R \in SUBSET queue /\ R \subseteq QueueRow
        /\ \A r \in queue : r \in R <=> r.book = b /\ r.number = m[2]
    BY <1>2 DEF Row, OutboxInv, OutboxTyped
  <1>4. queue' = Rewritten(queue, R, f) /\ committed' = committed /\ taken' = taken
    BY DEF MarkSent, MarkPublished, Rewritten
  <1>c. committed' = committed
    BY <1>4
  <1>5. \A r \in R : /\ f[r] \in QueueRow /\ f[r].book = r.book
                     /\ f[r].number = r.number /\ f[r].published
    BY <1>3 DEF QueueRow
  <1>6. queue' \subseteq QueueRow /\ RowsInv'
    <2>1. \A r \in R : f[r] \in QueueRow /\ f[r].book = r.book /\ f[r].number = r.number
      BY <1>5
    <2> HIDE DEF R, f
    <2>. QED
      BY <1>3, <1>4, <2>1, RewrittenRows
  <1>7. ASSUME NEW a \in Aggregates
        PROVE  Waiting(queue', a) = Waiting(queue, a) \ (IF a = b THEN {m[2]} ELSE {})
    <2>1. ASSUME NEW k \in Nat
          PROVE  (\E q \in queue' : q.book = a /\ q.number = k /\ ~ q.published)
                 <=> /\ \E r \in queue : r.book = a /\ r.number = k /\ ~ r.published
                     /\ ~ (a = b /\ k = m[2])
      <3>1. ASSUME NEW q \in queue', q.book = a, q.number = k, ~ q.published
            PROVE  q \in queue /\ ~ (a = b /\ k = m[2])
        <4>1. q \in queue \ R
          BY <1>4, <1>5, <3>1 DEF Rewritten
        <4>. QED
          BY <1>3, <3>1, <4>1
      <3>2. ASSUME NEW r \in queue, r.book = a, r.number = k, ~ r.published,
                   ~ (a = b /\ k = m[2])
            PROVE  r \in queue'
        <4>1. r \notin R
          BY <1>3, <3>2
        <4>. QED
          BY <1>4, <4>1 DEF Rewritten
      <3>. QED
        BY <3>1, <3>2
    <2>. QED
      BY <2>1 DEF Waiting
  <1> DEFINE next == settledOf[b] + 1 = m[2] /\ m[2] \in Waiting(queue, b)
             now(a) == IF a = b /\ next THEN settledOf[a] + 1 ELSE settledOf[a]
  <1>8. ASSUME NEW a \in Aggregates
        PROVE  /\ settledOf[a] \in Nat /\ committed[a] \in Nat /\ settledOf'[a] = now(a)
               /\ settledOf'[a] >= settledOf[a] /\ settledOf'[a] \in Nat
               /\ settledOf'[a] \in 0..committed'[a]
               /\ Waiting(queue', a) = (settledOf'[a] + 1)..committed'[a]
    <2>1. /\ settledOf[a] \in 0..committed[a] /\ committed[a] \in Nat
          /\ Waiting(queue, a) = (settledOf[a] + 1)..committed[a]
      BY DEF OutboxInv, OutboxTyped, TailInv
    <2>2. now(a) \in 0..committed[a] /\ Waiting(queue', a) = (now(a) + 1)..committed[a]
      <3>1. CASE a = b /\ next
        <4>1. now(a) = settledOf[a] + 1 /\ m[2] = settledOf[a] + 1
          BY <3>1
        <4>2. settledOf[a] + 1 \in (settledOf[a] + 1)..committed[a]
          BY <2>1, <3>1, <4>1
        <4>3. Waiting(queue', a) = ((settledOf[a] + 1)..committed[a]) \ {settledOf[a] + 1}
          BY <1>7, <2>1, <3>1, <4>1
        <4>4. ((settledOf[a] + 1)..committed[a]) \ {settledOf[a] + 1}
                 = ((settledOf[a] + 1) + 1)..committed[a]
          BY <2>1
        <4>. QED
          BY <2>1, <4>1, <4>2, <4>3, <4>4
      <3>2. CASE a = b /\ ~ next
        <4>1. m[2] \notin Waiting(queue, b)
          BY <1>2, <2>1, <3>2
        <4>. QED
          BY <1>7, <2>1, <3>2, <4>1
      <3>3. CASE a # b
        BY <1>7, <2>1, <3>3
      <3>. QED
        BY <3>1, <3>2, <3>3
    <2>3. settledOf'[a] = now(a)
      <3> HIDE DEF now
      <3>. QED
        BY <1>4, <1>6, <2>1, <2>2, SettledAfter DEF RowsInv
    <2>4. now(a) >= settledOf[a]
      BY <2>1
    <2> HIDE DEF now
    <2>. QED
      BY <1>c, <2>1, <2>2, <2>3, <2>4
  <1>9. OutboxTyped'
    BY <1>4, <1>6 DEF OutboxInv, OutboxTyped, MarkSent
  <1>10. TailInv'
    BY <1>8 DEF TailInv
  <1>11. \A n \in Messages : Known(n) => Known(n)'
    <2>1. \A a \in Aggregates : /\ committed'[a] \in Nat /\ committed'[a] >= committed[a]
                                /\ settledOf'[a] \in Nat /\ settledOf'[a] >= settledOf[a]
      <3> HIDE DEF now
      <3>. QED
        BY <1>c, <1>8
    <2>. QED
      BY <2>1, KnownStays
  <1>12. KnownInv' /\ TakenInv'
    <2>1. /\ batch' = batch /\ \A e \in Dispatchers : flight'[e] = IF e = d THEN NoFlight ELSE flight[e]
      BY DEF MarkSent, OutboxInv, OutboxTyped
    <2>2. /\ \A n \in taken : n \in Messages /\ Known(n)
          /\ \A e \in Dispatchers : \A n \in batch[e] : n \in Messages /\ Known(n)
          /\ \A e \in Dispatchers : flight[e] # NoFlight =>
                flight[e].message \in Messages /\ Known(flight[e].message)
      BY DEF OutboxInv, OutboxTyped, KnownInv, Flights
    <2>3. KnownInv'
      BY <1>4, <1>11, <2>1, <2>2 DEF KnownInv
    <2>4. TakenInv'
      BY <1>4, <2>1 DEF OutboxInv, TakenInv, awaitRoutedConfirmation
    <2>. QED
      BY <2>3, <2>4
  <1>13. OutboxInv'
    BY <1>6, <1>9, <1>10, <1>12 DEF OutboxInv
  <1>14. Refines
    <2>0. \A a \in Aggregates :
             /\ reachedOf[a] = IF << a, settledOf[a] + 1 >> \in taken THEN settledOf[a] + 1
                               ELSE settledOf[a]
             /\ reachedOf'[a] = IF << a, settledOf'[a] + 1 >> \in taken THEN settledOf'[a] + 1
                                ELSE settledOf'[a]
      BY <1>4, <1>13, ReachedNow, ReachedAfter
    <2>1. CASE ~ next
      <3>1. \A a \in Aggregates : settledOf'[a] = settledOf[a]
        BY <1>8, <2>1
      <3>2. settledOf' = settledOf
        BY <3>1 DEF settledOf
      <3>3. reachedOf' = reachedOf
        BY <1>4, <3>2 DEF reachedOf
      <3>. QED
        BY <1>4, <3>2, <3>3 DEF Refines
    <2>2. CASE next
      <3>1. \A a \in Aggregates : settledOf'[a] = IF a = b THEN settledOf[a] + 1 ELSE settledOf[a]
        BY <1>8, <2>2
      <3>2. reachedOf[b] = settledOf[b] + 1 /\ settledOf[b] < reachedOf[b]
        <4>1. << b, settledOf[b] + 1 >> \in taken
          BY <1>1, <1>2, <2>2
        <4>2. reachedOf[b] = settledOf[b] + 1
          BY <1>2, <2>0, <4>1
        <4>3. settledOf[b] \in Nat
          BY <1>2, <1>8
        <4>. QED
          BY <4>2, <4>3
      <3>3. reachedOf'[b] = settledOf[b] + 1
        <4>1. settledOf'[b] = settledOf[b] + 1 /\ settledOf[b] \in Nat
          BY <1>2, <1>8, <3>1
        <4>2. << b, settledOf'[b] + 1 >> \notin taken
          <5>1. ASSUME << b, settledOf'[b] + 1 >> \in taken PROVE FALSE
            <6>1. Known(<< b, settledOf'[b] + 1 >>)
              BY <5>1 DEF OutboxInv, KnownInv
            <6>. QED
              BY <4>1, <6>1 DEF Known
          <5>. QED
            BY <5>1
        <4>. QED
          BY <1>2, <2>0, <4>1, <4>2
      <3>4. \A a \in Aggregates : reachedOf'[a] = reachedOf[a]
        BY <2>0, <3>1, <3>2, <3>3
      <3>5. reachedOf' = reachedOf
        BY <3>4 DEF reachedOf
      <3>6. settledOf' = [settledOf EXCEPT ![b] = @ + 1]
        <4>1. /\ settledOf = [a \in Aggregates |-> settledOf[a]]
              /\ settledOf' = [a \in Aggregates |-> settledOf'[a]]
          BY DEF settledOf
        <4>2. [settledOf EXCEPT ![b] = @ + 1]
                 = [a \in Aggregates |-> IF a = b THEN settledOf[b] + 1 ELSE settledOf[a]]
          BY <4>1
        <4>. QED
          BY <1>2, <3>1, <4>1, <4>2
      <3>7. Delivery!Settled(b)
        BY <1>4, <3>2, <3>5, <3>6 DEF Delivery!Settled
      <3>. QED
        BY <1>2, <3>7 DEF Refines, Delivery!OrderNext
    <2>. QED
      BY <2>1, <2>2
  <1>. QED
    BY <1>13, <1>14

(* The invariant after a transaction that appends rows of book b. *)
LEMMA TransactionInv ==
  ASSUME OutboxInv, NEW b \in Aggregates, NEW k \in Nat, NEW n \in 0..(committed[b] + k),
         committed[b] + k <= MaximumEvents, n >= settledOf[b],
         committed' = [committed EXCEPT ![b] = @ + k],
         queue' \subseteq QueueRow, RowsInv',
         Waiting(queue', b) = (n + 1)..(committed[b] + k),
         \A a \in Aggregates : a # b => Waiting(queue', a) = Waiting(queue, a),
         UNCHANGED << taken, batch, flight >>
  PROVE  /\ OutboxInv'
         /\ \A a \in Aggregates : settledOf'[a] = IF a = b THEN n ELSE settledOf[a]
  <1>1. \A a \in Aggregates : /\ settledOf[a] \in 0..committed[a] /\ committed[a] \in Nat
                              /\ Waiting(queue, a) = (settledOf[a] + 1)..committed[a]
    BY DEF OutboxInv, OutboxTyped, TailInv
  <1>2. /\ committed' \in [Aggregates -> 0..MaximumEvents]
        /\ \A a \in Aggregates : committed'[a] = IF a = b THEN committed[b] + k ELSE committed[a]
    BY <1>1, OutboxAssumption DEF OutboxInv, OutboxTyped
  <1>3. ASSUME NEW a \in Aggregates
        PROVE  /\ settledOf'[a] = IF a = b THEN n ELSE settledOf[a]
               /\ settledOf'[a] \in 0..committed'[a]
               /\ Waiting(queue', a) = (settledOf'[a] + 1)..committed'[a]
    <2>1. CASE a = b
      <3>1. committed'[b] = committed[b] + k /\ committed'[b] \in Nat
        BY <1>1, <1>2
      <3>2. settledOf'[b] = n
        BY <3>1, SettledAfter DEF RowsInv
      <3>. QED
        BY <2>1, <3>1, <3>2
    <2>2. CASE a # b
      <3>1. committed'[a] = committed[a] /\ committed'[a] \in Nat
        BY <1>1, <1>2, <2>2
      <3>2. settledOf'[a] = settledOf[a]
        BY <1>1, <2>2, <3>1, SettledAfter DEF RowsInv
      <3>. QED
        BY <1>1, <2>2, <3>1, <3>2
    <2>. QED
      BY <2>1, <2>2
  <1>4. \A m \in Messages : Known(m) => Known(m)'
    <2>1. \A a \in Aggregates : /\ committed'[a] \in Nat /\ committed'[a] >= committed[a]
                                /\ settledOf'[a] \in Nat /\ settledOf'[a] >= settledOf[a]
      BY <1>1, <1>2, <1>3
    <2>. QED
      BY <2>1, KnownStays
  <1>5. KnownInv'
    <2>1. /\ \A m \in taken : m \in Messages /\ Known(m)
          /\ \A d \in Dispatchers : \A m \in batch[d] : m \in Messages /\ Known(m)
          /\ \A d \in Dispatchers : flight[d] # NoFlight =>
                flight[d].message \in Messages /\ Known(flight[d].message)
      BY DEF OutboxInv, OutboxTyped, KnownInv, Flights
    <2>. QED
      BY <1>4, <2>1 DEF KnownInv
  <1>6. TailInv'
    BY <1>3 DEF TailInv
  <1>7. OutboxTyped' /\ TakenInv'
    BY <1>2 DEF OutboxInv, OutboxTyped, TakenInv, awaitRoutedConfirmation
  <1>. QED
    BY <1>3, <1>5, <1>6, <1>7 DEF OutboxInv

LEMMA AppendRowsRefines ==
  ASSUME OutboxInv, NEW b \in Aggregates, AppendRows(b)
  PROVE  OutboxInv' /\ Refines
  <1>1. PICK types \in {<< "status_changed" >>, << "request", "status_changed" >>} :
           /\ committed[b] + Len(types) <= MaximumEvents
           /\ committed' = [committed EXCEPT ![b] = @ + Len(types)]
           /\ queue' = queue \cup {NewRow(b, committed[b] + i, types[i]) : i \in DOMAIN types}
    BY DEF AppendRows
  <1> DEFINE k == Len(types)
             c == committed[b]
             fresh == {NewRow(b, c + i, types[i]) : i \in DOMAIN types}
  <1>2. k \in {1, 2} /\ DOMAIN types = 1..k
    OBVIOUS
  <1>3. /\ c \in Nat /\ settledOf[b] \in 0..c
        /\ Waiting(queue, b) = (settledOf[b] + 1)..c
    BY DEF OutboxInv, OutboxTyped, TailInv
  <1>4. \A i \in 1..k : /\ NewRow(b, c + i, types[i]) \in QueueRow
                        /\ NewRow(b, c + i, types[i]).book = b
                        /\ NewRow(b, c + i, types[i]).number = c + i
                        /\ ~ NewRow(b, c + i, types[i]).published
    BY <1>1, <1>2, <1>3, OutboxAssumption DEF NewRow, QueueRow, publicationRoute
  <1>5. /\ queue' = queue \cup fresh
        /\ \A p \in fresh : /\ p \in QueueRow /\ p.book = b /\ ~ p.published
                             /\ \E i \in 1..k : p = NewRow(b, c + i, types[i]) /\ p.number = c + i
        /\ \A i \in 1..k : \E p \in fresh : p.number = c + i
    BY <1>1, <1>2, <1>4
  <1> HIDE DEF fresh, k
  <1>6. committed' = [committed EXCEPT ![b] = @ + k] /\ c + k <= MaximumEvents
        /\ UNCHANGED << taken, batch, flight >>
    BY <1>1 DEF k, AppendRows
  <1>7. \A r \in queue : r \in QueueRow /\ r.book \in Aggregates /\ r.number \in Nat
                         /\ r.number <= committed[r.book]
    BY OutboxAssumption DEF OutboxInv, OutboxTyped, RowsInv, QueueRow
  <1>8. queue' \subseteq QueueRow
    BY <1>5, <1>7
  <1>9. RowsInv'
    <2>1. Unique(queue')
      <3> SUFFICES ASSUME NEW p \in queue', NEW q \in queue',
                          p.book = q.book, p.number = q.number
                   PROVE  p = q
        BY DEF Unique
      <3>1. CASE p \in queue /\ q \in queue
        BY <3>1 DEF OutboxInv, RowsInv, Unique
      <3>2. CASE p \in fresh /\ q \in fresh
        <4>1. PICK i \in 1..k : p = NewRow(b, c + i, types[i]) /\ p.number = c + i
          BY <1>5, <3>2
        <4>2. PICK j \in 1..k : q = NewRow(b, c + j, types[j]) /\ q.number = c + j
          BY <1>5, <3>2
        <4>3. i = j
          BY <1>2, <1>3, <4>1, <4>2
        <4>. QED
          BY <4>1, <4>2, <4>3
      <3>3. ASSUME NEW x \in queue, NEW y \in fresh, x.book = y.book, x.number = y.number
            PROVE  FALSE
        <4>1. PICK i \in 1..k : y.book = b /\ y.number = c + i
          BY <1>5, <3>3
        <4>2. x.number <= c /\ x.number \in Nat /\ x.number = c + i
          BY <1>7, <3>3, <4>1
        <4>3. i \in Nat /\ i >= 1
          BY <1>2
        <4> HIDE DEF c
        <4>. QED
          BY <1>3, <4>2, <4>3
      <3>. QED
        BY <1>5, <3>1, <3>2, <3>3
    <2>2. ASSUME NEW p \in queue' PROVE p.number <= committed'[p.book]
      <3>1. \A a \in Aggregates : committed'[a] = IF a = b THEN c + k ELSE committed[a]
        BY <1>6 DEF OutboxInv, OutboxTyped
      <3>2. CASE p \in queue
        BY <1>2, <1>3, <1>7, <3>1, <3>2
      <3>3. CASE p \in fresh
        <4>1. PICK i \in 1..k : p.book = b /\ p.number = c + i
          BY <1>5, <3>3
        <4>2. committed'[p.book] = c + k
          BY <3>1, <4>1
        <4> HIDE DEF c
        <4>. QED
          BY <1>2, <1>3, <4>1, <4>2
      <3>. QED
        BY <1>5, <3>2, <3>3
    <2>. QED
      BY <2>1, <2>2 DEF RowsInv
  <1>10. Waiting(queue', b) = (settledOf[b] + 1)..(c + k)
    <2>1. ASSUME NEW x \in Nat
          PROVE  x \in Waiting(queue', b) <=>
                    x \in Waiting(queue, b) \/ x \in (c + 1)..(c + k)
      <3>1. x \in (c + 1)..(c + k) <=> \E i \in 1..k : x = c + i
        <4>1. ASSUME x \in (c + 1)..(c + k) PROVE \E i \in 1..k : x = c + i
          <5>1. x - c \in 1..k /\ x = c + (x - c)
            BY <1>2, <1>3, <4>1
          <5>. QED
            BY <5>1
        <4>2. ASSUME NEW i \in 1..k, x = c + i PROVE x \in (c + 1)..(c + k)
          BY <1>2, <1>3, <4>2
        <4>. QED
          BY <4>1, <4>2
      <3>2. (\E p \in fresh : p.book = b /\ p.number = x /\ ~ p.published)
               <=> x \in (c + 1)..(c + k)
        BY <1>5, <3>1
      <3>3. x \in Waiting(queue', b) <=>
               \/ x \in Waiting(queue, b)
               \/ \E p \in fresh : p.book = b /\ p.number = x /\ ~ p.published
        BY <1>5 DEF Waiting
      <3>. QED
        BY <3>2, <3>3
    <2>2. Waiting(queue', b) \subseteq Nat
      BY DEF Waiting
    <2>3. ASSUME NEW x \in Nat
          PROVE  x \in Waiting(queue', b) <=> x \in (settledOf[b] + 1)..(c + k)
      <3>1. c \in Nat /\ k \in Nat /\ settledOf[b] \in Nat /\ settledOf[b] <= c
        BY <1>2, <1>3
      <3>2. x \in Waiting(queue', b) <=>
               x \in (settledOf[b] + 1)..c \/ x \in (c + 1)..(c + k)
        BY <1>3, <2>1
      <3> HIDE DEF c
      <3>. QED
        BY <3>1, <3>2
    <2>4. (settledOf[b] + 1)..(c + k) \subseteq Nat
      <3>1. c \in Nat /\ k \in Nat /\ settledOf[b] \in Nat
        BY <1>2, <1>3
      <3> HIDE DEF c
      <3>. QED
        BY <3>1
    <2>. QED
      BY <2>2, <2>3, <2>4
  <1>11. \A a \in Aggregates : a # b => Waiting(queue', a) = Waiting(queue, a)
    BY <1>5 DEF Waiting
  <1>12. k \in Nat /\ settledOf[b] \in 0..(c + k) /\ settledOf[b] >= settledOf[b]
    BY <1>2, <1>3
  <1>13. /\ OutboxInv'
         /\ \A a \in Aggregates : settledOf'[a] = IF a = b THEN settledOf[b] ELSE settledOf[a]
    BY <1>6, <1>8, <1>9, <1>10, <1>11, <1>12, TransactionInv
  <1>14. settledOf' = settledOf
    BY <1>13 DEF settledOf
  <1>15. reachedOf' = reachedOf
    BY <1>6, <1>14 DEF reachedOf
  <1>16. Delivery!Commit(b)
    BY <1>2, <1>6, <1>14, <1>15 DEF Delivery!Commit
  <1>. QED
    BY <1>13, <1>16 DEF Refines, Delivery!OrderNext

LEMMA PurgeRowsRefines ==
  ASSUME OutboxInv, NEW b \in Aggregates, PurgeRows(b)
  PROVE  OutboxInv' /\ Refines
  <1> DEFINE c == committed[b]
             last == NewRow(b, c + 1, "status_changed")
  <1>1. /\ c \in Nat /\ c \in 1..(MaximumEvents - 1) /\ settledOf[b] \in 0..c
        /\ committed' = [committed EXCEPT ![b] = @ + 1]
        /\ queue' = {r \in queue : r.book # b} \cup {last}
        /\ UNCHANGED << taken, batch, flight >>
    BY DEF OutboxInv, OutboxTyped, TailInv, PurgeRows
  <1>2. /\ last \in QueueRow /\ last.book = b /\ last.number = c + 1 /\ ~ last.published
    BY <1>1, OutboxAssumption DEF NewRow, QueueRow, publicationRoute
  <1> HIDE DEF last
  <1>3. \A r \in queue : r \in QueueRow /\ r.book \in Aggregates /\ r.number <= committed[r.book]
    BY DEF OutboxInv, OutboxTyped, RowsInv, QueueRow
  <1>4. queue' \subseteq QueueRow
    BY <1>1, <1>2, <1>3
  <1>5. RowsInv'
    <2>1. Unique(queue')
      BY <1>1, <1>2 DEF OutboxInv, RowsInv, Unique
    <2>2. \A a \in Aggregates : committed'[a] = IF a = b THEN c + 1 ELSE committed[a]
      BY <1>1 DEF OutboxInv, OutboxTyped
    <2>3. \A r \in queue' : r.number <= committed'[r.book]
      BY <1>1, <1>2, <1>3, <2>2
    <2>. QED
      BY <2>1, <2>3 DEF RowsInv
  <1>6. Waiting(queue', b) = (c + 1)..(c + 1)
    <2>1. Waiting(queue', b) = {c + 1}
      BY <1>1, <1>2 DEF Waiting
    <2>. QED
      BY <1>1, <2>1
  <1>7. \A a \in Aggregates : a # b => Waiting(queue', a) = Waiting(queue, a)
    BY <1>1, <1>2 DEF Waiting
  <1>8. 1 \in Nat /\ c \in 0..(c + 1) /\ c + 1 <= MaximumEvents /\ c >= settledOf[b]
    BY <1>1, OutboxAssumption
  <1>9. /\ OutboxInv'
        /\ \A a \in Aggregates : settledOf'[a] = IF a = b THEN c ELSE settledOf[a]
    BY <1>1, <1>4, <1>5, <1>6, <1>7, <1>8, TransactionInv
  <1>10. settledOf' = [settledOf EXCEPT ![b] = committed[b]]
    BY <1>9 DEF settledOf
  <1>11. \A a \in Aggregates :
             /\ reachedOf[a] = IF << a, settledOf[a] + 1 >> \in taken THEN settledOf[a] + 1
                               ELSE settledOf[a]
             /\ reachedOf'[a] = IF << a, settledOf'[a] + 1 >> \in taken THEN settledOf'[a] + 1
                                ELSE settledOf'[a]
    BY <1>1, <1>9, ReachedNow, ReachedAfter
  <1>12. reachedOf'[b] = c
    <2>1. << b, c + 1 >> \notin taken
      <3>1. ASSUME << b, c + 1 >> \in taken PROVE FALSE
        <4>1. Known(<< b, c + 1 >>)
          BY <3>1 DEF OutboxInv, KnownInv
        <4>. QED
          BY <1>1, <4>1 DEF Known
      <3>. QED
        BY <3>1
    <2>. QED
      BY <1>9, <1>11, <2>1
  <1>13. ASSUME NEW a \in Aggregates, a # b PROVE reachedOf'[a] = reachedOf[a]
    <2>1. settledOf'[a] = settledOf[a]
      BY <1>9, <1>13
    <2>. QED
      BY <1>11, <2>1
  <1>14. reachedOf' = [reachedOf EXCEPT ![b] = committed[b]]
    <2>1. /\ reachedOf = [a \in Aggregates |-> reachedOf[a]]
          /\ reachedOf' = [a \in Aggregates |-> reachedOf'[a]]
      BY DEF reachedOf
    <2>2. [reachedOf EXCEPT ![b] = committed[b]]
             = [a \in Aggregates |-> IF a = b THEN committed[b] ELSE reachedOf[a]]
      BY <2>1
    <2>. QED
      BY <1>12, <1>13, <2>1, <2>2
  <1>15. Delivery!Withdraw(b)
    BY <1>1, <1>10, <1>14 DEF Delivery!Withdraw
  <1>. QED
    BY <1>9, <1>15 DEF Refines, Delivery!OrderNext

-----------------------------------------------------------------------------
(* The theorems *)

LEMMA NextRefines == OutboxInv /\ [OutboxNext]_outboxVars => OutboxInv' /\ Refines
  <1> SUFFICES ASSUME OutboxInv, [OutboxNext]_outboxVars PROVE OutboxInv' /\ Refines
    OBVIOUS
  <1>1. ASSUME NEW b \in Aggregates,
  AppendRows(b) \/ PurgeRows(b) PROVE OutboxInv' /\ Refines
    BY <1>1, AppendRowsRefines, PurgeRowsRefines
  <1>2. ASSUME NEW d \in Dispatchers, ClaimOutbox(d) PROVE OutboxInv' /\ Refines
    BY <1>2, ClaimRefines
  <1>3. ASSUME NEW d \in Dispatchers, NEW m \in batch[d], Publish(d, m)
        PROVE  OutboxInv' /\ Refines
    BY <1>3, PublishRefines
  <1>4. ASSUME NEW d \in Dispatchers,
               BrokerTakes(d) \/ BrokerReturns(d) \/ BrokerConfirms(d) \/ Confirmed(d)
        PROVE  OutboxInv' /\ Refines
    BY <1>4, BrokerRefines
  <1>5. ASSUME NEW d \in Dispatchers, Unconfirmed(d) \/ StatementFails(d) \/ Abandon(d)
        PROVE  OutboxInv' /\ Refines
    BY <1>5, EndingRefines
  <1>6. ASSUME NEW d \in Dispatchers,
  MarkSent(d) \/ RetrySent(d) PROVE OutboxInv' /\ Refines
    BY <1>6, MarkSentRefines, RetrySentRefines
  <1>7. ASSUME NEW r \in queue, LeaseEnds(r) \/ DelayEnds(r) PROVE OutboxInv' /\ Refines
    BY <1>7, TimeRefines
  <1>8. CASE UNCHANGED outboxVars
    <2>1. settledOf' = settledOf /\ reachedOf' = reachedOf
      BY <1>8 DEF outboxVars, settledOf, reachedOf, Unpublished
    <2>2. OutboxInv'
      BY <1>8, <2>1
         DEF outboxVars, OutboxInv, OutboxTyped, RowsInv, TailInv, KnownInv, Known,
             TakenInv,
             awaitRoutedConfirmation
    <2>. QED
      BY <1>8, <2>1, <2>2 DEF outboxVars, Refines
  <1>. QED
    BY <1>1, <1>2, <1>3, <1>4, <1>5, <1>6, <1>7, <1>8 DEF OutboxNext

(***************************************************************************)
(* In every state: a book's unpublished rows are its last ones, nothing a  *)
(* process holds or the broker took is past the next one, and a message    *)
(* about to be marked was taken.                                           *)
(***************************************************************************)
THEOREM OutboxConsistent == OutboxInit /\ [][OutboxNext]_outboxVars => []OutboxInv
  <1>1. OutboxInit => OutboxInv
    BY InitRefines
  <1>2. OutboxInv /\ [OutboxNext]_outboxVars => OutboxInv'
    BY NextRefines
  <1>. QED
    BY <1>1, <1>2, PTL

(***************************************************************************)
(* The safety part of OrderedAtLeastOnce: an event is handed to the broker *)
(* for the first time only after its predecessors are settled, and settled *)
(* only after the broker took it, whatever leases, statements, connections *)
(* and processes do.                                                       *)
(***************************************************************************)
THEOREM OutboxImplementsDelivery ==
  OutboxInit /\ [][OutboxNext]_outboxVars
     => Delivery!OrderInit /\ [][Delivery!OrderNext]_<< committed, reachedOf, settledOf >>
  <1>1. OutboxInit => Delivery!OrderInit
    BY InitRefines
  <1>2. OutboxInv /\ [OutboxNext]_outboxVars
           => [Delivery!OrderNext]_<< committed, reachedOf, settledOf >>
    BY NextRefines DEF Refines
  <1>. QED
    BY <1>1, <1>2, OutboxConsistent, PTL

-----------------------------------------------------------------------------
(* Uploads and the reconciler                                              *)
(*                                                                         *)
(* UploadKeepsObject is not inductive: it does not say why an object that  *)
(* the reconciler found unreferenced stays unreferenced until the pass     *)
(* deletes it.  PassInv does: what a pass looks at belongs to an upload    *)
(* that ended and has no commit in doubt.  PhaseInv says what the two      *)
(* stores hold at each phase of an upload.                                 *)

UploadTyped ==
  /\ uploads \in [Uploads -> Phases]
  /\ stored \subseteq Uploads /\ rows \subseteq Uploads /\ doubtful \subseteq Uploads
  /\ aged \subseteq Uploads
  /\ pass = Pass(pass.phase, pass.cursor, pass.scanned, pass.candidates, pass.orphans)
  /\ pass.candidates \subseteq Uploads /\ pass.orphans \subseteq Uploads

(* What the object store and the database hold while an upload is at a phase. *)
PhaseInv ==
  \A u \in Uploads :
    /\ uploads[u] \in {"idle", "put", "create"} => u \notin rows /\ u \notin doubtful
    /\ uploads[u] \in {"idle", "put"} => u \notin stored
    /\ uploads[u] \in {"create", "lookup", "succeeded"} => u \in stored
    /\ uploads[u] = "cleanup" => u \notin rows \/ u \in late
    /\ uploads[u] = "succeeded" => u \in rows
    /\ u \in doubtful => u \notin rows

(* What the reconciler has in hand, or may take. *)
Suspects == aged \cup pass.candidates \cup pass.orphans

PassInv ==
  /\ \A u \in Suspects : uploads[u] \in {"succeeded", "failed"} /\ u \notin doubtful
  /\ pass.orphans \cap rows = {}

UploadInv == UploadTyped /\ PhaseInv /\ PassInv /\ rows \subseteq stored \cup late

-----------------------------------------------------------------------------
LEMMA FirstOf == ASSUME NEW n, NEW set PROVE First(n, set) \subseteq set
BY DEF First

LEMMA InitInv == UploadInit => UploadInv
BY DEF UploadInit, UploadInv, UploadTyped, PhaseInv, PassInv, Suspects, PassEnds, Pass, Phases

LEMMA UploadStepInv ==
  ASSUME UploadInv, NEW u \in Uploads, UploadStep(u)
  PROVE  UploadInv'
<1> USE DEF UploadInv, UploadTyped, PhaseInv, PassInv, Suspects, Phases, Move
<1>1. CASE StartUpload(u)
  BY <1>1 DEF StartUpload
<1>2. CASE Put(u)
  BY <1>2 DEF Put
<1>3. CASE PutFails(u)
  BY <1>3 DEF PutFails
<1>4. CASE Create(u)
  BY <1>4 DEF Create
<1>5. CASE Lookup(u)
  BY <1>5 DEF Lookup
<1>6. CASE deleteObject(u)
  BY <1>6 DEF deleteObject
<1>7. CASE CommitLands(u)
  BY <1>7 DEF CommitLands
<1>8. CASE Age(u)
  BY <1>8 DEF Age, Active
<1> QED
  BY <1>1, <1>2, <1>3, <1>4, <1>5, <1>6, <1>7, <1>8 DEF UploadStep

LEMMA ReconcilerInv ==
  ASSUME UploadInv, Reconcile \/ PassFails \/ Stop
  PROVE  UploadInv'
<1> USE DEF UploadInv, UploadTyped, PhaseInv, PassInv, Suspects, Phases, Pass, PassEnds
<1>1. CASE StartPass
  BY <1>1 DEF StartPass
<1>2. CASE ListPage
  <2>1. /\ pass'.candidates \subseteq pass.candidates \cup aged
        /\ pass'.orphans = {}
        /\ pass' = Pass(pass'.phase, pass'.cursor, pass'.scanned, pass'.candidates, pass'.orphans)
    BY <1>2, Zenon DEF ListPage
  <2> QED
    BY <1>2, <2>1 DEF ListPage
<1>3. CASE CheckBatch
  <2>1. First(BatchSize, pass.candidates) \subseteq pass.candidates
    BY FirstOf
  <2> QED
    BY <1>3, <2>1 DEF CheckBatch, ReferencesExist
<1>4. CASE DeleteOrphan
  <2>1. PICK u \in pass.orphans :
          /\ stored' = stored \ {u} /\ aged' = aged \ {u}
          /\ pass' = IF pass.orphans = {u} THEN PassEnds(pass.cursor)
                                           ELSE [pass EXCEPT !.orphans = @ \ {u}]
          /\ UNCHANGED << uploads, rows, doubtful, late, faults >>
    BY <1>4, FirstOf DEF DeleteOrphan
  <2> QED
    BY <2>1
<1>5. CASE PassFails
  BY <1>5 DEF PassFails
<1>6. CASE Stop
  BY <1>6 DEF Stop, Active
<1> QED
  BY <1>1, <1>2, <1>3, <1>4, <1>5, <1>6 DEF Reconcile

LEMMA StutterInv == UploadInv /\ UNCHANGED uploadVars => UploadInv'
BY DEF UploadInv, UploadTyped, PhaseInv, PassInv, Suspects, Pass, uploadVars

(***************************************************************************)
(* The inductive invariant, for any number of uploads and faults, any page *)
(* size and any bound on a pass.                                           *)
(***************************************************************************)
THEOREM UploadInvariant == UploadSpec => []UploadInv
<1>1. UploadInv /\ [UploadNext]_uploadVars => UploadInv'
  BY UploadStepInv, ReconcilerInv, StutterInv DEF UploadNext
<1> QED
  BY InitInv, <1>1, PTL DEF UploadSpec

(***************************************************************************)
(* A book whose upload was answered with success has its original, and     *)
(* neither UploadBook's clean-up nor the reconciler removes the original   *)
(* of a book, except of a row that landed after the upload had looked for  *)
(* it in vain.                                                             *)
(***************************************************************************)
THEOREM OriginalsKept == UploadSpec => []UploadKeepsObject
<1>1. UploadInv => UploadKeepsObject
  BY DEF UploadInv, PhaseInv, UploadKeepsObject
<1> QED
  BY UploadInvariant, <1>1, PTL

-----------------------------------------------------------------------------
(* The consumer                                                            *)
(*                                                                         *)
(* A delivery that is acknowledged has left a trace: SettledInv says that  *)
(* its event was applied or that its copy is in the queue, and prefetch    *)
(* one keeps that copy there until the acknowledgement.                    *)

Deliveries == [phase : {"handle", "ack", "nack", "republish"}, message : Copy]

(* Every message carries counts within the limits; the broker's own count  *)
(* is at most the number of connections lost.                              *)
ConsumerTyped ==
  /\ sent \subseteq Facts /\ applied \subseteq sent /\ dead \subseteq sent
  /\ breaks \in 0..MaximumBreaks
  /\ copies \subseteq Copy /\ \A c \in copies : c.broker <= breaks /\ c.fact \in sent
  /\ delivery # NoDelivery =>
       /\ delivery \in Deliveries
       /\ delivery.message.broker <= breaks /\ delivery.message.fact \in sent
       /\ delivery.phase = "republish" => deliveryAttempt(delivery.message) < RetryLimit

SettledInv ==
  delivery # NoDelivery /\ delivery.phase = "ack" =>
    \/ delivery.message.fact \in applied
    \/ \E c \in copies : c.fact = delivery.message.fact

NothingLost == sent = applied \cup dead \cup Pending

ConsumerInv == ConsumerTyped /\ SettledInv /\ NothingLost

LEMMA DeliveryTyped ==
  ASSUME ConsumerTyped, delivery # NoDelivery
  PROVE  /\ delivery = [phase |-> delivery.phase, message |-> delivery.message]
         /\ delivery.message \in Copy /\ delivery.message.fact \in sent
         /\ delivery.message.broker <= breaks
BY DEF ConsumerTyped, Deliveries

LEMMA AtWork ==
  ASSUME delivery.phase \in {"handle", "ack", "nack", "republish"}
  PROVE  delivery # NoDelivery
BY DEF NoDelivery

(* The delivery after its phase has moved. *)
LEMMA PhaseMoved ==
  ASSUME ConsumerTyped, delivery # NoDelivery, NEW phase \in {"ack", "nack", "republish"},
         SettleAs(phase)
  PROVE  /\ delivery' # NoDelivery /\ delivery' \in Deliveries
         /\ delivery'.phase = phase /\ delivery'.message = delivery.message
<1>1. delivery' = [phase |-> phase, message |-> delivery.message]
  BY DeliveryTyped DEF SettleAs
<1> QED
  BY <1>1, DeliveryTyped DEF NoDelivery, Deliveries

(* A copy with its counts: what a retry publishes and what the broker      *)
(* delivers again.                                                         *)
LEMMA AttemptTyped ==
  ASSUME NEW m \in Copy
  PROVE  /\ deliveryAttempt(m) \in Nat
         /\ m.fact \in Facts /\ m.broker \in 0..MaximumBreaks
<1>1. /\ m.application \in NoCount..RetryLimit /\ m.broker \in 0..MaximumBreaks
      /\ m.fact \in Facts
  BY DEF Copy
<1>2. RetryLimit \in Nat /\ MaximumBreaks \in Nat /\ NoCount = -1
  BY ConsumerAssumption DEF ConsumerAssumption, NoCount
<1>3. m.broker \in Nat
  BY <1>1, <1>2
<1>4. m.application # NoCount => m.application \in Nat
  BY <1>1, <1>2
<1> QED
  BY <1>1, <1>3, <1>4 DEF deliveryAttempt

LEMMA RetryTyped ==
  ASSUME NEW m \in Copy, deliveryAttempt(m) < RetryLimit, breaks \in 0..MaximumBreaks
  PROVE  /\ retryMessage(m) \in Copy /\ retryMessage(m).fact = m.fact
         /\ retryMessage(m).broker = 0
<1>1. deliveryAttempt(m) \in Nat
  BY AttemptTyped
<1>2. RetryLimit \in Nat /\ MaximumBreaks \in Nat /\ NoCount = -1
  BY ConsumerAssumption DEF ConsumerAssumption, NoCount
<1> DEFINE n == deliveryAttempt(m) + 1
<1>3. n \in NoCount..RetryLimit /\ 0 \in 0..MaximumBreaks /\ breaks \in Nat
  BY <1>1, <1>2
<1>4. retryMessage(m) = [m EXCEPT !.application = n, !.broker = 0, !.serial = breaks]
  BY DEF retryMessage
<1> HIDE DEF n
<1> QED
  BY <1>3, <1>4 DEF Copy

LEMMA RedeliveryTyped ==
  ASSUME NEW m \in Copy, m.broker <= breaks, breaks \in 0..MaximumBreaks,
         breaks < MaximumBreaks
  PROVE  LET c == [m EXCEPT !.broker = @ + 1]
         IN  c \in Copy /\ c.fact = m.fact /\ c.broker <= breaks + 1
<1>1. MaximumBreaks \in Nat
  BY ConsumerAssumption DEF ConsumerAssumption
<1>2. m.broker \in 0..MaximumBreaks
  BY DEF Copy
<1> DEFINE n == m.broker + 1
<1>3. n \in 0..MaximumBreaks /\ n <= breaks + 1
  BY <1>1, <1>2
<1> HIDE DEF n
<1>4. [m EXCEPT !.broker = n] \in Copy /\ [m EXCEPT !.broker = n].broker = n
  BY <1>3 DEF Copy
<1> QED
  BY <1>3, <1>4 DEF Copy, n

(* The two parts of Pending. *)
LEMMA PendingParts ==
  /\ \A f : f \in Pending <=> \/ \E c \in copies : c.fact = f
                              \/ delivery # NoDelivery /\ f = delivery.message.fact
  /\ \A f : f \in Pending' <=> \/ \E c \in copies' : c.fact = f
                               \/ delivery' # NoDelivery /\ f = delivery'.message.fact
BY DEF Pending

LEMMA ArriveInv ==
  ASSUME ConsumerInv, NEW f \in Facts, Arrive(f)
  PROVE  ConsumerInv'
<1> DEFINE c == [fact |-> f, application |-> NoCount, broker |-> 0, serial |-> 0]
<1>1. /\ sent' = sent \cup {f} /\ copies' = copies \cup {c}
      /\ UNCHANGED << delivery, applied, dead, breaks >>
  BY DEF Arrive
<1>2. c \in Copy /\ c.fact = f /\ c.broker = 0
  <2>1. 0 \in 0..MaximumBreaks /\ NoCount \in NoCount..RetryLimit
    BY ConsumerAssumption DEF ConsumerAssumption, NoCount
  <2> QED
    BY <2>1 DEF Copy
<1> HIDE DEF c
<1>3. ConsumerTyped'
  BY <1>1, <1>2 DEF ConsumerInv, ConsumerTyped, deliveryAttempt
<1>4. SettledInv'
  BY <1>1 DEF ConsumerInv, SettledInv
<1>5. NothingLost'
  <2>1. \A g : g \in Pending' <=> g \in Pending \/ g = f
    BY <1>1, <1>2, PendingParts
  <2> QED
    BY <1>1, <2>1 DEF ConsumerInv, NothingLost
<1> QED
  BY <1>3, <1>4, <1>5 DEF ConsumerInv

LEMMA DeliverInv ==
  ASSUME ConsumerInv, NEW c \in copies, Deliver(c)
  PROVE  ConsumerInv'
<1>1. /\ delivery = NoDelivery /\ copies' = copies \ {c}
      /\ delivery' = [phase |-> "handle", message |-> c]
      /\ UNCHANGED << sent, applied, dead, breaks >>
  BY DEF Deliver
<1>2. /\ delivery'.phase = "handle" /\ delivery'.message = c /\ delivery' # NoDelivery
      /\ c \in Copy /\ c.broker <= breaks /\ c.fact \in sent /\ delivery' \in Deliveries
  BY <1>1 DEF ConsumerInv, ConsumerTyped, NoDelivery, Deliveries
<1>3. ConsumerTyped'
  BY <1>1, <1>2 DEF ConsumerInv, ConsumerTyped
<1>4. SettledInv'
  BY <1>2 DEF SettledInv
<1>5. NothingLost'
  <2>1. \A g : g \in Pending' <=> g \in Pending
    BY <1>1, <1>2, PendingParts
  <2> QED
    BY <1>1, <2>1 DEF ConsumerInv, NothingLost
<1> QED
  BY <1>3, <1>4, <1>5 DEF ConsumerInv

(* A step of the handler that moves the phase: what it may add to the queue *)
(* and to the applied events.                                               *)
LEMMA HandlerInv ==
  ASSUME ConsumerInv, delivery # NoDelivery,
         NEW phase \in {"ack", "nack", "republish"}, SettleAs(phase),
         NEW fresh \in SUBSET Copy, copies' = copies \cup fresh,
         \A c \in fresh : c.fact = delivery.message.fact /\ c.broker = 0,
         applied' \in {applied, applied \cup {delivery.message.fact}},
         UNCHANGED << sent, dead, breaks >>,
         phase = "ack" => delivery.message.fact \in applied' \/ fresh # {},
         phase = "republish" => deliveryAttempt(delivery.message) < RetryLimit
  PROVE  ConsumerInv'
<1>1. /\ delivery' # NoDelivery /\ delivery' \in Deliveries
      /\ delivery'.phase = phase /\ delivery'.message = delivery.message
  BY PhaseMoved DEF ConsumerInv
<1>2. /\ delivery.message.fact \in sent /\ delivery.message.broker <= breaks
      /\ breaks \in 0..MaximumBreaks /\ MaximumBreaks \in Nat
  BY DeliveryTyped, ConsumerAssumption DEF ConsumerInv, ConsumerTyped, ConsumerAssumption
<1>3. ConsumerTyped'
  <2>1. copies' \subseteq Copy /\ \A c \in copies' : c.broker <= breaks' /\ c.fact \in sent'
    BY <1>2 DEF ConsumerInv, ConsumerTyped
  <2>2. applied' \subseteq sent'
    BY <1>2 DEF ConsumerInv, ConsumerTyped
  <2> QED
    BY <1>1, <1>2, <2>1, <2>2 DEF ConsumerInv, ConsumerTyped, deliveryAttempt
<1>4. SettledInv'
  BY <1>1 DEF SettledInv
<1>5. NothingLost'
  <2>1. \A g : g \in Pending' <=> g \in Pending
    BY <1>1, PendingParts
  <2>2. delivery.message.fact \in Pending
    BY PendingParts
  <2> QED
    BY <2>1, <2>2 DEF ConsumerInv, NothingLost
<1> QED
  BY <1>3, <1>4, <1>5 DEF ConsumerInv

LEMMA HandlesInv ==
  ASSUME ConsumerInv, Applies \/ Rejects \/ ApplyFails \/ PublishRetry
  PROVE  ConsumerInv'
<1>1. delivery # NoDelivery
  BY AtWork DEF Applies, Rejects, ApplyFails, PublishRetry
<1>2. /\ delivery.message \in Copy /\ breaks \in 0..MaximumBreaks
      /\ deliveryAttempt(delivery.message) \in Nat /\ RetryLimit \in Nat
  BY <1>1, DeliveryTyped, AttemptTyped, ConsumerAssumption
     DEF ConsumerInv, ConsumerTyped, ConsumerAssumption
<1> DEFINE NoCopies == {}
<1>0. /\ NoCopies \in SUBSET Copy
      /\ \A c \in NoCopies : c.fact = delivery.message.fact /\ c.broker = 0
  OBVIOUS
<1> HIDE DEF NoCopies
<1>3. CASE Applies
  <2>1. /\ SettleAs("ack") /\ copies' = copies \cup NoCopies
        /\ applied' = applied \cup {delivery.message.fact}
        /\ UNCHANGED << sent, dead, breaks >>
    BY <1>3 DEF Applies, NoCopies
  <2> QED
    BY <1>1, <1>0, <2>1, HandlerInv
<1>4. CASE Rejects
  <2>1. /\ SettleAs("nack") /\ copies' = copies \cup NoCopies /\ applied' = applied
        /\ UNCHANGED << sent, dead, breaks >>
    BY <1>4 DEF Rejects, NoCopies
  <2> QED
    BY <1>1, <1>0, <2>1, HandlerInv
<1>5. CASE ApplyFails
  <2> DEFINE phase == IF deliveryAttempt(delivery.message) >= RetryLimit THEN "nack" ELSE "republish"
  <2>1. /\ SettleAs(phase) /\ copies' = copies \cup NoCopies
        /\ applied' \in {applied, applied \cup {delivery.message.fact}}
        /\ UNCHANGED << sent, dead, breaks >>
    BY <1>5 DEF ApplyFails, NoCopies
  <2>2. /\ phase \in {"ack", "nack", "republish"} /\ phase # "ack"
        /\ phase = "republish" => deliveryAttempt(delivery.message) < RetryLimit
    BY <1>2
  <2> HIDE DEF phase
  <2> QED
    BY <1>1, <1>0, <2>1, <2>2, HandlerInv
<1>6. CASE PublishRetry
  <2> DEFINE m == retryMessage(delivery.message)
             one == {m}
  <2>1. m \in Copy /\ m.fact = delivery.message.fact /\ m.broker = 0
    <3>1. deliveryAttempt(delivery.message) < RetryLimit
      BY <1>1, <1>6 DEF PublishRetry, ConsumerInv, ConsumerTyped
    <3> QED
      BY <1>2, <3>1, RetryTyped
  <2>2. /\ \/ copies' = copies \cup one /\ SettleAs("ack")
           \/ copies' = copies \cup one /\ SettleAs("nack")
           \/ copies' = copies \cup NoCopies /\ SettleAs("nack")
        /\ UNCHANGED << sent, applied, dead, breaks >>
    BY <1>6 DEF PublishRetry, NoCopies
  <2>3. /\ one \in SUBSET Copy /\ one # {}
        /\ \A c \in one : c.fact = delivery.message.fact /\ c.broker = 0
    BY <2>1
  <2> HIDE DEF one
  <2>4. CASE copies' = copies \cup one /\ SettleAs("ack")
    BY <1>1, <2>2, <2>3, <2>4, HandlerInv
  <2>5. CASE copies' = copies \cup one /\ SettleAs("nack")
    BY <1>1, <2>2, <2>3, <2>5, HandlerInv
  <2>6. CASE copies' = copies \cup NoCopies /\ SettleAs("nack")
    BY <1>1, <1>0, <2>2, <2>6, HandlerInv
  <2> QED
    BY <2>2, <2>4, <2>5, <2>6
<1> QED
  BY <1>3, <1>4, <1>5, <1>6

LEMMA EndInv ==
  ASSUME ConsumerInv, Acknowledge \/ Reject \/ ConnectionBreaks
  PROVE  ConsumerInv'
<1>1. delivery # NoDelivery
  BY AtWork DEF Acknowledge, Reject, ConnectionBreaks
<1>2. /\ delivery.message \in Copy /\ delivery.message.fact \in sent
      /\ delivery.message.broker <= breaks
      /\ breaks \in 0..MaximumBreaks /\ MaximumBreaks \in Nat
  BY <1>1, DeliveryTyped, ConsumerAssumption DEF ConsumerInv, ConsumerTyped, ConsumerAssumption
<1>3. delivery' = NoDelivery
  BY DEF Acknowledge, Reject, ConnectionBreaks
<1>4. SettledInv'
  BY <1>3 DEF SettledInv
<1>5. CASE Acknowledge
  <2>1. UNCHANGED << sent, copies, applied, dead, breaks >> /\ delivery.phase = "ack"
    BY <1>5 DEF Acknowledge
  <2>2. ConsumerTyped'
    BY <1>3, <2>1 DEF ConsumerInv, ConsumerTyped
  <2>3. NothingLost'
    BY <1>1, <1>3, <2>1, PendingParts DEF ConsumerInv, NothingLost, SettledInv
  <2> QED
    BY <1>4, <2>2, <2>3 DEF ConsumerInv
<1>6. CASE Reject
  <2>1. dead' = dead \cup {delivery.message.fact} /\ UNCHANGED << sent, copies, applied, breaks >>
    BY <1>6 DEF Reject
  <2>2. ConsumerTyped'
    BY <1>2, <1>3, <2>1 DEF ConsumerInv, ConsumerTyped
  <2>3. NothingLost'
    BY <1>1, <1>2, <1>3, <2>1, PendingParts DEF ConsumerInv, NothingLost
  <2> QED
    BY <1>4, <2>2, <2>3 DEF ConsumerInv
<1>7. CASE ConnectionBreaks
  <2> DEFINE c == [delivery.message EXCEPT !.broker = @ + 1]
  <2>1. /\ copies' = copies \cup {c} /\ breaks' = breaks + 1 /\ breaks < MaximumBreaks
        /\ UNCHANGED << sent, applied, dead >>
    BY <1>7 DEF ConnectionBreaks
  <2>2. c \in Copy /\ c.fact = delivery.message.fact /\ c.broker <= breaks + 1
    BY <1>2, <2>1, RedeliveryTyped
  <2> HIDE DEF c
  <2>3. \A d \in copies : d.broker <= breaks + 1
    <3> SUFFICES ASSUME NEW d \in copies PROVE d.broker <= breaks + 1
      OBVIOUS
    <3>1. d.broker \in 0..MaximumBreaks /\ d.broker <= breaks
      BY AttemptTyped DEF ConsumerInv, ConsumerTyped
    <3> QED
      BY <1>2, <3>1
  <2>4. breaks' \in 0..MaximumBreaks
    BY <1>2, <2>1
  <2>5. ConsumerTyped'
    BY <1>2, <1>3, <2>1, <2>2, <2>3, <2>4 DEF ConsumerInv, ConsumerTyped
  <2>6. NothingLost'
    BY <1>1, <1>3, <2>1, <2>2, PendingParts DEF ConsumerInv, NothingLost
  <2> QED
    BY <1>4, <2>5, <2>6 DEF ConsumerInv
<1> QED
  BY <1>5, <1>6, <1>7

(***************************************************************************)
(* No event is lost and none is retried beyond the limit, for any number   *)
(* of events, retries and lost connections: an event that was published is *)
(* applied, or dead-lettered, or a copy of it is queued or being handled,  *)
(* although a retry and its acknowledgement are two messages; and every    *)
(* copy carries an attempt within the retry limit.                         *)
(***************************************************************************)
THEOREM NoEventLost ==
  ConsumerSpec => [](sent = applied \cup dead \cup Pending /\ copies \subseteq Copy)
<1>1. ConsumerInit => ConsumerInv
  <2> SUFFICES ASSUME ConsumerInit PROVE ConsumerInv
    OBVIOUS
  <2>1. 0 \in 0..MaximumBreaks
    BY ConsumerAssumption DEF ConsumerAssumption
  <2> QED
    BY <2>1 DEF ConsumerInit, ConsumerInv, ConsumerTyped, SettledInv, NothingLost, Pending
<1>2. ConsumerInv /\ [ConsumerNext]_consumerVars => ConsumerInv'
  <2>1. ConsumerInv /\ UNCHANGED consumerVars => ConsumerInv'
    BY DEF consumerVars, ConsumerInv, ConsumerTyped, SettledInv, NothingLost, Pending,
           deliveryAttempt
  <2> QED
    BY <2>1, ArriveInv, DeliverInv, HandlesInv, EndInv DEF ConsumerNext, Handles
<1>3. ConsumerInv => sent = applied \cup dead \cup Pending /\ copies \subseteq Copy
  BY DEF ConsumerInv, ConsumerTyped, NothingLost
<1> QED
  BY <1>1, <1>2, <1>3, PTL DEF ConsumerSpec
=============================================================================
