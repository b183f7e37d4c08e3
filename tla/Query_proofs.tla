------------------------------ MODULE Query_proofs ------------------------------
(***************************************************************************)
(* The path of a question, for any numbers of requests, searches and       *)
(* callers and any limits: Answer's generations and cache, the limiter in  *)
(* front of a provider, and the assessment of evidence in Retrieval.       *)
(*                                                                         *)
(* Answer first.  Equal requests generate once, permits are exact, and     *)
(* every answer is grounded in the evidence of its own request.            *)
(*                                                                         *)
(* The properties rest on each other. A follower never goes on to generate *)
(* (it would complete and delete the call of another request) because the  *)
(* answer it waited for was generated for its own flight key; that answer  *)
(* validates because the key holds the evidence. What makes this inductive *)
(* is that nothing an answer depends on changes once it was generated:     *)
(*   KeyedInv     only cacheable requests use the cache and the calls;     *)
(*   ReadyInv     a call is closed after its owner has generated;          *)
(*   JoinedInv    a follower waits for a call of its own key;              *)
(*   GeneratedInv entries, outcomes and answers name finished generations. *)
(***************************************************************************)
EXTENDS AnswerService, RequestLimiter, EvidenceAssessment, FiniteSetTheorems,
        SequenceTheorems, WellFoundedInduction, TLAPS

Late == {"answered", "releasing", "returning", "done"}

(* The generation of g is over and cites evidence g was given. *)
Generated(g) == pc[g] \in Late /\ validateSegments(g, g)

KeyedInv ==
    /\ \A r \in Requests : pc[r] \in {"retrieved", "missed", "waiting"} => req[r].cacheable
    /\ \A c \in calls : req[c].cacheable

ReadyInv == \A c \in ready : pc[c] \in {"releasing", "returning", "done"}

JoinedInv ==
    \A r \in Requests : pc[r] = "waiting" =>
        /\ joined[r] \in Requests /\ pc[joined[r]] # "new"
        /\ flightKey(joined[r]) = flightKey(r)

GeneratedInv ==
    /\ \A r \in Requests : pc[r] = "answered" => Generated(r)
    /\ \A g \in Range(entries) : Generated(g)
    /\ \A c \in Requests : outcome[c] # None => outcome[c] = c /\ Generated(c)
    /\ \A r \in Requests : answer[r] # None =>
           pc[r] \in Late /\ Generated(answer[r]) /\ key(answer[r]) = key(r)

AnswerInv == GenerationsExact /\ KeyedInv /\ ReadyInv /\ JoinedInv /\ GeneratedInv

-----------------------------------------------------------------------------
(* Sequences *)

(* Induction over the naturals, for a set instead of a predicate. *)
LEMMA SetInduction ==
    ASSUME NEW T, 0 \in T, \A n \in Nat : n \in T => n + 1 \in T
    PROVE  Nat \subseteq T
  <1>1. SUFFICES ASSUME Nat \ T # {} PROVE FALSE
    OBVIOUS
  <1>2. PICK m \in Nat \ T : \A n \in Nat \ T : <<n, m>> \notin OpToRel(<, Nat)
    <2>1. Nat \ T \subseteq Nat
      OBVIOUS
    <2>. QED
      BY <1>1, <2>1, NatLessThanWellFounded, WFMin
  <1>3. m # 0 /\ m - 1 \in Nat
    OBVIOUS
  <1>4. m - 1 \notin T
    BY <1>3
  <1>5. <<m - 1, m>> \in OpToRel(<, Nat)
    BY <1>3 DEF OpToRel
  <1>. QED
    BY <1>2, <1>3, <1>4, <1>5

(* The recursive definition of Remaining has a solution. *)
LEMMA KeptDefined ==
    ASSUME NEW R, NEW seq \in Seq(R), NEW gs
    PROVE  \E f : /\ f = [i \in 0..Len(seq) |->
                             IF i = 0 THEN <<>>
                             ELSE IF seq[i] \in gs THEN Append(f[i - 1], seq[i])
                             ELSE f[i - 1]]
                  /\ Remaining(seq, gs) = f[Len(seq)]
  <1> DEFINE Step(f, i) == IF i = 0 THEN <<>>
                           ELSE IF seq[i] \in gs THEN Append(f[i - 1], seq[i])
                           ELSE f[i - 1]
             T == {n \in Nat : \E f : f = [i \in 0..n |-> Step(f, i)]}
  <1>1. 0 \in T
    <2> DEFINE f == [i \in 0..0 |-> <<>>]
    <2>1. f = [i \in 0..0 |-> Step(f, i)]
      OBVIOUS
    <2>. QED
      BY <2>1
  <1>2. ASSUME NEW n \in Nat, n \in T PROVE n + 1 \in T
    <2>1. PICK f : f = [i \in 0..n |-> Step(f, i)]
      BY <1>2
    <2> DEFINE g == [i \in 0..(n + 1) |-> IF i = n + 1 THEN Step(f, i) ELSE f[i]]
    <2>2. ASSUME NEW i \in 0..(n + 1) PROVE g[i] = Step(g, i)
      <3>1. CASE i = 0
        BY <3>1, <2>1
      <3>2. CASE i # 0 /\ i # n + 1
        <4>1. i \in 0..n /\ i - 1 \in 0..n /\ g[i] = f[i] /\ g[i - 1] = f[i - 1]
          BY <3>2
        <4>. QED
          BY <4>1, <2>1, <3>2
      <3>3. CASE i = n + 1
        BY <3>3
      <3>. QED
        BY <3>1, <3>2, <3>3
    <2>3. g = [i \in 0..(n + 1) |-> Step(g, i)]
      BY <2>2
    <2>4. \E h : h = [i \in 0..(n + 1) |-> Step(h, i)]
      <3> HIDE DEF g, Step
      <3>. QED
        BY <2>3
    <2>. QED
      BY <2>4
  <1>3. Len(seq) \in T
    <2> HIDE DEF T
    <2>. QED
      BY <1>1, <1>2, SetInduction, LenProperties
  <1>. QED
    BY <1>3 DEF Remaining

(* What Append adds. *)
LEMMA AppendRange ==
    ASSUME NEW R, NEW seq \in Seq(R), NEW e \in R
    PROVE  /\ Append(seq, e) \in Seq(R) /\ Len(Append(seq, e)) = Len(seq) + 1
           /\ Range(Append(seq, e)) = Range(seq) \cup {e}
  <1>1. /\ Append(seq, e) \in Seq(R) /\ Len(Append(seq, e)) = Len(seq) + 1
        /\ \A i \in 1..Len(seq) : Append(seq, e)[i] = seq[i]
        /\ Append(seq, e)[Len(seq) + 1] = e
    BY AppendProperties
  <1>2. Range(seq) = {seq[i] : i \in 1..Len(seq)} /\ Len(seq) \in Nat
    BY RangeEquality, LenProperties
  <1>3. Range(Append(seq, e)) = {Append(seq, e)[i] : i \in 1..(Len(seq) + 1)}
    BY <1>1, RangeEquality
  <1>4. 1..(Len(seq) + 1) = (1..Len(seq)) \cup {Len(seq) + 1}
    BY <1>2
  <1>5. ASSUME NEW x PROVE x \in Range(Append(seq, e)) <=> x \in Range(seq) \cup {e}
    BY <1>1, <1>2, <1>3, <1>4
  <1>. QED
    BY <1>1, <1>5

(* Remaining drops the elements outside gs and nothing else. *)
LEMMA KeptProperties ==
    ASSUME NEW R, NEW seq \in Seq(R), NEW gs
    PROVE  /\ Remaining(seq, gs) \in Seq(R)
           /\ Range(Remaining(seq, gs)) = Range(seq) \cap gs
           /\ Len(Remaining(seq, gs)) <= Len(seq)
           /\ ~(Range(seq) \subseteq gs) => Len(Remaining(seq, gs)) < Len(seq)
  <1> DEFINE N == Len(seq)
             Firsts(i) == {seq[j] : j \in 1..i}
  <1>0. N \in Nat /\ Range(seq) = Firsts(N) /\ \A i \in 1..N : seq[i] \in R
    BY LenProperties, RangeEquality
  <1>1. PICK f : /\ f = [i \in 0..N |-> IF i = 0 THEN <<>>
                             ELSE IF seq[i] \in gs THEN Append(f[i - 1], seq[i])
                             ELSE f[i - 1]]
                 /\ Remaining(seq, gs) = f[N]
    BY KeptDefined
  <1> DEFINE Good(i) == /\ f[i] \in Seq(R) /\ Range(f[i]) = Firsts(i) \cap gs
                        /\ Len(f[i]) <= i
                        /\ ~(Firsts(i) \subseteq gs) => Len(f[i]) < i
             T == {n \in Nat : n <= N => Good(n)}
  <1>2. 0 \in T
    <2>1. f[0] = <<>> /\ Firsts(0) = {}
      BY <1>0, <1>1
    <2>2. <<>> \in Seq(R) /\ Range(<<>>) = {} /\ Len(<<>>) = 0
      BY EmptySeq DEF Range
    <2>3. f[0] \in Seq(R) /\ Range(f[0]) = {} /\ Len(f[0]) = 0
      BY <2>1, <2>2
    <2>4. Good(0)
      <3> HIDE DEF Firsts
      <3>. QED
        BY <2>1, <2>3
    <2> HIDE DEF Good
    <2>. QED
      BY <2>4
  <1>3. ASSUME NEW n \in Nat, n \in T, n + 1 <= N PROVE Good(n + 1)
    <2>1. Good(n)
      BY <1>3, <1>0
    <2>2. n + 1 \in 1..N /\ n + 1 \in 0..N /\ n \in 0..N /\ (n + 1) - 1 = n
      BY <1>0, <1>3
    <2>3. f[n + 1] = IF seq[n + 1] \in gs THEN Append(f[n], seq[n + 1]) ELSE f[n]
      <3>1. n + 1 # 0
        OBVIOUS
      <3>2. f[n + 1] = IF seq[n + 1] \in gs THEN Append(f[(n + 1) - 1], seq[n + 1])
                       ELSE f[(n + 1) - 1]
        BY <1>1, <2>2, <3>1
      <3>. QED
        BY <2>2, <3>2
    <2>4. Firsts(n + 1) = Firsts(n) \cup {seq[n + 1]}
      <3>1. 1..(n + 1) = (1..n) \cup {n + 1}
        OBVIOUS
      <3>. QED
        BY <3>1
    <2>5. seq[n + 1] \in R
      BY <2>2, <1>0
    <2>6. Len(f[n]) \in Nat
      BY <2>1, LenProperties
    <2>7. CASE seq[n + 1] \in gs
      <3>1. f[n + 1] = Append(f[n], seq[n + 1])
        BY <2>3, <2>7
      <3>2. /\ f[n + 1] \in Seq(R) /\ Len(f[n + 1]) = Len(f[n]) + 1
            /\ Range(f[n + 1]) = Range(f[n]) \cup {seq[n + 1]}
        <4> HIDE DEF Firsts
        <4>. QED
          BY <3>1, <2>1, <2>5, AppendRange
      <3>4. Range(f[n + 1]) = Firsts(n + 1) \cap gs
        <4> HIDE DEF Firsts
        <4>. QED
          BY <3>2, <2>1, <2>4, <2>7
      <3>5. ~(Firsts(n + 1) \subseteq gs) => ~(Firsts(n) \subseteq gs)
        <4> HIDE DEF Firsts
        <4>. QED
          BY <2>4, <2>7
      <3>. QED
        <4> HIDE DEF Firsts
        <4>. QED
          BY <3>2, <3>4, <3>5, <2>1, <2>6
    <2>8. CASE seq[n + 1] \notin gs
      <3> HIDE DEF Firsts
      <3>1. f[n + 1] = f[n]
        BY <2>3, <2>8
      <3>. QED
        BY <3>1, <2>1, <2>4, <2>6, <2>8
    <2>. QED
      BY <2>7, <2>8
  <1>4. N \in T
    <2>1. \A n \in Nat : n \in T => n + 1 \in T
      <3>1. ASSUME NEW n \in Nat, n \in T PROVE n + 1 \in T
        <4>1. n + 1 <= N => Good(n + 1)
          BY <1>3, <3>1
        <4> HIDE DEF Good
        <4>. QED
          BY <4>1
      <3>. QED
        BY <3>1
    <2> HIDE DEF T
    <2>. QED
      BY <1>0, <1>2, <2>1, SetInduction
  <1>. QED
    BY <1>0, <1>1, <1>4

(* A sequence has a first element of every set it meets. *)
LEMMA FirstIn ==
    ASSUME NEW R, NEW seq \in Seq(R), NEW gs, Range(seq) \cap gs # {}
    PROVE  \E i \in DOMAIN seq : seq[i] \in gs /\ \A j \in 1..(i - 1) : seq[j] \notin gs
  <1> DEFINE T == {i \in DOMAIN seq : seq[i] \in gs}
  <1>1. DOMAIN seq = 1..Len(seq) /\ Len(seq) \in Nat
    BY LenProperties
  <1>2. T # {} /\ T \subseteq Nat
    BY <1>1 DEF Range
  <1>3. PICK i \in T : \A j \in T : <<j, i>> \notin OpToRel(<, Nat)
    <2> HIDE DEF T
    <2>. QED
      BY <1>2, NatLessThanWellFounded, WFMin
  <1>4. ASSUME NEW j \in 1..(i - 1), seq[j] \in gs PROVE FALSE
    <2>1. j \in T /\ j \in Nat /\ i \in Nat /\ j < i
      BY <1>1, <1>4
    <2>2. <<j, i>> \in OpToRel(<, Nat)
      BY <2>1 DEF OpToRel
    <2>. QED
      BY <1>3, <2>1, <2>2
  <1>. QED
    BY <1>3, <1>4

(* Pruning keeps live entries, and First finds one of the entries it is to find. *)
LEMMA PrunedProperties ==
    ASSUME TypeOK
    PROVE  /\ pruned \in Seq(Requests) /\ Len(pruned) \in Nat /\ Len(pruned) <= Capacity
           /\ \A g \in Range(pruned) : g \in Requests /\ g \in Range(entries) /\ Live(g)
           /\ \A gs : Range(pruned) \cap gs # {} => First(gs) \in Range(pruned) \cap gs
  <1>1. entries \in Seq(Requests) /\ Len(entries) <= Capacity /\ Len(entries) \in Nat
    BY LenProperties DEF TypeOK
  <1>2. /\ pruned \in Seq(Requests) /\ Len(pruned) <= Len(entries)
        /\ Range(pruned) = Range(entries) \cap {g \in Requests : Live(g)}
    BY <1>1, KeptProperties DEF pruned
  <1>3. Len(pruned) \in Nat /\ Len(pruned) <= Capacity
    BY <1>1, <1>2, LenProperties, AnswerAssumption
  <1>4. ASSUME NEW gs, Range(pruned) \cap gs # {}
        PROVE  First(gs) \in Range(pruned) \cap gs
    <2>1. \E i \in DOMAIN pruned :
              pruned[i] \in gs /\ \A j \in 1..(i - 1) : pruned[j] \notin gs
      BY <1>2, <1>4, FirstIn
    <2>. QED
      BY <2>1 DEF First, Range
  <1>. QED
    BY <1>2, <1>3, <1>4

-----------------------------------------------------------------------------
(* Types *)

(* The cache keeps its capacity when a hit is moved to the end. *)
LEMMA LookupEntries ==
    ASSUME TypeOK, NEW r \in Requests, lookup(r)
    PROVE  /\ entries' \in Seq(Requests) /\ Len(entries') <= Capacity
           /\ Range(entries') \subseteq Range(entries)
           /\ Hits(r) # {} => First(Hits(r)) \in Hits(r)
  <1>1. Hits(r) \subseteq Range(pruned)
    BY DEF Hits
  <1>2. CASE Hits(r) = {}
    <2>1. entries' = pruned
      BY <1>2 DEF lookup
    <2>. QED
      BY <1>2, <2>1, PrunedProperties
  <1>3. CASE Hits(r) # {}
    <2> DEFINE g == First(Hits(r))
               others == Remaining(pruned, Requests \ {g})
    <2>1. g \in Range(pruned) /\ g \in Hits(r)
      BY <1>1, <1>3, PrunedProperties
    <2>2. pruned \in Seq(Requests) /\ g \in Requests
      BY <2>1, PrunedProperties
    <2>3. /\ others \in Seq(Requests) /\ Len(others) < Len(pruned)
          /\ Range(others) \subseteq Range(pruned)
      <3> HIDE DEF g
      <3>. QED
        BY <2>1, <2>2, KeptProperties
    <2>4. entries' = Append(others, g)
      BY <1>3 DEF lookup
    <2>5. Len(others) \in Nat
      BY <2>3, LenProperties
    <2> HIDE DEF g, others
    <2>6. /\ entries' \in Seq(Requests) /\ Len(entries') = Len(others) + 1
          /\ Range(entries') \subseteq Range(others) \cup {g}
      BY <2>2, <2>3, <2>4, AppendRange
    <2>7. Len(entries') <= Capacity
      BY <2>3, <2>5, <2>6, PrunedProperties, AnswerAssumption
    <2>. QED
      BY <2>1, <2>3, <2>6, <2>7, PrunedProperties DEF g
  <1>. QED
    BY <1>2, <1>3

(* And when a new entry replaces its equivalent or the oldest. *)
LEMMA StoredEntries ==
    ASSUME TypeOK, NEW r \in Requests
    PROVE  /\ stored(r) \in Seq(Requests) /\ Len(stored(r)) <= Capacity
           /\ Range(stored(r)) \subseteq Range(entries) \cup {r}
  <1> DEFINE others == Remaining(pruned, {g \in Requests : ~equivalentCacheEntry(g, r)})
             full == Len(others) = Len(pruned) /\ Len(pruned) = Capacity
             rest == IF full THEN Tail(pruned) ELSE others
  <1>1. /\ pruned \in Seq(Requests) /\ Len(pruned) \in Nat /\ Len(pruned) <= Capacity
        /\ Range(pruned) \subseteq Range(entries)
    BY PrunedProperties
  <1>2. /\ others \in Seq(Requests) /\ Len(others) <= Len(pruned)
        /\ Range(others) \subseteq Range(pruned)
    BY <1>1, KeptProperties
  <1>3. Len(others) \in Nat
    BY <1>2, LenProperties
  <1>4. stored(r) = Append(rest, r)
    BY DEF stored
  <1> HIDE DEF others
  <1>5. /\ rest \in Seq(Requests) /\ Len(rest) \in Nat /\ Len(rest) + 1 <= Capacity
        /\ Range(rest) \subseteq Range(pruned)
    <2>1. CASE full
      <3>1. pruned # <<>>
        BY <1>1, <2>1, EmptySeq, AnswerAssumption
      <3>2. /\ Tail(pruned) \in Seq(Requests) /\ Len(Tail(pruned)) = Len(pruned) - 1
            /\ \A i \in 1..Len(Tail(pruned)) : Tail(pruned)[i] = pruned[i + 1]
        BY <1>1, <3>1, HeadTailProperties
      <3>3. /\ Range(Tail(pruned)) = {Tail(pruned)[i] : i \in 1..Len(Tail(pruned))}
            /\ Range(pruned) = {pruned[i] : i \in 1..Len(pruned)}
        BY <1>1, <3>2, RangeEquality
      <3>4. Range(Tail(pruned)) \subseteq Range(pruned)
        BY <1>1, <3>2, <3>3
      <3>5. Len(Tail(pruned)) \in Nat
        BY <3>2, LenProperties
      <3>. QED
        BY <1>1, <2>1, <3>2, <3>4, <3>5
    <2>2. CASE ~full
      BY <1>1, <1>2, <1>3, <2>2, AnswerAssumption
    <2>. QED
      BY <2>1, <2>2
  <1> HIDE DEF rest
  <1>. QED
    BY <1>1, <1>4, <1>5, AppendRange

LEMMA InitHolds == Init => AnswerInv
  <1> SUFFICES ASSUME Init PROVE AnswerInv
    OBVIOUS
  <1>1. NoSearch \in Searches
    BY AnswerAssumption DEF NoSearch
  <1>2. <<>> \in Seq(Requests) /\ Len(<<>>) = 0 /\ Range(<<>>) = {}
    BY EmptySeq DEF Range
  <1>3. TypeOK
    <2>1. /\ pc \in [Requests -> Steps] /\ req \in [Requests -> Searches]
          /\ cites \in [Requests -> SUBSET Passages]
          /\ answer \in [Requests -> Requests \cup {None}]
          /\ outcome \in [Requests -> Requests \cup {None}]
          /\ joined \in [Requests -> Requests \cup {None}]
      BY <1>1 DEF Init, Steps
    <2>2. /\ clock \in 0..MaxClock /\ created \in [Requests -> 0..MaxClock]
          /\ permits \in 0..GeneratorConcurrency
      BY AnswerAssumption DEF Init
    <2>3. entries \in Seq(Requests) /\ Len(entries) <= Capacity
      BY <1>2, AnswerAssumption DEF Init
    <2>. QED
      BY <2>1, <2>2, <2>3 DEF Init, TypeOK
  <1>4. PermitsExact
    <2>1. {r \in Requests : pc[r] \in Holding} = {}
      BY DEF Init, Holding
    <2>. QED
      BY <2>1, FS_EmptySet DEF Init, PermitsExact
  <1>5. SingleFlight
    BY DEF Init, SingleFlight, Owners
  <1>. QED
    BY <1>2, <1>3, <1>4, <1>5
       DEF Init, AnswerInv, GenerationsExact, KeyedInv, ReadyInv, JoinedInv, GeneratedInv

(* Permits stay exact while nobody takes or gives one. *)
LEMMA PermitsKept ==
    ASSUME PermitsExact, permits' = permits,
           \A q \in Requests : pc'[q] \in Holding <=> pc[q] \in Holding
    PROVE  PermitsExact'
  <1>1. {q \in Requests : pc'[q] \in Holding} = {q \in Requests : pc[q] \in Holding}
    OBVIOUS
  <1>. QED
    BY <1>1 DEF PermitsExact

(* A request that generates with the cache finds its own call, and only that. *)
LEMMA OwnCall ==
    ASSUME AnswerInv, NEW r \in Requests, pc[r] \in Owners
    PROVE  /\ req[r].cacheable \in BOOLEAN
           /\ req[r].cacheable => CallsFor(r) = {r}
           /\ ~req[r].cacheable => r \notin calls
  <1>1. req[r].cacheable \in BOOLEAN
    BY AnswerAssumption DEF AnswerInv, GenerationsExact, TypeOK
  <1>2. req[r].cacheable => CallsFor(r) = {r}
    BY DEF AnswerInv, GenerationsExact, SingleFlight, CallsFor
  <1>3. ~req[r].cacheable => r \notin calls
    BY DEF AnswerInv, KeyedInv
  <1>. QED
    BY <1>1, <1>2, <1>3

(* complete closes that call and no other, once. *)
LEMMA CompleteEffect ==
    ASSUME AnswerInv, NEW r \in Requests, pc[r] \in {"generating", "answered"}, NEW g,
           complete(r, g)
    PROVE  /\ outcome' = IF req[r].cacheable THEN [outcome EXCEPT ![r] = g] ELSE outcome
           /\ ready' = IF req[r].cacheable THEN ready \cup {r} ELSE ready
           /\ panicked' = panicked
  <1>1. r \notin ready /\ panicked = FALSE
    BY DEF AnswerInv, ReadyInv, GenerationsExact, SingleFlight, TypeOK
  <1>2. CASE req[r].cacheable
    <2>1. CallsFor(r) = {r}
      BY <1>2, OwnCall DEF Owners
    <2>2. (CHOOSE x \in CallsFor(r) : TRUE) = r
      BY <2>1
    <2>. QED
      BY <1>1, <1>2, <2>1, <2>2 DEF complete
  <1>3. CASE ~req[r].cacheable
    BY <1>3 DEF complete
  <1>. QED
    BY <1>2, <1>3

-----------------------------------------------------------------------------
(* Every step keeps the invariant *)

LEMMA TickHolds ==
    ASSUME AnswerInv, Tick
    PROVE  AnswerInv'
  BY AnswerAssumption
     DEF AnswerInv, GenerationsExact, TypeOK, SingleFlight, PermitsExact, KeyedInv,
         ReadyInv, JoinedInv, GeneratedInv, Generated, validateSegments, Tick, cache,
         inflight, key, flightKey

LEMMA RetrieveHolds ==
    ASSUME AnswerInv, NEW r \in Requests, NEW s \in Searches, Retrieve(r, s)
    PROVE  AnswerInv'
  <1>0. /\ pc[r] = "new" /\ r \notin calls
        /\ \A q \in Requests : q # r => pc'[q] = pc[q] /\ req'[q] = req[q]
        /\ req'[r] = s /\ pc'[r] = IF s.cacheable THEN "retrieved" ELSE "claiming"
        /\ calls' = calls /\ ready' = ready /\ joined' = joined /\ panicked' = panicked
        /\ calls \subseteq Requests /\ ready \subseteq Requests
    BY DEF Retrieve, Goto, inflight, AnswerInv, GenerationsExact, TypeOK, SingleFlight,
           Owners
  <1>1. TypeOK'
    BY AnswerAssumption
       DEF AnswerInv, GenerationsExact, TypeOK, Steps, Retrieve, Goto, cache, inflight
  <1>2. SingleFlight'
    <2>1. ~panicked'
      BY <1>0 DEF AnswerInv, GenerationsExact, SingleFlight
    <2>2. \A q \in Requests : pc'[q] \in Owners /\ req'[q].cacheable => q \in calls'
      BY <1>0, AnswerAssumption DEF AnswerInv, GenerationsExact, SingleFlight, Owners
    <2>3. \A c \in calls : flightKey(c)' = flightKey(c) /\ pc'[c] = pc[c]
      BY <1>0 DEF flightKey, key
    <2>. QED
      BY <1>0, <2>1, <2>2, <2>3 DEF AnswerInv, GenerationsExact, SingleFlight
  <1>3. PermitsExact'
    <2>1. permits' = permits /\ \A q \in Requests : pc'[q] \in Holding <=> pc[q] \in Holding
      BY AnswerAssumption
         DEF AnswerInv, GenerationsExact, TypeOK, Holding, Retrieve, Goto, cache, inflight
    <2>. QED
      BY <2>1, PermitsKept DEF AnswerInv, GenerationsExact
  <1>4. KeyedInv' /\ ReadyInv' /\ JoinedInv'
    <2>1. KeyedInv' /\ ReadyInv'
      BY <1>0 DEF AnswerInv, KeyedInv, ReadyInv
    <2>2. ASSUME NEW q \in Requests, pc'[q] = "waiting"
          PROVE  /\ joined'[q] \in Requests /\ pc'[joined'[q]] # "new"
                 /\ flightKey(joined[q])' = flightKey(q)'
      <3>1. q # r /\ pc[q] = "waiting"
        BY <1>0, <2>2
      <3>2. /\ joined[q] \in Requests /\ pc[joined[q]] # "new"
            /\ flightKey(joined[q]) = flightKey(q)
        BY <3>1 DEF AnswerInv, JoinedInv
      <3>3. joined[q] # r /\ joined'[q] = joined[q]
        BY <1>0, <3>2
      <3>. QED
        BY <1>0, <3>1, <3>2, <3>3 DEF flightKey, key
    <2>. QED
      BY <2>1, <2>2 DEF JoinedInv
  <1>5. GeneratedInv'
    BY AnswerAssumption
       DEF AnswerInv, GenerationsExact, TypeOK, GeneratedInv, Generated, Late,
           validateSegments, key,
           Retrieve, Goto, cache, inflight
  <1>. QED
    BY <1>1, <1>2, <1>3, <1>4, <1>5 DEF AnswerInv, GenerationsExact

LEMMA NoEvidenceHolds ==
    ASSUME AnswerInv, NEW r \in Requests, NoEvidence(r)
    PROVE  AnswerInv'
  <1>1. TypeOK'
    BY AnswerAssumption
       DEF AnswerInv, GenerationsExact, TypeOK, Steps, NoEvidence, Goto, cache, inflight
  <1>2. SingleFlight'
    BY DEF AnswerInv, GenerationsExact, TypeOK, SingleFlight, Owners, key, flightKey,
           KeyedInv, ReadyInv,
           NoEvidence, Goto, cache, inflight
  <1>3. PermitsExact'
    <2>1. permits' = permits /\ \A q \in Requests : pc'[q] \in Holding <=> pc[q] \in Holding
      BY DEF AnswerInv, GenerationsExact, TypeOK, Holding, NoEvidence, Goto, cache, inflight
    <2>. QED
      BY <2>1, PermitsKept DEF AnswerInv, GenerationsExact
  <1>4. KeyedInv' /\ ReadyInv' /\ JoinedInv'
    BY DEF AnswerInv, GenerationsExact, TypeOK, SingleFlight, Owners, KeyedInv, ReadyInv,
           JoinedInv,
           key, flightKey, NoEvidence, Goto, cache, inflight
  <1>5. GeneratedInv'
    BY DEF AnswerInv, GenerationsExact, TypeOK, GeneratedInv, Generated, Late,
           validateSegments, key,
           NoEvidence, Goto, cache, inflight
  <1>. QED
    BY <1>1, <1>2, <1>3, <1>4, <1>5 DEF AnswerInv, GenerationsExact

LEMMA CancelHolds ==
    ASSUME AnswerInv, NEW r \in Requests, Cancel(r)
    PROVE  AnswerInv'
  <1>1. TypeOK'
    BY AnswerAssumption
       DEF AnswerInv, GenerationsExact, TypeOK, Steps, Cancel, Goto, cache, inflight
  <1>2. SingleFlight'
    BY DEF AnswerInv, GenerationsExact, TypeOK, SingleFlight, Owners, key, flightKey,
           KeyedInv, ReadyInv,
           Cancel, Goto, cache, inflight
  <1>3. PermitsExact'
    <2>1. permits' = permits /\ \A q \in Requests : pc'[q] \in Holding <=> pc[q] \in Holding
      BY DEF AnswerInv, GenerationsExact, TypeOK, Holding, Cancel, Goto, cache, inflight
    <2>. QED
      BY <2>1, PermitsKept DEF AnswerInv, GenerationsExact
  <1>4. KeyedInv' /\ ReadyInv' /\ JoinedInv'
    BY DEF AnswerInv, GenerationsExact, TypeOK, SingleFlight, Owners, KeyedInv, ReadyInv,
           JoinedInv,
           key, flightKey, Cancel, Goto, cache, inflight
  <1>5. GeneratedInv'
    BY DEF AnswerInv, GenerationsExact, TypeOK, GeneratedInv, Generated, Late,
           validateSegments, key,
           Cancel, Goto, cache, inflight
  <1>. QED
    BY <1>1, <1>2, <1>3, <1>4, <1>5 DEF AnswerInv, GenerationsExact

LEMMA CapacityExhaustedHolds ==
    ASSUME AnswerInv, NEW r \in Requests, CapacityExhausted(r)
    PROVE  AnswerInv'
  <1>1. TypeOK'
    BY AnswerAssumption
       DEF AnswerInv, GenerationsExact, TypeOK, Steps, CapacityExhausted, Goto, cache,
           inflight
  <1>2. SingleFlight'
    BY DEF AnswerInv, GenerationsExact, TypeOK, SingleFlight, Owners, key, flightKey,
           KeyedInv, ReadyInv,
           CapacityExhausted, Goto, cache, inflight
  <1>3. PermitsExact'
    <2>1. permits' = permits /\ \A q \in Requests : pc'[q] \in Holding <=> pc[q] \in Holding
      BY DEF AnswerInv, GenerationsExact, TypeOK, Holding, CapacityExhausted, Goto, cache,
             inflight
    <2>. QED
      BY <2>1, PermitsKept DEF AnswerInv, GenerationsExact
  <1>4. KeyedInv' /\ ReadyInv' /\ JoinedInv'
    BY DEF AnswerInv, GenerationsExact, TypeOK, SingleFlight, Owners, KeyedInv, ReadyInv,
           JoinedInv,
           key, flightKey, CapacityExhausted, Goto, cache, inflight
  <1>5. GeneratedInv'
    BY DEF AnswerInv, GenerationsExact, TypeOK, GeneratedInv, Generated, Late,
           validateSegments, key,
           CapacityExhausted, Goto, cache, inflight
  <1>. QED
    BY <1>1, <1>2, <1>3, <1>4, <1>5 DEF AnswerInv, GenerationsExact

LEMMA AcquirePermitHolds ==
    ASSUME AnswerInv, NEW r \in Requests, AcquirePermit(r)
    PROVE  AnswerInv'
  <1>1. TypeOK'
    BY AnswerAssumption
       DEF AnswerInv, GenerationsExact, TypeOK, Steps, AcquirePermit, Goto, cache, inflight
  <1>2. SingleFlight'
    BY DEF AnswerInv, GenerationsExact, TypeOK, SingleFlight, Owners, key, flightKey,
           KeyedInv, ReadyInv,
           AcquirePermit, Goto, cache, inflight
  <1>3. PermitsExact'
    <2> DEFINE H == {q \in Requests : pc[q] \in Holding}
    <2>1. {q \in Requests : pc'[q] \in Holding} = H \cup {r} /\ r \notin H
      BY DEF AnswerInv, GenerationsExact, TypeOK, AcquirePermit, Goto, Holding
    <2>2. IsFiniteSet(H)
      BY FS_Subset, AnswerAssumption
    <2>3. Cardinality(H \cup {r}) = Cardinality(H) + 1
      BY <2>1, <2>2, FS_AddElement
    <2>. QED
      BY <2>1, <2>3 DEF AnswerInv, GenerationsExact, PermitsExact, AcquirePermit
  <1>4. KeyedInv' /\ ReadyInv' /\ JoinedInv'
    BY DEF AnswerInv, GenerationsExact, TypeOK, SingleFlight, Owners, KeyedInv, ReadyInv,
           JoinedInv,
           key, flightKey, AcquirePermit, Goto, cache, inflight
  <1>5. GeneratedInv'
    BY DEF AnswerInv, GenerationsExact, TypeOK, GeneratedInv, Generated, Late,
           validateSegments, key,
           AcquirePermit, Goto, cache, inflight
  <1>. QED
    BY <1>1, <1>2, <1>3, <1>4, <1>5 DEF AnswerInv, GenerationsExact

LEMMA ReleasePermitHolds ==
    ASSUME AnswerInv, NEW r \in Requests, ReleasePermit(r)
    PROVE  AnswerInv'
  <1> DEFINE H == {q \in Requests : pc[q] \in Holding}
  <1>0. Cardinality(H \ {r}) = Cardinality(H) - 1 /\ Cardinality(H \ {r}) \in Nat
    <2>1. r \in H
      BY DEF ReleasePermit, Holding
    <2>2. IsFiniteSet(H) /\ IsFiniteSet(H \ {r})
      BY FS_Subset, AnswerAssumption
    <2>. QED
      BY <2>1, <2>2, FS_RemoveElement, FS_CardinalityType
  <1>1. TypeOK'
    <2>1. permits = Cardinality(H) /\ permits' = permits - 1
      BY DEF AnswerInv, GenerationsExact, PermitsExact, ReleasePermit
    <2>2. permits' \in 0..GeneratorConcurrency
      BY <1>0, <2>1, AnswerAssumption DEF AnswerInv, GenerationsExact, TypeOK
    <2>. QED
      BY <2>2
         DEF AnswerInv, GenerationsExact, TypeOK, Steps, ReleasePermit, Goto, cache,
             inflight
  <1>2. SingleFlight'
    BY DEF AnswerInv, GenerationsExact, TypeOK, SingleFlight, Owners, key, flightKey,
           KeyedInv, ReadyInv,
           ReleasePermit, Goto, cache, inflight
  <1>3. PermitsExact'
    <2>1. {q \in Requests : pc'[q] \in Holding} = H \ {r}
      BY DEF AnswerInv, GenerationsExact, TypeOK, ReleasePermit, Goto, Holding
    <2>. QED
      BY <1>0, <2>1 DEF AnswerInv, GenerationsExact, PermitsExact, ReleasePermit
  <1>4. KeyedInv' /\ ReadyInv' /\ JoinedInv'
    BY DEF AnswerInv, GenerationsExact, TypeOK, SingleFlight, Owners, KeyedInv, ReadyInv,
           JoinedInv,
           key, flightKey, ReleasePermit, Goto, cache, inflight
  <1>5. GeneratedInv'
    BY DEF AnswerInv, GenerationsExact, TypeOK, GeneratedInv, Generated, Late,
           validateSegments, key,
           ReleasePermit, Goto, cache, inflight
  <1>. QED
    BY <1>1, <1>2, <1>3, <1>4, <1>5 DEF AnswerInv, GenerationsExact

LEMMA LookupHolds ==
    ASSUME AnswerInv, NEW r \in Requests, lookup(r)
    PROVE  AnswerInv'
  <1>0. /\ entries' \in Seq(Requests) /\ Len(entries') <= Capacity
        /\ Range(entries') \subseteq Range(entries)
        /\ Hits(r) # {} => First(Hits(r)) \in Hits(r)
    BY LookupEntries DEF AnswerInv, GenerationsExact
  <1> DEFINE g == First(Hits(r))
  <1>a. /\ pc[r] = "retrieved"
        /\ \/ answer' = answer /\ Goto(r, "missed")
           \/ /\ answer' = [answer EXCEPT ![r] = g] /\ Goto(r, "done")
              /\ g \in Hits(r)
        /\ UNCHANGED <<req, cites, clock, created, calls, ready, outcome, joined, permits, panicked>>
    BY <1>0 DEF lookup, inflight
  <1>b. Hits(r) \subseteq Requests \cap Range(entries) /\ \A h \in Hits(r) : key(h) = key(r)
    BY PrunedProperties DEF AnswerInv, GenerationsExact, Hits
  <1> HIDE DEF g
  <1>m. CASE answer' = answer /\ Goto(r, "missed")
    <2>1. TypeOK'
      BY <1>0, <1>a, <1>b, <1>m, AnswerAssumption
         DEF AnswerInv, GenerationsExact, TypeOK, Steps, Goto
    <2>2. SingleFlight'
      BY <1>0, <1>a, <1>b, <1>m
         DEF AnswerInv, GenerationsExact, TypeOK, SingleFlight, Owners, key, flightKey,
             KeyedInv, ReadyInv,
             Goto
    <2>3. PermitsExact'
      <3>1. permits' = permits /\ \A q \in Requests : pc'[q] \in Holding <=> pc[q] \in Holding
        BY <1>0, <1>a, <1>b, <1>m DEF AnswerInv, GenerationsExact, TypeOK, Holding, Goto
      <3>. QED
        BY <3>1, PermitsKept DEF AnswerInv, GenerationsExact
    <2>4. KeyedInv' /\ ReadyInv' /\ JoinedInv'
      BY <1>0, <1>a, <1>b, <1>m
         DEF AnswerInv, GenerationsExact, TypeOK, SingleFlight, Owners, KeyedInv, ReadyInv,
             JoinedInv,
             key, flightKey, Goto
    <2>5. GeneratedInv'
      BY <1>0, <1>a, <1>b, <1>m
         DEF AnswerInv, GenerationsExact, TypeOK, GeneratedInv, Generated, Late,
             validateSegments, key,
             Goto
    <2>. QED
      BY <2>1, <2>2, <2>3, <2>4, <2>5 DEF AnswerInv, GenerationsExact
  <1>h. CASE /\ answer' = [answer EXCEPT ![r] = g] /\ Goto(r, "done")
            /\ g \in Hits(r)
    <2>1. TypeOK'
      BY <1>0, <1>a, <1>b, <1>h, AnswerAssumption
         DEF AnswerInv, GenerationsExact, TypeOK, Steps, Goto
    <2>2. SingleFlight'
      BY <1>0, <1>a, <1>b, <1>h
         DEF AnswerInv, GenerationsExact, TypeOK, SingleFlight, Owners, key, flightKey,
             KeyedInv, ReadyInv,
             Goto
    <2>3. PermitsExact'
      <3>1. permits' = permits /\ \A q \in Requests : pc'[q] \in Holding <=> pc[q] \in Holding
        BY <1>0, <1>a, <1>b, <1>h DEF AnswerInv, GenerationsExact, TypeOK, Holding, Goto
      <3>. QED
        BY <3>1, PermitsKept DEF AnswerInv, GenerationsExact
    <2>4. KeyedInv' /\ ReadyInv' /\ JoinedInv'
      BY <1>0, <1>a, <1>b, <1>h
         DEF AnswerInv, GenerationsExact, TypeOK, SingleFlight, Owners, KeyedInv, ReadyInv,
             JoinedInv,
             key, flightKey, Goto
    <2>5. GeneratedInv'
      BY <1>0, <1>a, <1>b, <1>h
         DEF AnswerInv, GenerationsExact, TypeOK, GeneratedInv, Generated, Late,
             validateSegments, key,
             Goto
    <2>. QED
      BY <2>1, <2>2, <2>3, <2>4, <2>5 DEF AnswerInv, GenerationsExact
  <1>. QED
    BY <1>0, <1>a, <1>b, <1>m, <1>h

LEMMA WaitHolds ==
    ASSUME AnswerInv, NEW r \in Requests, wait(r)
    PROVE  AnswerInv'
  <1>0. \/ /\ joined' = [joined EXCEPT ![r] = CHOOSE c \in CallsFor(r) : TRUE]
           /\ Goto(r, "waiting") /\ UNCHANGED calls
           /\ (CHOOSE c \in CallsFor(r) : TRUE) \in CallsFor(r)
        \/ calls' = calls \cup {r} /\ CallsFor(r) = {} /\ Goto(r, "claiming") /\ UNCHANGED joined
    BY DEF wait
  <1> DEFINE c == CHOOSE d \in CallsFor(r) : TRUE
  <1>a. \/ /\ joined' = [joined EXCEPT ![r] = c]
           /\ Goto(r, "waiting") /\ UNCHANGED calls
           /\ c \in calls /\ c \in Requests /\ flightKey(c) = flightKey(r)
        \/ /\ calls' = calls \cup {r} /\ \A d \in calls : flightKey(d) # flightKey(r)
           /\ Goto(r, "claiming") /\ UNCHANGED joined
    BY <1>0 DEF CallsFor, AnswerInv, GenerationsExact, TypeOK
  <1>b. /\ pc[r] = "missed"
        /\ UNCHANGED <<req, cites, answer, clock, entries, created, ready, outcome, permits, panicked>>
    BY DEF wait, cache
  <1> HIDE DEF c
  <1>j. CASE /\ joined' = [joined EXCEPT ![r] = c]
            /\ Goto(r, "waiting") /\ UNCHANGED calls
            /\ c \in calls /\ c \in Requests /\ flightKey(c) = flightKey(r)
    <2>1. TypeOK'
      BY <1>a, <1>b, <1>j, AnswerAssumption
         DEF AnswerInv, GenerationsExact, TypeOK, Steps, Goto
    <2>2. SingleFlight'
      BY <1>a, <1>b, <1>j
         DEF AnswerInv, GenerationsExact, TypeOK, SingleFlight, Owners, key, flightKey,
             KeyedInv, ReadyInv,
             Goto
    <2>3. PermitsExact'
      <3>1. permits' = permits /\ \A q \in Requests : pc'[q] \in Holding <=> pc[q] \in Holding
        BY <1>a, <1>b, <1>j DEF AnswerInv, GenerationsExact, TypeOK, Holding, Goto
      <3>. QED
        BY <3>1, PermitsKept DEF AnswerInv, GenerationsExact
    <2>4. KeyedInv' /\ ReadyInv' /\ JoinedInv'
      <3>1. KeyedInv'
        BY <1>a, <1>b, <1>j DEF AnswerInv, GenerationsExact, TypeOK, KeyedInv, key, Goto
      <3>2. ReadyInv'
        BY <1>a, <1>b, <1>j DEF AnswerInv, GenerationsExact, TypeOK, SingleFlight, Owners, ReadyInv, Goto
      <3>3. pc[c] # "new"
        BY <1>j DEF AnswerInv, GenerationsExact, SingleFlight, Owners
      <3>4. JoinedInv'
        BY <1>a, <1>b, <1>j, <3>3 DEF AnswerInv, GenerationsExact, TypeOK, JoinedInv, flightKey, key, Goto
      <3> QED
        BY <3>1, <3>2, <3>4
    <2>5. GeneratedInv'
      BY <1>a, <1>b, <1>j
         DEF AnswerInv, GenerationsExact, TypeOK, GeneratedInv, Generated, Late,
             validateSegments, key,
             Goto
    <2>. QED
      BY <2>1, <2>2, <2>3, <2>4, <2>5 DEF AnswerInv, GenerationsExact
  <1>l. CASE /\ calls' = calls \cup {r} /\ \A d \in calls : flightKey(d) # flightKey(r)
            /\ Goto(r, "claiming") /\ UNCHANGED joined
    <2>1. TypeOK'
      BY <1>a, <1>b, <1>l, AnswerAssumption
         DEF AnswerInv, GenerationsExact, TypeOK, Steps, Goto
    <2>2. SingleFlight'
      <3>1. \A c1 \in Requests : flightKey(c1)' = flightKey(c1)
        BY <1>b DEF flightKey, key
      <3>2. \A q \in Requests : pc'[q] = IF q = r THEN "claiming" ELSE pc[q]
        BY <1>l DEF Goto, AnswerInv, GenerationsExact, TypeOK
      <3>3. calls \subseteq Requests /\ r \in calls'
        BY <1>l DEF AnswerInv, GenerationsExact, TypeOK
      <3>. QED
        BY <1>b, <1>l, <3>1, <3>2, <3>3
           DEF AnswerInv, GenerationsExact, SingleFlight, Owners
    <2>3. PermitsExact'
      <3>1. permits' = permits /\ \A q \in Requests : pc'[q] \in Holding <=> pc[q] \in Holding
        BY <1>a, <1>b, <1>l DEF AnswerInv, GenerationsExact, TypeOK, Holding, Goto
      <3>. QED
        BY <3>1, PermitsKept DEF AnswerInv, GenerationsExact
    <2>4. KeyedInv' /\ ReadyInv' /\ JoinedInv'
      BY <1>a, <1>b, <1>l
         DEF AnswerInv, GenerationsExact, TypeOK, SingleFlight, Owners, KeyedInv, ReadyInv,
             JoinedInv,
             key, flightKey, Goto
    <2>5. GeneratedInv'
      BY <1>a, <1>b, <1>l
         DEF AnswerInv, GenerationsExact, TypeOK, GeneratedInv, Generated, Late,
             validateSegments, key,
             Goto
    <2>. QED
      BY <2>1, <2>2, <2>3, <2>4, <2>5 DEF AnswerInv, GenerationsExact
  <1>. QED
    BY <1>a, <1>b, <1>j, <1>l

LEMMA FollowHolds ==
    ASSUME AnswerInv, NEW r \in Requests, Follow(r)
    PROVE  AnswerInv'
  <1> DEFINE g == outcome[joined[r]]
  <1>0. pc[r] = "waiting" /\ joined[r] \in Requests /\ flightKey(joined[r]) = flightKey(r)
    BY DEF Follow, AnswerInv, JoinedInv
  <1>a. ASSUME g # None
        PROVE  g \in Requests /\ Generated(g) /\ key(g) = key(r) /\ validateSegments(g, r)
    <2>1. g = joined[r] /\ Generated(g)
      BY <1>0, <1>a DEF AnswerInv, GeneratedInv
    <2>2. key(g) = key(r)
      BY <1>0, <2>1 DEF flightKey
    <2>3. req[g].context = req[r].context
      BY <2>2 DEF key
    <2>. QED
      BY <1>0, <2>1, <2>2, <2>3 DEF Generated, validateSegments
  <1>b. /\ \/ g # None /\ answer' = [answer EXCEPT ![r] = g]
           \/ g = None /\ answer' = answer
        /\ Goto(r, "done")
        /\ UNCHANGED <<req, cites, clock, entries, created, calls, ready, outcome, joined, permits, panicked>>
    BY <1>a DEF Follow, cache, inflight
  <1> HIDE DEF g
  <1>1. TypeOK'
    <2>1. TypeOK
      BY DEF AnswerInv, GenerationsExact
    <2>2. answer' \in [Requests -> Requests \cup {None}]
      BY <1>a, <1>b, <2>1 DEF TypeOK
    <2>3. pc' \in [Requests -> Steps]
      BY <1>b, <2>1 DEF TypeOK, Steps, Goto
    <2>. QED
      BY <1>b, <2>1, <2>2, <2>3 DEF TypeOK
  <1>2. SingleFlight'
    BY <1>0, <1>a, <1>b
       DEF AnswerInv, GenerationsExact, TypeOK, SingleFlight, Owners, key, flightKey,
           KeyedInv, ReadyInv,
           Goto
  <1>3. PermitsExact'
    <2>1. permits' = permits /\ \A q \in Requests : pc'[q] \in Holding <=> pc[q] \in Holding
      BY <1>0, <1>a, <1>b DEF AnswerInv, GenerationsExact, TypeOK, Holding, Goto
    <2>. QED
      BY <2>1, PermitsKept DEF AnswerInv, GenerationsExact
  <1>4. KeyedInv' /\ ReadyInv' /\ JoinedInv'
    BY <1>0, <1>a, <1>b
       DEF AnswerInv, GenerationsExact, TypeOK, SingleFlight, Owners, KeyedInv, ReadyInv,
           JoinedInv,
           key, flightKey, Goto
  <1>5. GeneratedInv'
    BY <1>0, <1>a, <1>b
       DEF AnswerInv, GenerationsExact, TypeOK, GeneratedInv, Generated, Late,
           validateSegments, key,
           Goto
  <1>. QED
    BY <1>1, <1>2, <1>3, <1>4, <1>5 DEF AnswerInv, GenerationsExact

LEMMA GenerateAnswerHolds ==
    ASSUME AnswerInv, NEW r \in Requests, NEW cited \in SUBSET Passages, GenerateAnswer(r,
    cited)
    PROVE  AnswerInv'
  <1>0. /\ entries' \in Seq(Requests) /\ Len(entries') <= Capacity
        /\ Range(entries') \subseteq Range(entries) \cup {r}
    BY StoredEntries DEF AnswerInv, GenerationsExact, TypeOK, GenerateAnswer, cache
  <1>1. TypeOK'
    <2>1. cites' \in [Requests -> SUBSET Passages] /\ created' \in [Requests -> 0..MaxClock]
      BY DEF AnswerInv, GenerationsExact, TypeOK, GenerateAnswer, cache
    <2>2. pc' \in [Requests -> Steps] /\ answer' \in [Requests -> Requests \cup {None}]
      BY DEF AnswerInv, GenerationsExact, TypeOK, GenerateAnswer, Goto, Steps
    <2>. QED
      BY <1>0, <2>1, <2>2 DEF AnswerInv, GenerationsExact, TypeOK, GenerateAnswer, inflight
  <1>2. SingleFlight'
    BY <1>0
       DEF AnswerInv, GenerationsExact, TypeOK, SingleFlight, Owners, key, flightKey,
           KeyedInv, ReadyInv,
           GenerateAnswer, Goto, cache, inflight
  <1>3. PermitsExact'
    <2>1. permits' = permits /\ \A q \in Requests : pc'[q] \in Holding <=> pc[q] \in Holding
      BY <1>0
         DEF AnswerInv, GenerationsExact, TypeOK, Holding, GenerateAnswer, Goto, cache,
             inflight
    <2>. QED
      BY <2>1, PermitsKept DEF AnswerInv, GenerationsExact
  <1>4. KeyedInv' /\ ReadyInv' /\ JoinedInv'
    BY <1>0
       DEF AnswerInv, GenerationsExact, TypeOK, SingleFlight, Owners, KeyedInv, ReadyInv,
           JoinedInv,
           key, flightKey, GenerateAnswer, Goto, cache, inflight
  <1>5. GeneratedInv'
    BY <1>0
       DEF AnswerInv, GenerationsExact, TypeOK, GeneratedInv, Generated, Late,
           validateSegments, key,
           GenerateAnswer, Goto, cache, inflight
  <1>. QED
    BY <1>1, <1>2, <1>3, <1>4, <1>5 DEF AnswerInv, GenerationsExact

LEMMA GenerateFailsHolds ==
    ASSUME AnswerInv, NEW r \in Requests, GenerateFails(r)
    PROVE  AnswerInv'
  <1>0. /\ outcome' = IF req[r].cacheable THEN [outcome EXCEPT ![r] = None] ELSE outcome
        /\ ready' = IF req[r].cacheable THEN ready \cup {r} ELSE ready
        /\ panicked' = panicked
    BY CompleteEffect DEF GenerateFails
  <1>1. TypeOK'
    BY <1>0, AnswerAssumption
       DEF AnswerInv, GenerationsExact, TypeOK, Steps, GenerateFails, Goto, cache, inflight
  <1>2. SingleFlight'
    BY <1>0
       DEF AnswerInv, GenerationsExact, TypeOK, SingleFlight, Owners, key, flightKey,
           KeyedInv, ReadyInv,
           GenerateFails, Goto, cache, inflight
  <1>3. PermitsExact'
    <2>1. permits' = permits /\ \A q \in Requests : pc'[q] \in Holding <=> pc[q] \in Holding
      BY <1>0
         DEF AnswerInv, GenerationsExact, TypeOK, Holding, GenerateFails, Goto, cache,
             inflight
    <2>. QED
      BY <2>1, PermitsKept DEF AnswerInv, GenerationsExact
  <1>4. KeyedInv' /\ ReadyInv' /\ JoinedInv'
    BY <1>0
       DEF AnswerInv, GenerationsExact, TypeOK, SingleFlight, Owners, KeyedInv, ReadyInv,
           JoinedInv,
           key, flightKey, GenerateFails, Goto, cache, inflight
  <1>5. GeneratedInv'
    BY <1>0
       DEF AnswerInv, GenerationsExact, TypeOK, GeneratedInv, Generated, Late,
           validateSegments, key,
           GenerateFails, Goto, cache, inflight
  <1>. QED
    BY <1>1, <1>2, <1>3, <1>4, <1>5 DEF AnswerInv, GenerationsExact

LEMMA CompleteAnsweredHolds ==
    ASSUME AnswerInv, NEW r \in Requests, CompleteAnswered(r)
    PROVE  AnswerInv'
  <1>0. /\ outcome' = IF req[r].cacheable THEN [outcome EXCEPT ![r] = r] ELSE outcome
        /\ ready' = IF req[r].cacheable THEN ready \cup {r} ELSE ready
        /\ panicked' = panicked
    BY CompleteEffect DEF CompleteAnswered
  <1>1. TypeOK'
    BY <1>0, AnswerAssumption
       DEF AnswerInv, GenerationsExact, TypeOK, Steps, CompleteAnswered, Goto, cache,
           inflight
  <1>2. SingleFlight'
    BY <1>0
       DEF AnswerInv, GenerationsExact, TypeOK, SingleFlight, Owners, key, flightKey,
           KeyedInv, ReadyInv,
           CompleteAnswered, Goto, cache, inflight
  <1>3. PermitsExact'
    <2>1. permits' = permits /\ \A q \in Requests : pc'[q] \in Holding <=> pc[q] \in Holding
      BY <1>0
         DEF AnswerInv, GenerationsExact, TypeOK, Holding, CompleteAnswered, Goto, cache,
             inflight
    <2>. QED
      BY <2>1, PermitsKept DEF AnswerInv, GenerationsExact
  <1>4. KeyedInv' /\ ReadyInv' /\ JoinedInv'
    BY <1>0
       DEF AnswerInv, GenerationsExact, TypeOK, SingleFlight, Owners, KeyedInv, ReadyInv,
           JoinedInv,
           key, flightKey, CompleteAnswered, Goto, cache, inflight
  <1>5. GeneratedInv'
    BY <1>0
       DEF AnswerInv, GenerationsExact, TypeOK, GeneratedInv, Generated, Late,
           validateSegments, key,
           CompleteAnswered, Goto, cache, inflight
  <1>. QED
    BY <1>1, <1>2, <1>3, <1>4, <1>5 DEF AnswerInv, GenerationsExact

LEMMA DoneHolds ==
    ASSUME AnswerInv, NEW r \in Requests, done(r)
    PROVE  AnswerInv'
  <1>0. /\ calls' = calls \ {r}
        /\ ready' = IF req[r].cacheable THEN ready \cup {r} ELSE ready
    <2>1. pc[r] \in Owners
      BY DEF done, Owners
    <2>. QED
      BY <2>1, OwnCall DEF done
  <1>1. TypeOK'
    BY <1>0, AnswerAssumption
       DEF AnswerInv, GenerationsExact, TypeOK, Steps, done, Goto, cache, inflight
  <1>2. SingleFlight'
    BY <1>0
       DEF AnswerInv, GenerationsExact, TypeOK, SingleFlight, Owners, key, flightKey,
           KeyedInv, ReadyInv,
           done, Goto, cache, inflight
  <1>3. PermitsExact'
    <2>1. permits' = permits /\ \A q \in Requests : pc'[q] \in Holding <=> pc[q] \in Holding
      BY <1>0 DEF AnswerInv, GenerationsExact, TypeOK, Holding, done, Goto, cache, inflight
    <2>. QED
      BY <2>1, PermitsKept DEF AnswerInv, GenerationsExact
  <1>4. KeyedInv' /\ ReadyInv' /\ JoinedInv'
    BY <1>0
       DEF AnswerInv, GenerationsExact, TypeOK, SingleFlight, Owners, KeyedInv, ReadyInv,
           JoinedInv,
           key, flightKey, done, Goto, cache, inflight
  <1>5. GeneratedInv'
    BY <1>0
       DEF AnswerInv, GenerationsExact, TypeOK, GeneratedInv, Generated, Late,
           validateSegments, key,
           done, Goto, cache, inflight
  <1>. QED
    BY <1>1, <1>2, <1>3, <1>4, <1>5 DEF AnswerInv, GenerationsExact

-----------------------------------------------------------------------------
(* The theorems *)

LEMMA NextHolds == AnswerInv /\ [Next]_vars => AnswerInv'
  <1> SUFFICES ASSUME AnswerInv, [Next]_vars PROVE AnswerInv'
    OBVIOUS
  <1>1. CASE Tick
    BY <1>1, TickHolds
  <1>2. ASSUME NEW r \in Requests, NEW s \in Searches, Retrieve(r, s) PROVE AnswerInv'
    BY <1>2, RetrieveHolds
  <1>3. ASSUME NEW r \in Requests, Cancel(r) \/ NoEvidence(r) PROVE AnswerInv'
    BY <1>3, CancelHolds, NoEvidenceHolds
  <1>4. ASSUME NEW r \in Requests, Proceed(r) PROVE AnswerInv'
    <2>1. CASE lookup(r) \/ wait(r) \/ Follow(r)
      BY <2>1, LookupHolds, WaitHolds, FollowHolds
    <2>2. CASE AcquirePermit(r) \/ CapacityExhausted(r) \/ ReleasePermit(r)
      BY <2>2, AcquirePermitHolds, CapacityExhaustedHolds, ReleasePermitHolds
    <2>3. ASSUME NEW cited \in SUBSET Passages, GenerateAnswer(r, cited) PROVE AnswerInv'
      BY <2>3, GenerateAnswerHolds
    <2>4. CASE GenerateFails(r) \/ CompleteAnswered(r) \/ done(r)
      BY <2>4, GenerateFailsHolds, CompleteAnsweredHolds, DoneHolds
    <2>. QED
      BY <1>4, <2>1, <2>2, <2>3, <2>4 DEF Proceed
  <1>5. CASE UNCHANGED vars
    BY <1>5
       DEF vars, AnswerInv, GenerationsExact, TypeOK, SingleFlight, PermitsExact, KeyedInv,
           ReadyInv, JoinedInv, GeneratedInv, Generated, validateSegments, key, flightKey
  <1>. QED
    BY <1>1, <1>2, <1>3, <1>4, <1>5 DEF Next

(* The strengthened invariant holds in every state. *)
THEOREM AnswerInvariant == Spec => []AnswerInv
  BY InitHolds, NextHolds, PTL DEF Spec

(***************************************************************************)
(* Equal requests generate once, every call has one owner who closes it    *)
(* once, no call outlives its owner, permits are neither lost nor returned *)
(* twice, and the cache keeps its capacity.                                *)
(***************************************************************************)
THEOREM GenerationsAreExact == Spec => []GenerationsExact
  <1>1. AnswerInv => GenerationsExact
    BY DEF AnswerInv
  <1>. QED
    BY <1>1, AnswerInvariant, PTL

(***************************************************************************)
(* No answer, from the cache, a coalesced call or a generation, cites what *)
(* the request's own search did not select.                                *)
(***************************************************************************)
THEOREM AnswersAreGrounded == Spec => []AnswersGrounded
  <1>1. ASSUME AnswerInv PROVE AnswersGrounded
    <2> SUFFICES ASSUME NEW r \in Requests, answer[r] # None
                 PROVE  /\ validateSegments(answer[r], r)
                        /\ req[answer[r]].scope = req[r].scope
                        /\ req[answer[r]].context = req[r].context
      BY DEF AnswersGrounded
    <2>1. Generated(answer[r]) /\ key(answer[r]) = key(r)
      BY <1>1 DEF AnswerInv, GeneratedInv
    <2>2. /\ req[answer[r]].scope = req[r].scope
          /\ req[answer[r]].context = req[r].context
      BY <2>1 DEF key
    <2>. QED
      BY <2>1, <2>2 DEF Generated, validateSegments
  <1>. QED
    BY <1>1, AnswerInvariant, PTL

(***************************************************************************)
(* The cache never serves an entry past its time to live, nor to a         *)
(* question with other guard tokens.                                       *)
(***************************************************************************)
THEOREM CacheServesFit == Spec => CacheHitsFit
  <1>1. ASSUME AnswerInv, Next, NEW r \in Requests, pc[r] = "retrieved",
               answer'[r] # answer[r]
        PROVE  ServedFits(r, answer'[r])
    <2>0. answer \in [Requests -> Requests \cup {None}] /\ TypeOK
      BY <1>1 DEF AnswerInv, GenerationsExact, TypeOK
    <2>1. lookup(r)
      <3>1. ASSUME NEW q \in Requests, Proceed(q) \/ Cancel(q) \/ NoEvidence(q)
            PROVE  lookup(r)
        <4>1. q = r \/ answer'[r] = answer[r]
          BY <2>0, <3>1
             DEF Proceed, Cancel, NoEvidence, lookup, wait, Follow, AcquirePermit,
             CapacityExhausted, GenerateAnswer, GenerateFails, CompleteAnswered,
             ReleasePermit, done
        <4>. QED
          BY <1>1, <3>1, <4>1 DEF Proceed, Cancel, NoEvidence, wait, Follow, AcquirePermit,
             CapacityExhausted, GenerateAnswer, GenerateFails, CompleteAnswered,
             ReleasePermit, done
      <3>2. Tick \/ (\E q \in Requests, s \in Searches : Retrieve(q, s)) => answer' = answer
        BY DEF Tick, Retrieve
      <3>. QED
        BY <1>1, <3>1, <3>2 DEF Next
    <2>2. Hits(r) # {} /\ answer'[r] = First(Hits(r))
      BY <1>1, <2>0, <2>1 DEF lookup
    <2>3. First(Hits(r)) \in Hits(r)
      BY <2>0, <2>1, <2>2, LookupEntries
    <2>4. /\ answer'[r] \in Range(pruned)
          /\ queriesMatch(req[r].question, req[answer'[r]].question)
      BY <2>2, <2>3 DEF Hits
    <2>5. Live(answer'[r])
      BY <2>0, <2>4, PrunedProperties
    <2>. QED
      BY <2>4, <2>5 DEF ServedFits, Live, queriesMatch
  <1>2. AnswerInv /\ [Next]_vars =>
            [\A r \in Requests :
                pc[r] = "retrieved" /\ answer'[r] # answer[r] => ServedFits(r,
                answer'[r])]_vars
    BY <1>1
  <1>. QED
    BY <1>2, AnswerInvariant, PTL DEF Spec, CacheHitsFit

-----------------------------------------------------------------------------
(***************************************************************************)
(* The limiter in front of a provider.  A grant needs a reservation whose  *)
(* time has come; no reservation in the queue lies before the time of the  *)
(* next grant, and that time and the time since the last grant add up to   *)
(* an interval, whatever the queue went through in between.                *)
(***************************************************************************)
CallerState ==
    [at : {"idle", "look", "sleep", "granted", "gaveUp"}, timer : Nat, closed : BOOLEAN,
     ended : BOOLEAN]

LimiterTypes ==
    /\ next \in Nat /\ idle \in Nat /\ waiters \in Seq(Callers)
    /\ target \in [Callers -> Nat] /\ waiting \in [Callers -> CallerState]

Queued(r, queue) == \E i \in 1..Len(queue) : queue[i] = r

WaitersQueued == \A r \in Callers : waiting[r].at \in {"look", "sleep"} => Queued(r, waiters)

ReservedLater == \A r \in Callers : Queued(r, waiters) => next =< target[r]

IntervalKept == idle =< Interval /\ Interval =< next + idle

LimiterInv == LimiterTypes /\ WaitersQueued /\ ReservedLater /\ IntervalKept

(* The place of a caller is a place where the queue names it. *)
LEMMA PlaceOf ==
    ASSUME NEW r, NEW queue \in Seq(Callers), Queued(r, queue)
    PROVE  Place(r, queue) \in 1..Len(queue) /\ queue[Place(r, queue)] = r
  <1>1. \E i \in DOMAIN queue : queue[i] = r
    BY DEF Queued
  <1>2. Place(r, queue) \in DOMAIN queue /\ queue[Place(r, queue)] = r
    BY <1>1, Zenon DEF Place
  <1>. QED
    BY <1>2

(* Who leaves the queue leaves the others in it. *)
LEMMA OthersStay ==
    ASSUME waiters \in Seq(Callers), NEW r \in Callers, Queued(r, waiters)
    PROVE  /\ Others(r) \in Seq(Callers)
           /\ \A v \in Callers : Queued(v, waiters) /\ v # r => Queued(v, Others(r))
  <1> DEFINE p == Place(r, waiters)
             n == Len(waiters)
  <1>1. p \in 1..n /\ waiters[p] = r /\ n \in Nat
    BY PlaceOf
  <1>2. \A i \in 1..n : waiters[i] \in Callers
    OBVIOUS
  <1>3. Others(r) = [i \in 1..(n - 1) |-> waiters[IF i < p THEN i ELSE i + 1]]
    BY DEF Others
  <1> HIDE DEF p, n
  <1>4. n - 1 \in Nat /\ \A i \in 1..(n - 1) : (IF i < p THEN i ELSE i + 1) \in 1..n
    BY <1>1
  <1>5. Others(r) \in Seq(Callers) /\ Len(Others(r)) = n - 1
    BY <1>2, <1>3, <1>4, IsASeq, LenProperties
  <1>6. ASSUME NEW v \in Callers, Queued(v, waiters), v # r
        PROVE  Queued(v, Others(r))
    <2>1. PICK j \in 1..n : waiters[j] = v
      BY <1>6 DEF Queued, n
    <2>2. j # p
      BY <1>1, <1>6, <2>1
    <2> DEFINE i == IF j < p THEN j ELSE j - 1
    <2>3. i \in 1..(n - 1) /\ (IF i < p THEN i ELSE i + 1) = j
      BY <1>1, <2>2
    <2>4. Others(r)[i] = v
      BY <1>3, <2>1, <2>3
    <2>. QED
      BY <1>5, <2>3, <2>4 DEF Queued
  <1>. QED
    BY <1>5, <1>6

LEMMA MinOfTwo ==
    ASSUME NEW a \in Nat, NEW b \in Nat
    PROVE  Min({a, b}) = IF a =< b THEN a ELSE b
  <1>1. \E x \in {a, b} : \A y \in {a, b} : x =< y
    OBVIOUS
  <1>2. Min({a, b}) \in {a, b} /\ \A y \in {a, b} : Min({a, b}) =< y
    BY <1>1, Zenon DEF Min
  <1>. QED
    BY <1>2

(* A queue that holds everyone who waits, with its reservations anew. *)
LEMMA RequeueKeeps ==
    ASSUME LimiterInv, NEW r \in Callers, NEW queue \in Seq(Callers), NEW following \in Nat,
           NEW at \in {"look", "granted", "gaveUp"},
           Requeue(r, at, queue, following),
           at = "look" => Queued(r, queue),
           \A v \in Callers : Queued(v, waiters) /\ v # r => Queued(v, queue),
           idle' \in Nat, idle' =< Interval, Interval =< following + idle'
    PROVE  LimiterInv'
  <1>1. next' = following /\ waiters' = queue
    BY DEF Requeue
  <1>2. /\ waiting' \in [Callers -> CallerState]
        /\ waiting'[r].at = at
        /\ \A v \in Callers : v # r => waiting'[v].at = waiting[v].at
    BY DEF LimiterInv, LimiterTypes, CallerState, Requeue
  <1>3. target' = [v \in Callers |-> IF v \in {queue[i] : i \in DOMAIN queue}
                                      THEN following + (Place(v, queue) - 1) * Interval ELSE 0]
    BY Zenon DEF Requeue, rebalanceLocked
  <1>4. ASSUME NEW v \in Callers, Queued(v, queue)
        PROVE  target'[v] \in Nat /\ following =< target'[v]
    <2>1. Place(v, queue) - 1 \in Nat
      BY <1>4, PlaceOf
    <2>2. (Place(v, queue) - 1) * Interval \in Nat
      BY <2>1, LimiterAssumption
    <2>3. target'[v] = following + (Place(v, queue) - 1) * Interval
      BY <1>3, <1>4 DEF Queued
    <2>. QED
      BY <2>2, <2>3
  <1>5. ASSUME NEW v \in Callers, ~ Queued(v, queue)
        PROVE  target'[v] = 0
    BY <1>3, <1>5 DEF Queued
  <1>6. target' \in [Callers -> Nat]
    <2>1. \A v \in Callers : target'[v] \in Nat
      BY <1>4, <1>5
    <2>. QED
      BY <1>3, <2>1
  <1>7. WaitersQueued'
    BY <1>1, <1>2 DEF LimiterInv, WaitersQueued, Queued
  <1>8. ReservedLater'
    BY <1>1, <1>4 DEF ReservedLater, Queued
  <1>. QED
    BY <1>1, <1>2, <1>6, <1>7, <1>8 DEF LimiterInv, LimiterTypes, IntervalKept

(* The head of the queue whose time has come is an interval behind. *)
LEMMA DueSpaced ==
    ASSUME LimiterInv, NEW r \in Callers, waiting[r].at \in {"look", "sleep"}, Due(r)
    PROVE  idle = Interval
  BY LimiterAssumption
     DEF LimiterInv, LimiterTypes, WaitersQueued, ReservedLater, IntervalKept, Due

LEMMA GiveUpKeeps ==
    ASSUME LimiterInv, NEW r \in Callers, waiting[r].at \in {"look", "sleep"}, GiveUp(r)
    PROVE  LimiterInv'
  <1>1. waiters \in Seq(Callers) /\ Queued(r, waiters)
    BY DEF LimiterInv, LimiterTypes, WaitersQueued
  <1>2. Requeue(r, "gaveUp", Others(r), next) /\ idle' = idle
    BY DEF GiveUp
  <1>3. next \in Nat /\ idle \in Nat /\ IntervalKept
    BY DEF LimiterInv, LimiterTypes
  <1>. QED
    BY <1>1, <1>2, <1>3, OthersStay, RequeueKeeps DEF IntervalKept

LEMMA GrantKeeps ==
    ASSUME LimiterInv, NEW r \in Callers, waiting[r].at \in {"look", "sleep"}, Grant(r)
    PROVE  LimiterInv'
  <1>1. waiters \in Seq(Callers) /\ Queued(r, waiters)
    BY DEF LimiterInv, LimiterTypes, WaitersQueued
  <1>2. Requeue(r, "granted", Others(r), Interval) /\ idle' = 0
    BY DEF Grant
  <1>. QED
    BY <1>1, <1>2, OthersStay, RequeueKeeps, LimiterAssumption

(* A caller that only moves within Wait. *)
LEMMA MovesOnly ==
    ASSUME LimiterInv, NEW r \in Callers, NEW state \in CallerState,
           state.at \in {"look", "sleep"} => waiting[r].at \in {"look", "sleep"},
           waiting' = [waiting EXCEPT ![r] = state],
           UNCHANGED << next, waiters, target, idle, checksContext >>
    PROVE  LimiterInv'
  <1>1. waiting' \in [Callers -> CallerState]
    BY DEF LimiterInv, LimiterTypes
  <1>2. \A v \in Callers : waiting'[v].at \in {"look", "sleep"} => waiting[v].at \in {"look", "sleep"}
    BY DEF LimiterInv, LimiterTypes
  <1>. QED
    BY <1>1, <1>2
       DEF LimiterInv, LimiterTypes, WaitersQueued, ReservedLater, IntervalKept, Queued

LEMMA TurnKeeps ==
    ASSUME LimiterInv, NEW r \in Callers, waiting[r].at \in {"look", "sleep"}, Turn(r)
    PROVE  LimiterInv'
  BY GiveUpKeeps, GrantKeeps DEF Turn

LEMMA LookAgainKeeps ==
    ASSUME LimiterInv, NEW r \in Callers, waiting[r].at = "sleep", LookAgain(r)
    PROVE  LimiterInv'
  <1> DEFINE state == [waiting[r] EXCEPT !.at = "look"]
  <1>1. waiting[r] \in CallerState
    BY DEF LimiterInv, LimiterTypes
  <1>2. state \in CallerState
    BY <1>1 DEF CallerState
  <1>3. waiting' = [waiting EXCEPT ![r] = state]
    BY DEF LookAgain
  <1> HIDE DEF state
  <1>. QED
    BY <1>2, <1>3, MovesOnly DEF LookAgain

LEMMA WakesKeeps ==
    ASSUME LimiterInv, NEW r \in Callers, Wakes(r)
    PROVE  LimiterInv'
  <1>1. CASE Look(r)
    <2>1. CASE Turn(r)
      BY <1>1, <2>1, TurnKeeps DEF Look
    <2>2. CASE ~ Turn(r)
      <3> DEFINE state == Caller("sleep", target[r], FALSE, waiting[r].ended)
      <3>1. waiting[r] \in CallerState /\ target[r] \in Nat
        BY DEF LimiterInv, LimiterTypes
      <3>2. state \in CallerState
        BY <3>1 DEF CallerState, Caller
      <3>3. waiting' = [waiting EXCEPT ![r] = state] /\ waiting[r].at = "look"
            /\ UNCHANGED << next, waiters, target, idle, checksContext >>
        BY <1>1, <2>2 DEF Look
      <3> HIDE DEF state
      <3>. QED
        BY <3>2, <3>3, MovesOnly
    <2>. QED
      BY <2>1, <2>2
  <1>2. CASE ContextEnds(r)
    BY <1>2, GiveUpKeeps DEF ContextEnds
  <1>3. CASE TimerFires(r)
    BY <1>3, TurnKeeps, LookAgainKeeps DEF TimerFires
  <1>4. CASE Notified(r)
    BY <1>4, LookAgainKeeps DEF Notified
  <1>. QED
    BY <1>1, <1>2, <1>3, <1>4 DEF Wakes

LEMMA EnqueueKeeps ==
    ASSUME LimiterInv, NEW r \in Callers, Enqueue(r)
    PROVE  LimiterInv'
  <1> DEFINE queue == Append(waiters, r)
  <1>1. waiters \in Seq(Callers) /\ next \in Nat /\ idle \in Nat /\ IntervalKept
    BY DEF LimiterInv, LimiterTypes
  <1>2. /\ queue \in Seq(Callers) /\ Len(queue) = Len(waiters) + 1
        /\ queue[Len(waiters) + 1] = r
        /\ \A i \in 1..Len(waiters) : queue[i] = waiters[i]
    BY <1>1
  <1>3. Requeue(r, "look", queue, next) /\ idle' = idle
    BY DEF Enqueue
  <1> HIDE DEF queue
  <1>4. Len(waiters) \in Nat
    BY <1>1
  <1>5. Queued(r, queue)
    BY <1>2, <1>4 DEF Queued
  <1>6. \A v \in Callers : Queued(v, waiters) => Queued(v, queue)
    BY <1>2, <1>4 DEF Queued
  <1>. QED
    BY <1>1, <1>2, <1>3, <1>5, <1>6, RequeueKeeps DEF IntervalKept

LEMMA CancelledKeeps ==
    ASSUME LimiterInv, NEW r \in Callers, CallerCancelled(r)
    PROVE  LimiterInv'
  <1> DEFINE state == [waiting[r] EXCEPT !.ended = TRUE]
  <1>1. waiting[r] \in CallerState
    BY DEF LimiterInv, LimiterTypes
  <1>2. state \in CallerState /\ state.at = waiting[r].at
    BY <1>1 DEF CallerState
  <1>3. waiting' = [waiting EXCEPT ![r] = state]
    BY DEF CallerCancelled
  <1> HIDE DEF state
  <1>. QED
    BY <1>2, <1>3, MovesOnly DEF CallerCancelled

LEMMA TimePassesKeeps ==
    ASSUME LimiterInv, TimePasses
    PROVE  LimiterInv'
  <1>1. /\ next \in Nat /\ idle \in Nat /\ Interval \in Nat /\ waiters' = waiters
        /\ target \in [Callers -> Nat] /\ waiting \in [Callers -> CallerState]
    BY LimiterAssumption DEF LimiterInv, LimiterTypes, TimePasses
  <1>2. \A t \in Nat : Sooner(t) \in Nat
    BY DEF Sooner
  <1>3. idle' = IF Interval =< idle + 1 THEN Interval ELSE idle + 1
    BY <1>1, MinOfTwo DEF TimePasses
  <1>4. next' \in Nat /\ idle' \in Nat /\ IntervalKept'
    <2>1. next' = Sooner(next) /\ IntervalKept
      BY DEF TimePasses, LimiterInv
    <2>. QED
      BY <1>1, <1>3, <2>1 DEF IntervalKept, Sooner
  <1>5. target' \in [Callers -> Nat]
    BY <1>1, <1>2 DEF TimePasses
  <1>6. /\ waiting' \in [Callers -> CallerState]
        /\ \A r \in Callers : waiting'[r].at = waiting[r].at
    BY <1>1, <1>2 DEF TimePasses, CallerState
  <1>7. ASSUME NEW r \in Callers, Queued(r, waiters)
        PROVE  next' =< target'[r]
    <2>1. next =< target[r] /\ target[r] \in Nat
      BY <1>1, <1>7 DEF LimiterInv, ReservedLater
    <2>2. next' = Sooner(next) /\ target'[r] = Sooner(target[r])
      BY DEF TimePasses
    <2>. QED
      BY <1>1, <2>1, <2>2 DEF Sooner
  <1>. QED
    BY <1>1, <1>4, <1>5, <1>6, <1>7
       DEF LimiterInv, LimiterTypes, WaitersQueued, ReservedLater, Queued

(***************************************************************************)
(* Every waiter is in the queue, no reservation lies before the next       *)
(* grant, and the next grant is an interval after the last, for any number *)
(* of callers and any interval.                                            *)
(***************************************************************************)
THEOREM LimiterInvariant == LimiterSpec => []LimiterInv
  <1>1. LimiterInit => LimiterInv
    BY LimiterAssumption
       DEF LimiterInit, LimiterInv, LimiterTypes, WaitersQueued, ReservedLater, IntervalKept,
           Queued, CallerState, Caller
  <1>2. ASSUME LimiterInv, [LimiterNext]_limiterVars PROVE LimiterInv'
    <2>1. CASE UNCHANGED limiterVars
      BY <1>2, <2>1 DEF limiterVars, LimiterInv, LimiterTypes, WaitersQueued, ReservedLater,
                        IntervalKept, Queued
    <2>2. CASE LimiterNext
      BY <1>2, <2>2, TimePassesKeeps, EnqueueKeeps, WakesKeeps, CancelledKeeps DEF LimiterNext
    <2>. QED
      BY <1>2, <2>1, <2>2
  <1>. QED
    BY <1>1, <1>2, PTL DEF LimiterSpec

(* Only a turn of its own passes a caller. *)
LEMMA PassesByTurn ==
    ASSUME LimiterInv, LimiterNext, NEW r \in Callers, Passes(r)
    PROVE  waiting[r].at \in {"look", "sleep"} /\ Due(r) /\ ~ (checksContext /\ waiting[r].ended)
  <1>0. waiting \in [Callers -> CallerState]
    BY DEF LimiterInv, LimiterTypes
  <1>1. ASSUME NEW v \in Callers, NEW at, NEW queue, NEW following,
               Requeue(v, at, queue, following)
        PROVE  v = r /\ at = "granted"
    BY <1>0, <1>1 DEF Requeue, Passes, CallerState
  <1>2. ASSUME TimePasses PROVE FALSE
    BY <1>0, <1>2 DEF TimePasses, Passes, CallerState
  <1>3. ASSUME NEW v \in Callers, Enqueue(v) \/ GiveUp(v) PROVE FALSE
    BY <1>1, <1>3 DEF Enqueue, GiveUp
  <1>4. ASSUME NEW v \in Callers, LookAgain(v) PROVE FALSE
    BY <1>0, <1>4 DEF LookAgain, Passes, CallerState
  <1>5. ASSUME NEW v \in Callers, CallerCancelled(v) PROVE FALSE
    BY <1>0, <1>5 DEF CallerCancelled, Passes, CallerState
  <1>6. ASSUME NEW v \in Callers, NEW timer,
               waiting' = [waiting EXCEPT ![v] = Caller("sleep", timer, FALSE, waiting[v].ended)]
        PROVE  FALSE
    BY <1>0, <1>6 DEF Caller, Passes, CallerState
  <1>7. ASSUME NEW v \in Callers, Turn(v)
        PROVE  v = r /\ Due(r) /\ ~ (checksContext /\ waiting[r].ended)
    BY <1>1, <1>3, <1>7 DEF Turn, Grant
  <1>8. ASSUME NEW v \in Callers, Wakes(v)
        PROVE  Turn(v) /\ waiting[v].at \in {"look", "sleep"}
    BY <1>3, <1>4, <1>6, <1>8 DEF Wakes, Look, ContextEnds, TimerFires, Notified
  <1>. QED
    BY <1>2, <1>3, <1>5, <1>7, <1>8 DEF LimiterNext

(***************************************************************************)
(* However callers come, give up, time out and wake, two requests never    *)
(* pass the limiter within one interval, and Answer's limiter passes none  *)
(* whose context has ended.                                                *)
(***************************************************************************)
THEOREM ProviderNotFlooded == LimiterSpec => GrantsSpaced
  <1>1. LimiterInv /\ [LimiterNext]_limiterVars => [PassesInTurn]_limiterVars
    BY PassesByTurn, DueSpaced DEF PassesInTurn
  <1>. QED
    BY <1>1, LimiterInvariant, PTL DEF LimiterSpec, GrantsSpaced

-----------------------------------------------------------------------------
(***************************************************************************)
(* The assessment of a search.  What is kept is the part of the list gone  *)
(* through that is neither blank nor judged irrelevant; it stays so since  *)
(* a passage has its judgement before the search goes past it and keeps    *)
(* it.  A judgement rests on what the provider said: a row of the cache    *)
(* holds its word, and what waits to be stored is its word.  The budget is *)
(* kept since an attempt is made only within a reservation.                *)
(***************************************************************************)
ListedPassages == UNION {Range(list) : list \in CandidateLists}

Stages == {"idle", "next", "lookup", "reserve", "attempt", "wait", "store", "done", "failed"}

Busy == {"lookup", "reserve", "attempt", "wait", "store"}

Judgements == {"relevant", "irrelevant"}

Memos == [AssessedPassages -> {"none"} \cup Judgements]

PassageLists == Seq(ListedPassages)

CacheRows ==
    [question : Questions, passage : AssessedPassages, relevant : BOOLEAN, fresh : BOOLEAN,
     hits : Nat]

SearchStates ==
    [at : Stages, question : Questions, todo : PassageLists, given : PassageLists,
     kept : PassageLists, remaining : Nat, reserved : Nat, made : Nat, calls : Nat,
     providerFailed : BOOLEAN, judgement : {"none"} \cup Judgements, memo : Memos]

(* What is left to do is the end of the list. *)
Remainder(state) ==
    /\ Len(state.todo) =< Len(state.given)
    /\ \A i \in 1..Len(state.todo) :
           state.todo[i] = state.given[Len(state.given) - Len(state.todo) + i]

JudgedBefore(state) ==
    \A i \in Considered(state) :
        state.given[i] # EmptyPassage => state.memo[state.given[i]] # "none"

Core(state) ==
    /\ state \in SearchStates
    /\ Remainder(state) /\ JudgedBefore(state)
    /\ state.kept = Kept(state.given, Shown(state)) /\ Len(state.kept) =< Limit
    /\ state.remaining + state.reserved + state.calls = AssessmentCallLimit

(* A candidate is under assessment. *)
Open(state) ==
    /\ state.todo # << >> /\ Head(state.todo) # EmptyPassage
    /\ state.memo[Head(state.todo)] = "none" /\ Len(state.kept) < Limit

AtStage(state) ==
    /\ state.at \in Busy => Open(state)
    /\ IF state.at \in {"attempt", "wait"} THEN state.made < state.reserved
                                           ELSE state.reserved = 0
    /\ state.at = "store" => state.judgement \in Judgements
    /\ state.at = "done" => state.todo = << >> \/ Len(state.kept) = Limit

Sound(state) == Core(state) /\ AtStage(state)

(* What the provider said lets a search leave a passage out. *)
Backs(fact, question, passage) ==
    /\ fact[2] = passage /\ fact[3] = "irrelevant"
    /\ \/ fact[1] = question
       \/ /\ fact[1].topics = question.topics /\ fact[1].guards = question.guards
          /\ Distance(fact[1], question) <= NegativeReach

(* What the search uses of the provider's word. *)
Told(state, facts) ==
    /\ \A p \in AssessedPassages :
           state.memo[p] = "irrelevant" => \E fact \in facts : Backs(fact, state.question, p)
    /\ state.at = "store" => << state.question, Head(state.todo), state.judgement >> \in facts

RowSaid(row, facts) ==
    << row.question, row.passage, IF row.relevant THEN "relevant" ELSE "irrelevant" >> \in facts

RowsSaid == rows \in Seq(CacheRows) /\ \A i \in 1..Len(rows) : RowSaid(rows[i], said)

AssessmentInv ==
    /\ RowsSaid
    /\ search \in [Queries -> SearchStates]
    /\ \A s \in Queries : Sound(search[s]) /\ Told(search[s], said)

-----------------------------------------------------------------------------
(* The elements at some places of a list, in their order *)

Below(places, i) == {j \in places : j < i}

PlaceNumber(places, n) == CHOOSE i \in places : Cardinality({j \in places : j < i}) = n - 1

LEMMA PlacesFinite ==
    ASSUME NEW m \in Nat, NEW places \in SUBSET (1..m)
    PROVE  IsFiniteSet(places) /\ Cardinality(places) \in Nat
  <1>1. IsFiniteSet(1..m)
    BY FS_Interval
  <1>. QED
    BY <1>1, FS_Subset, FS_CardinalityType

LEMMA PlaceWithin ==
    ASSUME NEW m \in Nat, NEW places \in SUBSET (1..m), NEW i \in places
    PROVE  i \in Nat /\ 1 =< i /\ i =< m
  <1>1. i \in 1..m
    OBVIOUS
  <1>. QED
    BY <1>1

(* Fewer places lie below a place than below a later one. *)
LEMMA RankGrows ==
    ASSUME NEW m \in Nat, NEW places \in SUBSET (1..m), NEW i \in places, NEW k \in places, i < k
    PROVE  Cardinality(Below(places, i)) < Cardinality(Below(places, k))
  <1>1. Below(places, i) \in SUBSET (1..m) /\ Below(places, k) \in SUBSET (1..m)
    BY DEF Below
  <1>2. /\ IsFiniteSet(Below(places, i)) /\ Cardinality(Below(places, i)) \in Nat
        /\ IsFiniteSet(Below(places, k)) /\ Cardinality(Below(places, k)) \in Nat
    BY <1>1, PlacesFinite
  <1>3. i \notin Below(places, i) /\ Below(places, i) \cup {i} \in SUBSET Below(places, k)
    <2>1. i \in Nat /\ k \in Nat /\ \A j \in places : j \in Nat
      BY PlaceWithin
    <2>2. i \notin Below(places, i)
      BY <2>1 DEF Below
    <2>3. ASSUME NEW x \in Below(places, i) \cup {i} PROVE x \in Below(places, k)
      <3>1. x \in places /\ (x < i \/ x = i)
        BY DEF Below
      <3>2. x < k
        BY <2>1, <3>1
      <3>. QED
        BY <3>1, <3>2 DEF Below
    <2>. QED
      BY <2>2, <2>3
  <1>4. Cardinality(Below(places, i) \cup {i}) = Cardinality(Below(places, i)) + 1
    BY <1>2, <1>3, FS_AddElement
  <1>5. Cardinality(Below(places, i) \cup {i}) <= Cardinality(Below(places, k))
    BY <1>2, <1>3, FS_Subset
  <1>. QED
    BY <1>2, <1>4, <1>5

(* Places are numbered from the first to the last. *)
LEMMA PlacesNumbered ==
    ASSUME NEW m \in Nat, NEW places \in SUBSET (1..m), NEW n \in 1..Cardinality(places)
    PROVE  \E i \in places : Cardinality(Below(places, i)) = n - 1
  <1> DEFINE c == Cardinality(places)
             rank == [i \in places |-> Cardinality(Below(places, i))]
  <1>1. IsFiniteSet(places) /\ c \in Nat
    BY PlacesFinite
  <1>2. ASSUME NEW i \in places
        PROVE  Cardinality(Below(places, i)) \in 0..(c - 1)
    <2>1. Below(places, i) \in SUBSET (1..m)
      BY DEF Below
    <2>2. IsFiniteSet(Below(places, i)) /\ Cardinality(Below(places, i)) \in Nat
      BY <2>1, PlacesFinite
    <2>3. Below(places, i) \in SUBSET (places \ {i})
      BY DEF Below
    <2>4. IsFiniteSet(places \ {i}) /\ Cardinality(places \ {i}) = c - 1
      BY <1>1, FS_RemoveElement
    <2>5. Cardinality(Below(places, i)) <= c - 1
      BY <2>3, <2>4, FS_Subset
    <2> HIDE DEF c
    <2>. QED
      BY <1>1, <2>2, <2>5
  <1>3. rank \in Injection(places, 0..(c - 1))
    <2>1. rank \in [places -> 0..(c - 1)]
      BY <1>2
    <2>2. ASSUME NEW i \in places, NEW k \in places, rank[i] = rank[k]
          PROVE  i = k
      <3>1. i \in Nat /\ k \in Nat
        OBVIOUS
      <3>2. /\ i < k => rank[i] < rank[k]
            /\ k < i => rank[k] < rank[i]
        BY RankGrows
      <3>3. rank[i] \in 0..(c - 1)
        BY <2>1
      <3> HIDE DEF rank, c
      <3>. QED
        BY <1>1, <2>2, <3>1, <3>2, <3>3
    <2> HIDE DEF rank, c
    <2>. QED
      BY <2>1, <2>2 DEF Injection, IsInjective
  <1>4. IsFiniteSet(0..(c - 1)) /\ Cardinality(0..(c - 1)) = c
    <2> HIDE DEF c
    <2>. QED
      BY <1>1, FS_Interval
  <1>5. rank \in Surjection(places, 0..(c - 1))
    <2> HIDE DEF rank
    <2>. QED
      BY <1>3, <1>4, FS_Injection
  <1>6. n - 1 \in 0..(c - 1)
    BY <1>1
  <1>7. \E i \in places : rank[i] = n - 1
    <2> HIDE DEF rank, c
    <2>. QED
      BY <1>5, <1>6 DEF Surjection
  <1>. QED
    BY <1>7

(* The place with a number, and the number of a place. *)
LEMMA PlaceOfNumber ==
    ASSUME NEW m \in Nat, NEW places \in SUBSET (1..m), NEW n \in 1..Cardinality(places)
    PROVE  /\ PlaceNumber(places, n) \in places
           /\ Cardinality(Below(places, PlaceNumber(places, n))) = n - 1
           /\ \A i \in places : Cardinality(Below(places, i)) = n - 1 => i = PlaceNumber(places, n)
  <1>1. \E i \in places : Cardinality({j \in places : j < i}) = n - 1
    BY PlacesNumbered DEF Below
  <1>2. /\ PlaceNumber(places, n) \in places
        /\ Cardinality({j \in places : j < PlaceNumber(places, n)}) = n - 1
    <2> DEFINE P(i) == Cardinality({j \in places : j < i}) = n - 1
    <2>1. \E i \in places : P(i)
      BY <1>1
    <2>2. PlaceNumber(places, n) = CHOOSE i \in places : P(i)
      BY DEF PlaceNumber
    <2> HIDE DEF P
    <2>3. PlaceNumber(places, n) \in places /\ P(PlaceNumber(places, n))
      BY <2>1, <2>2, Zenon
    <2>. QED
      BY <2>3 DEF P
  <1>3. Cardinality(Below(places, PlaceNumber(places, n))) = n - 1
    BY <1>2 DEF Below
  <1>4. ASSUME NEW i \in places, Cardinality(Below(places, i)) = n - 1
        PROVE  i = PlaceNumber(places, n)
    <2> DEFINE k == PlaceNumber(places, n)
    <2>1. k \in places /\ k \in Nat /\ i \in Nat
      BY <1>2, PlaceWithin
    <2>2. /\ i < k => Cardinality(Below(places, i)) < Cardinality(Below(places, k))
          /\ k < i => Cardinality(Below(places, k)) < Cardinality(Below(places, i))
      BY <2>1, RankGrows
    <2>3. Cardinality(Below(places, k)) = n - 1 /\ n - 1 \in Int
      BY <1>3
    <2> HIDE DEF k
    <2>4. ~ (i < k) /\ ~ (k < i)
      BY <1>4, <2>2, <2>3
    <2>. QED
      BY <2>1, <2>4 DEF k
  <1>. QED
    BY <1>2, <1>3, <1>4

LEMMA KeptIs ==
    ASSUME NEW list, NEW places
    PROVE  Kept(list, places) = [n \in 1..Cardinality(places) |-> list[PlaceNumber(places, n)]]
  BY DEF Kept, PlaceNumber

(* A kept list is a list of what the places hold. *)
LEMMA KeptPlaces ==
    ASSUME NEW R, NEW list \in Seq(R), NEW places \in SUBSET (1..Len(list))
    PROVE  /\ Kept(list, places) \in Seq(R)
           /\ Len(Kept(list, places)) = Cardinality(places)
           /\ \A n \in 1..Len(Kept(list, places)) :
                  \E i \in places : Kept(list, places)[n] = list[i]
  <1>1. Len(list) \in Nat
    OBVIOUS
  <1>2. Cardinality(places) \in Nat
    BY <1>1, PlacesFinite
  <1>3. \A n \in 1..Cardinality(places) : PlaceNumber(places, n) \in places
    BY <1>1, PlaceOfNumber
  <1>4. \A i \in places : list[i] \in R
    OBVIOUS
  <1> DEFINE kept == Kept(list, places)
             c == Cardinality(places)
  <1>5. kept = [n \in 1..c |-> list[PlaceNumber(places, n)]]
    BY KeptIs
  <1> HIDE DEF kept, c
  <1>6. \A n \in 1..c : list[PlaceNumber(places, n)] \in R
    BY <1>3, <1>4 DEF c
  <1>7. kept \in Seq(R) /\ Len(kept) = c
    <2>1. c \in Nat
      BY <1>2 DEF c
    <2>2. [n \in 1..c |-> list[PlaceNumber(places, n)]] \in Seq(R)
      BY <1>6, <2>1, IsASeq
    <2>. QED
      BY <1>5, <2>1, <2>2, LenProperties
  <1>. QED
    BY <1>3, <1>5, <1>7 DEF kept, c

(* One more place, behind the others, appends what it holds. *)
LEMMA KeptGrows ==
    ASSUME NEW R, NEW list \in Seq(R), NEW m \in Nat, m + 1 =< Len(list),
           NEW places \in SUBSET (1..m)
    PROVE  Kept(list, places \cup {m + 1}) = Append(Kept(list, places), list[m + 1])
  <1> DEFINE more == places \cup {m + 1}
             c == Cardinality(places)
  <1>0. \A i \in places : i \in Nat /\ 1 =< i /\ i =< m
    BY PlaceWithin
  <1>1. IsFiniteSet(places) /\ c \in Nat /\ m + 1 \notin places /\ Len(list) \in Nat
    <2>1. ~ (m + 1 =< m)
      OBVIOUS
    <2>2. m + 1 \notin places
      BY <1>0, <2>1, Zenon
    <2>3. Len(list) \in Nat
      OBVIOUS
    <2>4. IsFiniteSet(places) /\ c \in Nat
      BY PlacesFinite
    <2>. QED
      BY <2>2, <2>3, <2>4
  <1>2. more \in SUBSET (1..(m + 1)) /\ m + 1 \in Nat
    OBVIOUS
  <1>3. Cardinality(more) = c + 1
    BY <1>1, FS_AddElement
  <1>4. Below(more, m + 1) = places
    <2>1. ~ (m + 1 < m + 1)
      OBVIOUS
    <2>2. \A i \in places : i < m + 1
      BY <1>0
    <2>. QED
      BY <2>1, <2>2 DEF Below
  <1>5. \A i \in places : Below(more, i) = Below(places, i)
    BY <1>0 DEF Below
  <1>6. PlaceNumber(more, c + 1) = m + 1
    <2>1. c + 1 \in 1..Cardinality(more) /\ Cardinality(Below(more, m + 1)) = (c + 1) - 1
          /\ m + 1 \in more
      <3>1. m + 1 \in more
        OBVIOUS
      <3>2. Cardinality(Below(more, m + 1)) = c
        BY <1>4
      <3> HIDE DEF c, more
      <3>. QED
        BY <1>1, <1>3, <3>1, <3>2
    <2> HIDE DEF c, more
    <2>. QED
      BY <1>2, <2>1, PlaceOfNumber
  <1>7. ASSUME NEW n \in 1..c PROVE PlaceNumber(more, n) = PlaceNumber(places, n)
    <2> DEFINE i == PlaceNumber(places, n)
    <2>1. i \in places /\ Cardinality(Below(places, i)) = n - 1
      BY PlaceOfNumber
    <2>2. i \in more /\ Cardinality(Below(more, i)) = n - 1
      BY <1>5, <2>1
    <2> HIDE DEF i, more, c
    <2>3. n \in 1..Cardinality(more)
      BY <1>1, <1>3
    <2>4. i = PlaceNumber(more, n)
      BY <1>2, <2>2, <2>3, PlaceOfNumber
    <2>. QED
      BY <2>4 DEF i
  <1> DEFINE kept == Kept(list, places)
  <1>8. kept \in Seq(R) /\ Len(kept) = c
    <2>1. places \in SUBSET (1..Len(list))
      BY <1>1
    <2>. QED
      BY <2>1, KeptPlaces
  <1>9. kept = [n \in 1..c |-> list[PlaceNumber(places, n)]]
    BY KeptIs
  <1>10. Kept(list, more) = [n \in 1..(c + 1) |-> list[PlaceNumber(more, n)]]
    BY <1>3, KeptIs
  <1>11. Append(kept, list[m + 1]) = [n \in 1..(c + 1) |-> IF n = c + 1 THEN list[m + 1] ELSE kept[n]]
    <2>1. list[m + 1] \in R
      BY <1>1
    <2> HIDE DEF kept, c
    <2>. QED
      BY <1>1, <1>8, <2>1, AppendProperties
  <1> HIDE DEF kept, c, more
  <1>12. \A n \in 1..(c + 1) : list[PlaceNumber(more, n)] = IF n = c + 1 THEN list[m + 1] ELSE kept[n]
    BY <1>1, <1>6, <1>7, <1>9
  <1>13. Kept(list, more) = Append(kept, list[m + 1])
    BY <1>10, <1>11, <1>12
  <1>. QED
    BY <1>13 DEF kept, more

(* The latest of some places. *)
LEMMA MaxPlace ==
    ASSUME NEW m \in Nat, NEW places \in SUBSET (1..m), places # {}
    PROVE  Max(places) \in places
  <1> DEFINE back == {m - i : i \in places}
  <1>0. \A i \in places : i \in Nat /\ m - i \in Nat
    BY PlaceWithin
  <1>1. back \subseteq Nat /\ back # {}
    BY <1>0
  <1>2. PICK b \in back : \A a \in back : << a, b >> \notin OpToRel(<, Nat)
    BY <1>1, NatLessThanWellFounded, WFMin
  <1>3. PICK k \in places : b = m - k
    BY <1>2
  <1>4. ASSUME NEW y \in places PROVE k >= y
    <2>1. m - y \in Nat /\ m - k \in Nat /\ y \in Nat /\ k \in Nat
      BY <1>0
    <2>2. << m - y, b >> \notin OpToRel(<, Nat)
      BY <1>2
    <2>3. ~ (m - y < m - k)
      BY <1>3, <2>1, <2>2 DEF OpToRel
    <2>. QED
      BY <2>1, <2>3
  <1>5. \E x \in places : \A y \in places : x >= y
    BY <1>4
  <1>. QED
    BY <1>5, Zenon DEF Max

-----------------------------------------------------------------------------
(* What one attempt at the provider comes to *)

LEMMA CandidateJudged ==
    ASSUME NEW candidate
    PROVE  \/ parseCandidateAssessment(candidate) = invalidResponse
           \/ \E j \in Judgements : parseCandidateAssessment(candidate) = Judgement(j)
  <1>1. \/ parsePlainTextCandidateAssessment(candidate.summary) = invalidResponse
        \/ parsePlainTextCandidateAssessment(candidate.summary) = Judgement("relevant")
    BY DEF parsePlainTextCandidateAssessment
  <1>. QED
    BY <1>1 DEF parseCandidateAssessment, Judgements

LEMMA AttemptsJudge ==
    ASSUME NEW attempt \in Attempts
    PROVE  attempt.result \in {"failed"} \cup Judgements /\ attempt.recorded \in BOOLEAN
  <1>1. PICK reply \in Replies : attempt = assessAttempt(reply)
    BY DEF Attempts
  <1>2. reply.kind \in {"throttled", "unsent", "transport", "unreadable", "unusable", "status",
                        "error", "choices", "candidate"}
    BY <1>1 DEF Replies
  <1>4. invalidResponse.result = "failed" /\ invalidResponse.recorded = TRUE
    BY DEF invalidResponse, Attempt
  <1>5. \A j \in Judgements : Judgement(j).result = j /\ Judgement(j).recorded = TRUE
    BY DEF Judgement, Attempt
  <1>6. CASE reply.kind = "candidate"
    <2>1. attempt = parseCandidateAssessment(reply.candidate)
      BY <1>1, <1>6 DEF assessAttempt
    <2>. QED
      BY <1>4, <1>5, <2>1, CandidateJudged
  <1>7. reply.kind = "unreadable" \/ reply.kind = "unusable" => attempt = invalidResponse
    BY <1>1 DEF assessAttempt
  <1>8. reply.kind = "throttled" => attempt.result = "failed" /\ attempt.recorded \in BOOLEAN
    BY <1>1 DEF assessAttempt, Attempt
  <1>9. reply.kind = "unsent" => attempt.result = "failed" /\ attempt.recorded \in BOOLEAN
    BY <1>1 DEF assessAttempt, Attempt
  <1>10. reply.kind = "transport" => attempt.result = "failed" /\ attempt.recorded \in BOOLEAN
    BY <1>1 DEF assessAttempt, Attempt
  <1>11. reply.kind = "status" => attempt.result = "failed" /\ attempt.recorded \in BOOLEAN
    BY <1>1 DEF assessAttempt, Attempt
  <1>12. reply.kind = "error" => attempt.result = "failed" /\ attempt.recorded \in BOOLEAN
    BY <1>1 DEF assessAttempt, Attempt
  <1>13. reply.kind = "choices" => attempt.result = "failed" /\ attempt.recorded \in BOOLEAN
    BY <1>1 DEF assessAttempt, Attempt
  <1>. QED
    BY <1>2, <1>4, <1>6, <1>7, <1>8, <1>9, <1>10, <1>11, <1>12, <1>13

-----------------------------------------------------------------------------
(* The state of a search, field by field *)

LEMMA SettledIs ==
    ASSUME NEW state \in SearchStates, NEW j
    PROVE  /\ Settled(state, j).at = "next"
           /\ Settled(state, j).question = state.question
           /\ Settled(state, j).todo = Tail(state.todo)
           /\ Settled(state, j).given = state.given
           /\ Settled(state, j).kept = IF j = "relevant" THEN Append(state.kept, Head(state.todo))
                                                        ELSE state.kept
           /\ Settled(state, j).remaining = state.remaining
           /\ Settled(state, j).reserved = state.reserved
           /\ Settled(state, j).made = 0
           /\ Settled(state, j).calls = state.calls
           /\ Settled(state, j).providerFailed = state.providerFailed
           /\ Settled(state, j).judgement = "none"
           /\ Settled(state, j).memo = [state.memo EXCEPT ![Head(state.todo)] = j]
  BY DEF Settled, SearchStates

LEMMA SettledType ==
    ASSUME NEW state \in SearchStates, NEW j \in Judgements,
           state.todo # << >>, Head(state.todo) \in AssessedPassages
    PROVE  Settled(state, j) \in SearchStates
  <1>1. Tail(state.todo) \in PassageLists /\ Append(state.kept, Head(state.todo)) \in PassageLists
    BY DEF SearchStates, PassageLists
  <1>2. [state.memo EXCEPT ![Head(state.todo)] = j] \in Memos
    BY DEF SearchStates, Memos
  <1>. QED
    BY <1>1, <1>2 DEF Settled, SearchStates, Stages

LEMMA ReturnedIs ==
    ASSUME NEW state \in SearchStates, NEW made \in Nat, made =< state.reserved
    PROVE  /\ Returned(state, made) \in SearchStates
           /\ Returned(state, made).at = state.at
           /\ Returned(state, made).question = state.question
           /\ Returned(state, made).todo = state.todo
           /\ Returned(state, made).given = state.given
           /\ Returned(state, made).kept = state.kept
           /\ Returned(state, made).remaining = state.remaining + state.reserved - made
           /\ Returned(state, made).reserved = 0
           /\ Returned(state, made).made = made
           /\ Returned(state, made).calls = state.calls + made
           /\ Returned(state, made).providerFailed = state.providerFailed
           /\ Returned(state, made).judgement = state.judgement
           /\ Returned(state, made).memo = state.memo
  <1>1. /\ state.remaining + state.reserved - made \in Nat
        /\ state.calls + made \in Nat
    BY DEF SearchStates
  <1>. QED
    BY <1>1 DEF Returned, SearchStates

LEMMA PassageKinds == AssessedPassages = ListedPassages \ {EmptyPassage}
  BY DEF AssessedPassages, ListedPassages

LEMMA IntervalGrows ==
    ASSUME NEW m \in Nat
    PROVE  1..(m + 1) = (1..m) \cup {m + 1} /\ m + 1 \notin 1..m
  OBVIOUS

LEMMA SkippedIs ==
    ASSUME NEW state \in SearchStates, state.todo # << >>
    PROVE  /\ Skipped(state) \in SearchStates
           /\ Skipped(state).at = state.at
           /\ Skipped(state).question = state.question
           /\ Skipped(state).todo = Tail(state.todo)
           /\ Skipped(state).given = state.given
           /\ Skipped(state).kept = state.kept
           /\ Skipped(state).remaining = state.remaining
           /\ Skipped(state).reserved = state.reserved
           /\ Skipped(state).calls = state.calls
           /\ Skipped(state).memo = state.memo
  <1>1. Tail(state.todo) \in PassageLists
    BY DEF SearchStates, PassageLists
  <1>. QED
    BY <1>1 DEF Skipped, SearchStates

(* A state that differs in what Core does not look at. *)
LEMMA CoreKept ==
    ASSUME NEW state, Core(state), NEW new \in SearchStates,
           new.todo = state.todo, new.given = state.given, new.kept = state.kept,
           new.memo = state.memo,
           new.remaining + new.reserved + new.calls = AssessmentCallLimit
    PROVE  Core(new) /\ (Open(state) => Open(new))
  <1>1. Shown(new) = Shown(state) /\ Considered(new) = Considered(state)
    BY DEF Shown, Considered
  <1>2. Remainder(new) /\ JudgedBefore(new)
    BY <1>1 DEF Core, Remainder, JudgedBefore
  <1>. QED
    BY <1>1, <1>2 DEF Core, Open

(* The candidate is the passage behind what was considered. *)
LEMMA CandidateNext ==
    ASSUME NEW state \in SearchStates, Remainder(state), state.todo # << >>
    PROVE  \E m \in Nat :
             /\ m + 1 =< Len(state.given) /\ m = Len(state.given) - Len(state.todo)
             /\ Considered(state) = 1..m
             /\ Head(state.todo) = state.given[m + 1]
             /\ Head(state.todo) \in ListedPassages
             /\ Len(Tail(state.todo)) = Len(state.todo) - 1
             /\ \A i \in 1..Len(Tail(state.todo)) : Tail(state.todo)[i] = state.todo[i + 1]
  <1> DEFINE m == Len(state.given) - Len(state.todo)
  <1>1. state.todo \in Seq(ListedPassages) /\ state.given \in Seq(ListedPassages)
    BY DEF SearchStates, PassageLists
  <1>2. Len(state.given) \in Nat /\ Len(state.todo) \in Nat /\ Len(state.todo) # 0
    BY <1>1
  <1>3. m \in Nat /\ m + 1 =< Len(state.given) /\ 1 \in 1..Len(state.todo)
    BY <1>2 DEF Remainder
  <1>4. Head(state.todo) = state.todo[1] /\ Head(state.todo) \in ListedPassages
    BY <1>1, <1>2
  <1>5. state.todo[1] = state.given[m + 1]
    BY <1>3 DEF Remainder
  <1>6. /\ Len(Tail(state.todo)) = Len(state.todo) - 1
        /\ \A i \in 1..Len(Tail(state.todo)) : Tail(state.todo)[i] = state.todo[i + 1]
    BY <1>1, <1>2
  <1>. QED
    BY <1>3, <1>4, <1>5, <1>6 DEF Considered

(* Going past the candidate. *)
LEMMA WentPast ==
    ASSUME NEW state \in SearchStates, Remainder(state), state.todo # << >>,
           NEW new \in SearchStates, new.todo = Tail(state.todo), new.given = state.given,
           NEW m \in Nat, m = Len(state.given) - Len(state.todo)
    PROVE  Remainder(new) /\ Considered(new) = 1..(m + 1)
  <1> DEFINE g == Len(state.given)
             t == Len(state.todo)
             u == Len(new.todo)
  <1>1. state.todo \in Seq(ListedPassages) /\ state.given \in Seq(ListedPassages)
    BY DEF SearchStates, PassageLists
  <1>2. g \in Nat /\ t \in Nat /\ t # 0 /\ t =< g /\ m = g - t /\ Len(new.given) = g
    BY <1>1 DEF Remainder
  <1>3. u = t - 1 /\ \A i \in 1..u : new.todo[i] = state.todo[i + 1]
    BY CandidateNext
  <1>4. \A i \in 1..t : state.todo[i] = state.given[g - t + i]
    BY DEF Remainder
  <1> HIDE DEF g, t, u
  <1>6. Considered(new) = 1..(g - u)
    <2>1. Considered(new) = 1..(Len(new.given) - u)
      BY DEF Considered, u
    <2>. QED
      BY <1>2, <2>1
  <1>7. u =< g /\ g - u = m + 1
    <2>1. \A a, b \in Nat : b # 0 /\ b =< a => b - 1 =< a /\ a - (b - 1) = (a - b) + 1
      OBVIOUS
    <2>2. u = t - 1
      BY <1>3
    <2>3. t - 1 =< g /\ g - (t - 1) = (g - t) + 1
      BY <1>2, <2>1
    <2>4. (g - t) + 1 = m + 1
      BY <1>2
    <2>. QED
      BY <2>2, <2>3, <2>4, Zenon
  <1>8. ASSUME NEW i \in 1..u PROVE new.todo[i] = state.given[g - u + i]
    <2>1. i + 1 \in 1..t /\ g - t + (i + 1) = g - u + i
      BY <1>2, <1>3
    <2>. QED
      BY <1>3, <1>4, <2>1
  <1>9. Remainder(new)
    <2>1. u =< Len(new.given) /\ \A i \in 1..u : new.todo[i] = new.given[Len(new.given) - u + i]
      BY <1>2, <1>7, <1>8
    <2>. QED
      BY <2>1 DEF Remainder, u
  <1>. QED
    BY <1>6, <1>7, <1>9

LEMMA SkippedCore ==
    ASSUME NEW state, Core(state), state.todo # << >>, Head(state.todo) = EmptyPassage
    PROVE  Core(Skipped(state))
  <1> DEFINE new == Skipped(state)
  <1>1. state \in SearchStates /\ Remainder(state) /\ JudgedBefore(state)
    BY DEF Core
  <1>2. PICK m \in Nat : /\ m = Len(state.given) - Len(state.todo)
                         /\ Considered(state) = 1..m /\ state.given[m + 1] = EmptyPassage
    BY <1>1, CandidateNext
  <1>3. /\ new \in SearchStates /\ new.todo = Tail(state.todo) /\ new.given = state.given
        /\ new.kept = state.kept /\ new.remaining = state.remaining
        /\ new.reserved = state.reserved /\ new.calls = state.calls /\ new.memo = state.memo
    BY <1>1, SkippedIs
  <1> HIDE DEF new
  <1>4. Remainder(new) /\ Considered(new) = 1..(m + 1)
    BY <1>1, <1>2, <1>3, WentPast
  <1>5. 1..(m + 1) = (1..m) \cup {m + 1}
    BY IntervalGrows
  <1>6. JudgedBefore(new)
    BY <1>1, <1>2, <1>3, <1>4, <1>5 DEF JudgedBefore
  <1>7. Shown(new) = Shown(state)
    BY <1>2, <1>3, <1>4, <1>5 DEF Shown
  <1>8. Core(new)
    BY <1>3, <1>4, <1>6, <1>7 DEF Core
  <1>. QED
    BY <1>8 DEF new

(* The candidate is judged, or was before: the kept list follows. *)
LEMMA SettledCore ==
    ASSUME NEW state, Core(state), state.todo # << >>, Head(state.todo) # EmptyPassage,
           NEW j \in Judgements, state.memo[Head(state.todo)] \in {"none", j},
           Len(state.kept) < Limit
    PROVE  Core(Settled(state, j))
  <1> DEFINE new == Settled(state, j)
             p == Head(state.todo)
  <1>1. /\ state \in SearchStates /\ Remainder(state) /\ JudgedBefore(state)
        /\ state.kept = Kept(state.given, Shown(state))
        /\ state.given \in Seq(ListedPassages) /\ state.kept \in Seq(ListedPassages)
        /\ state.memo \in Memos
    BY DEF Core, SearchStates, PassageLists
  <1>2. PICK m \in Nat : /\ m = Len(state.given) - Len(state.todo) /\ m + 1 =< Len(state.given)
                         /\ Considered(state) = 1..m /\ p = state.given[m + 1]
                         /\ p \in ListedPassages
    BY <1>1, CandidateNext
  <1>3. p \in AssessedPassages
    BY <1>2, PassageKinds
  <1>4. /\ new \in SearchStates /\ new.todo = Tail(state.todo) /\ new.given = state.given
        /\ new.kept = IF j = "relevant" THEN Append(state.kept, p) ELSE state.kept
        /\ new.remaining = state.remaining /\ new.reserved = state.reserved
        /\ new.calls = state.calls /\ new.memo = [state.memo EXCEPT ![p] = j]
    BY <1>1, <1>3, SettledIs, SettledType
  <1>5. state.memo[p] \in {"none", j} /\ p # EmptyPassage
    OBVIOUS
  <1> HIDE DEF new, p
  <1>6. Remainder(new) /\ Considered(new) = 1..(m + 1)
    <2>1. state \in SearchStates /\ Remainder(state) /\ state.todo # << >>
      BY <1>1
    <2>2. new \in SearchStates /\ new.todo = Tail(state.todo) /\ new.given = state.given
      BY <1>4
    <2>3. m \in Nat /\ m = Len(state.given) - Len(state.todo)
      BY <1>2
    <2> QED
      BY ONLY <2>1, <2>2, <2>3, WentPast
  <1>7. 1..(m + 1) = (1..m) \cup {m + 1} /\ m + 1 \notin 1..m
    BY IntervalGrows
  <1>8. /\ new.memo[p] = j
        /\ \A q \in AssessedPassages : q # p => new.memo[q] = state.memo[q]
    BY <1>1, <1>3, <1>4 DEF Memos
  <1>9. ASSUME NEW i \in 1..m, state.given[i] # EmptyPassage
        PROVE  /\ new.memo[state.given[i]] = state.memo[state.given[i]]
               /\ state.memo[state.given[i]] # "none"
    <2>1. state.memo[state.given[i]] # "none"
      BY <1>1, <1>2, <1>9 DEF JudgedBefore
    <2>2. state.given[i] \in AssessedPassages
      <3>1. i \in 1..Len(state.given)
        BY <1>1, <1>2
      <3>. QED
        BY <1>1, <1>9, <3>1, PassageKinds
    <2>3. CASE state.given[i] = p
      BY <1>5, <1>8, <2>1, <2>3
    <2>4. CASE state.given[i] # p
      BY <1>8, <2>1, <2>2, <2>4
    <2>. QED
      BY <2>1, <2>3, <2>4
  <1>10. j # "none"
    BY DEF Judgements
  <1>11. JudgedBefore(new)
    <2>1. SUFFICES ASSUME NEW i \in 1..(m + 1), state.given[i] # EmptyPassage
                   PROVE  new.memo[state.given[i]] # "none"
      BY <1>4, <1>6 DEF JudgedBefore
    <2>2. CASE i = m + 1
      BY <1>2, <1>8, <1>10, <2>2
    <2>3. CASE i \in 1..m
      BY <1>9, <2>1, <2>3
    <2>. QED
      BY <1>7, <2>1, <2>2, <2>3
  <1>12. Shown(state) \in SUBSET (1..m)
    BY <1>2 DEF Shown
  <1>13. Shown(new) = IF j = "relevant" THEN Shown(state) \cup {m + 1} ELSE Shown(state)
    <2>1. Shown(new) = {i \in 1..(m + 1) : /\ state.given[i] # EmptyPassage
                                           /\ new.memo[state.given[i]] # "irrelevant"}
      BY <1>4, <1>6 DEF Shown
    <2>2. Shown(state) = {i \in 1..m : /\ state.given[i] # EmptyPassage
                                       /\ state.memo[state.given[i]] # "irrelevant"}
      BY <1>2 DEF Shown
    <2>3. \A i \in 1..m : i \in Shown(new) <=> i \in Shown(state)
      BY <1>7, <1>9, <2>1, <2>2
    <2>4. m + 1 \in Shown(new) <=> j # "irrelevant"
      BY <1>2, <1>5, <1>7, <1>8, <2>1
    <2>5. j # "irrelevant" <=> j = "relevant"
      BY DEF Judgements
    <2>6. Shown(new) \subseteq (1..m) \cup {m + 1} /\ Shown(state) \subseteq 1..m
      BY <1>7, <2>1, <2>2
    <2>7. CASE j = "relevant"
      <3>1. m + 1 \in Shown(new)
        BY <2>4, <2>5, <2>7
      <3>2. Shown(new) = Shown(state) \cup {m + 1}
        BY <2>3, <2>6, <3>1
      <3>. QED
        BY <2>7, <3>2
    <2>8. CASE j # "relevant"
      <3>1. m + 1 \notin Shown(new)
        BY <2>4, <2>5, <2>8
      <3>2. Shown(new) = Shown(state)
        BY <2>3, <2>6, <3>1
      <3>. QED
        BY <2>8, <3>2
    <2>. QED
      BY <2>7, <2>8
  <1>15. Kept(state.given, Shown(state) \cup {m + 1}) = Append(state.kept, p)
    BY <1>1, <1>2, <1>12, KeptGrows
  <1>16. new.kept = Kept(new.given, Shown(new))
    BY <1>1, <1>4, <1>13, <1>15
  <1>17. Len(new.kept) =< Limit
    <2>1. Len(state.kept) \in Nat /\ Len(Append(state.kept, p)) = Len(state.kept) + 1
      BY <1>1, <1>2
    <2>. QED
      BY <1>4, <2>1, AssessmentAssumption
  <1>18. Core(new)
    BY <1>4, <1>6, <1>11, <1>16, <1>17 DEF Core
  <1>. QED
    BY <1>18 DEF new

(* A search moves on to another stage. *)
LEMMA MovedIs ==
    ASSUME NEW state \in SearchStates, NEW at \in Stages
    PROVE  /\ [state EXCEPT !.at = at] \in SearchStates
           /\ [state EXCEPT !.at = at].at = at
           /\ [state EXCEPT !.at = at].question = state.question
           /\ [state EXCEPT !.at = at].todo = state.todo
           /\ [state EXCEPT !.at = at].given = state.given
           /\ [state EXCEPT !.at = at].kept = state.kept
           /\ [state EXCEPT !.at = at].remaining = state.remaining
           /\ [state EXCEPT !.at = at].reserved = state.reserved
           /\ [state EXCEPT !.at = at].made = state.made
           /\ [state EXCEPT !.at = at].calls = state.calls
           /\ [state EXCEPT !.at = at].judgement = state.judgement
           /\ [state EXCEPT !.at = at].memo = state.memo
  BY DEF SearchStates

LEMMA MovedCore ==
    ASSUME NEW state, Core(state), NEW at \in Stages
    PROVE  /\ Core([state EXCEPT !.at = at])
           /\ Open(state) => Open([state EXCEPT !.at = at])
  <1> DEFINE new == [state EXCEPT !.at = at]
  <1>1. state \in SearchStates
        /\ state.remaining + state.reserved + state.calls = AssessmentCallLimit
    BY DEF Core
  <1>2. /\ new \in SearchStates /\ new.todo = state.todo /\ new.given = state.given
        /\ new.kept = state.kept /\ new.memo = state.memo
        /\ new.remaining = state.remaining /\ new.reserved = state.reserved
        /\ new.calls = state.calls
    BY <1>1, MovedIs
  <1> HIDE DEF new
  <1>3. Core(new) /\ (Open(state) => Open(new))
    BY <1>1, <1>2, CoreKept
  <1>. QED
    BY <1>3 DEF new

(* What a search may use of the provider's word stays with it. *)
LEMMA ToldKept ==
    ASSUME NEW state, NEW facts, Told(state, facts), NEW new, NEW more, facts \subseteq more,
           new.memo = state.memo, new.question = state.question, new.at # "store"
    PROVE  Told(new, more)
  BY DEF Told

LEMMA ToldGrows ==
    ASSUME NEW state, NEW facts, Told(state, facts), NEW more, facts \subseteq more
    PROVE  Told(state, more)
  BY DEF Told

(* The candidate is in the list. *)
LEMMA OpenCandidate ==
    ASSUME NEW state, Core(state), state.todo # << >>, Head(state.todo) # EmptyPassage
    PROVE  Head(state.todo) \in AssessedPassages
  <1>1. Head(state.todo) \in ListedPassages
    BY CandidateNext DEF Core
  <1>. QED
    BY <1>1, PassageKinds

LEMMA SettledSound ==
    ASSUME NEW state, Core(state), state.todo # << >>, Head(state.todo) # EmptyPassage,
           NEW j \in Judgements, state.memo[Head(state.todo)] \in {"none", j},
           Len(state.kept) < Limit, state.reserved = 0
    PROVE  Sound(Settled(state, j))
  <1>1. Settled(state, j).at = "next" /\ Settled(state, j).reserved = 0
    BY SettledIs DEF Core
  <1>. QED
    BY <1>1, SettledCore DEF Sound, AtStage, Busy

LEMMA SettledTold ==
    ASSUME NEW state, Core(state), state.todo # << >>, Head(state.todo) # EmptyPassage,
           NEW j \in Judgements, NEW facts,
           \A p \in AssessedPassages :
               state.memo[p] = "irrelevant" => \E fact \in facts : Backs(fact, state.question, p),
           j = "irrelevant" =>
               \E fact \in facts : Backs(fact, state.question, Head(state.todo))
    PROVE  Told(Settled(state, j), facts)
  <1> DEFINE new == Settled(state, j)
             c == Head(state.todo)
  <1>1. c \in AssessedPassages /\ state \in SearchStates
    BY OpenCandidate DEF Core
  <1>2. /\ new.at = "next" /\ new.question = state.question
        /\ new.memo = [state.memo EXCEPT ![c] = j]
    BY <1>1, SettledIs
  <1>3. state.memo \in Memos
    BY <1>1 DEF SearchStates
  <1>4. j = "irrelevant" => \E fact \in facts : Backs(fact, state.question, c)
    OBVIOUS
  <1> HIDE DEF new, c
  <1>5. ASSUME NEW p \in AssessedPassages, new.memo[p] = "irrelevant"
        PROVE  \E fact \in facts : Backs(fact, new.question, p)
    <2>1. CASE p = c
      <3>1. new.memo[p] = j
        BY <1>1, <1>2, <1>3, <2>1 DEF Memos
      <3>. QED
        BY <1>2, <1>4, <1>5, <2>1, <3>1
    <2>2. CASE p # c
      <3>1. new.memo[p] = state.memo[p]
        BY <1>2, <1>3, <2>2 DEF Memos
      <3>. QED
        BY <1>2, <1>5, <3>1
    <2>. QED
      BY <2>1, <2>2
  <1>6. Told(new, facts)
    BY <1>2, <1>5 DEF Told
  <1>. QED
    BY <1>6 DEF new

(* One search goes on, and the rows keep to what was said. *)
LEMMA SearchGoesOn ==
    ASSUME AssessmentInv, NEW s \in Queries, NEW new, Sound(new), Told(new, said'),
           said \subseteq said', RowsSaid', search' = [search EXCEPT ![s] = new]
    PROVE  AssessmentInv'
  <1>1. new \in SearchStates
    BY DEF Sound, Core
  <1>2. search' \in [Queries -> SearchStates]
    BY <1>1 DEF AssessmentInv
  <1>3. search'[s] = new /\ \A t \in Queries : t # s => search'[t] = search[t]
    BY DEF AssessmentInv
  <1>4. ASSUME NEW t \in Queries PROVE Sound(search'[t]) /\ Told(search'[t], said')
    <2>1. CASE t = s
      BY <1>3, <2>1
    <2>2. CASE t # s
      <3>1. Sound(search[t]) /\ Told(search[t], said)
        BY DEF AssessmentInv
      <3>2. Told(search[t], said')
        BY <3>1, ToldGrows
      <3>. QED
        BY <1>3, <2>2, <3>1, <3>2
    <2>. QED
      BY <2>1, <2>2
  <1>. QED
    BY <1>2, <1>4 DEF AssessmentInv

LEMMA RowsStay ==
    ASSUME RowsSaid, rows' = rows, said \subseteq said'
    PROVE  RowsSaid'
  BY DEF RowsSaid, RowSaid

-----------------------------------------------------------------------------
(* Steps of a search *)

LEMMA ListsOfPassages ==
    /\ \A list \in CandidateLists : list \in PassageLists
    /\ << >> \in PassageLists
  <1>1. ASSUME NEW list \in CandidateLists PROVE list \in PassageLists
    <2>1. list \in Seq(Range(list))
      BY AssessmentAssumption
    <2>2. Range(list) \subseteq ListedPassages
      BY DEF ListedPassages
    <2>3. \A i \in 1..Len(list) : list[i] \in ListedPassages
      BY <2>1, <2>2
    <2>4. Len(list) \in Nat /\ list = [i \in 1..Len(list) |-> list[i]]
      BY <2>1, LenProperties
    <2>5. [i \in 1..Len(list) |-> list[i]] \in Seq(ListedPassages)
      BY <2>3, <2>4, IsASeq
    <2>. QED
      BY <2>4, <2>5 DEF PassageLists
  <1>2. << >> \in PassageLists
    BY DEF PassageLists
  <1>. QED
    BY <1>1, <1>2

LEMMA NothingKept == \A list : Kept(list, {}) = << >>
  <1>1. Cardinality({}) = 0
    BY FS_EmptySet
  <1>2. ASSUME NEW list PROVE Kept(list, {}) = << >>
    <2> DEFINE P(n) == list[PlaceNumber({}, n)]
    <2>1. Kept(list, {}) = [n \in 1..0 |-> P(n)]
      BY <1>1, KeptIs
    <2> HIDE DEF P
    <2>2. [n \in 1..0 |-> P(n)] = << >>
      OBVIOUS
    <2>. QED
      BY <2>1, <2>2
  <1>. QED
    BY <1>2

LEMMA FreshSound ==
    ASSUME NEW q \in Questions, NEW list \in PassageLists, NEW facts
    PROVE  Sound(Fresh(q, list)) /\ Told(Fresh(q, list), facts)
  <1> DEFINE new == Fresh(q, list)
             nothing == [p \in AssessedPassages |-> "none"]
  <1>1. nothing \in Memos
    BY DEF Memos
  <1>2. /\ new.at = "next" /\ new.todo = list /\ new.given = list /\ new.kept = << >>
        /\ new.remaining = AssessmentCallLimit /\ new.reserved = 0 /\ new.calls = 0
        /\ new.memo = nothing
    BY DEF Fresh
  <1>3. << >> \in PassageLists /\ AssessmentCallLimit \in Nat /\ Limit \in Nat /\ 0 \in Nat
    BY ListsOfPassages, AssessmentAssumption
  <1>4. new \in SearchStates
    <2> HIDE DEF nothing
    <2>. QED
      BY <1>1, <1>3 DEF Fresh, SearchStates, Stages, nothing
  <1>5. Len(list) \in Nat /\ Len(<< >>) = 0
    BY DEF PassageLists
  <1>6. \A p \in AssessedPassages : new.memo[p] = "none"
    BY <1>2
  <1> HIDE DEF new, nothing
  <1>7. Considered(new) = {}
    BY <1>2, <1>5 DEF Considered
  <1>8. Remainder(new) /\ JudgedBefore(new) /\ Shown(new) = {}
    <2>1. Remainder(new)
      BY <1>2, <1>5 DEF Remainder
    <2>. QED
      BY <1>7, <2>1 DEF JudgedBefore, Shown
  <1>9. new.kept = Kept(new.given, Shown(new)) /\ Len(new.kept) =< Limit
    BY <1>2, <1>3, <1>5, <1>8, NothingKept
  <1>10. Core(new)
    BY <1>2, <1>3, <1>4, <1>8, <1>9 DEF Core
  <1>11. Sound(new) /\ Told(new, facts)
    BY <1>2, <1>6, <1>10 DEF Sound, AtStage, Told, Busy
  <1>. QED
    BY <1>11 DEF new

(* No search, or none any more. *)
LEMMA NoSearchSound ==
    ASSUME NEW at \in {"idle", "failed"}, NEW facts
    PROVE  /\ Sound([Fresh(NoQuestion, << >>) EXCEPT !.at = at])
           /\ Told([Fresh(NoQuestion, << >>) EXCEPT !.at = at], facts)
  <1> DEFINE state == Fresh(NoQuestion, << >>)
             new == [state EXCEPT !.at = at]
  <1>1. NoQuestion \in Questions
    BY AssessmentAssumption, Zenon DEF NoQuestion
  <1>2. Sound(state) /\ Told(state, facts)
    BY <1>1, ListsOfPassages, FreshSound
  <1>3. state.reserved = 0
    BY DEF Fresh
  <1> HIDE DEF state
  <1>4. Core(state) /\ state \in SearchStates
    BY <1>2 DEF Sound, Core
  <1>5. at \in Stages
    BY DEF Stages
  <1>6. /\ new.at = at /\ new.reserved = 0 /\ new.memo = state.memo
        /\ new.question = state.question
    BY <1>3, <1>4, <1>5, MovedIs
  <1>7. Core(new)
    BY <1>4, <1>5, MovedCore
  <1> HIDE DEF new
  <1>8. Sound(new)
    BY <1>6, <1>7 DEF Sound, AtStage, Busy
  <1>9. Told(new, facts)
    BY <1>2, <1>6, ToldKept
  <1>. QED
    BY <1>8, <1>9 DEF new, state

LEMMA StartAssessmentHolds ==
    ASSUME AssessmentInv, NEW s \in Queries, StartAssessment(s)
    PROVE  AssessmentInv'
  <1>1. PICK q \in Questions, list \in CandidateLists :
            search' = [search EXCEPT ![s] = Fresh(q, list)] /\ rows' = rows /\ said' = said
    BY DEF StartAssessment, Becomes
  <1>2. Sound(Fresh(q, list)) /\ Told(Fresh(q, list), said')
    BY ListsOfPassages, FreshSound
  <1>3. RowsSaid'
    BY <1>1, RowsStay DEF AssessmentInv
  <1>. QED
    BY <1>1, <1>2, <1>3, SearchGoesOn

LEMMA AbandonedHolds ==
    ASSUME AssessmentInv, NEW s \in Queries, Becomes(s, Abandoned), rows' = rows,
           said \subseteq said'
    PROVE  AssessmentInv'
  <1>1. Sound(Abandoned) /\ Told(Abandoned, said')
    BY NoSearchSound DEF Abandoned
  <1>2. RowsSaid'
    BY RowsStay DEF AssessmentInv
  <1>. QED
    BY <1>1, <1>2, SearchGoesOn DEF Becomes

(* A search whose stage alone changes. *)
LEMMA MovedHolds ==
    ASSUME AssessmentInv, NEW s \in Queries, NEW at \in Stages \ {"store"},
           Becomes(s, [search[s] EXCEPT !.at = at]), RowsSaid', said \subseteq said',
           AtStage([search[s] EXCEPT !.at = at])
    PROVE  AssessmentInv'
  <1> DEFINE state == search[s]
             new == [state EXCEPT !.at = at]
  <1>1. Sound(state) /\ Told(state, said) /\ state \in SearchStates
    BY DEF AssessmentInv
  <1>2. Core(state)
    BY <1>1 DEF Sound
  <1>3. search' = [search EXCEPT ![s] = new] /\ AtStage(new)
    BY DEF Becomes
  <1> HIDE DEF state
  <1>4. Core(new) /\ new.at = at /\ new.memo = state.memo /\ new.question = state.question
    BY <1>1, <1>2, MovedCore, MovedIs
  <1> HIDE DEF new
  <1>5. Sound(new) /\ Told(new, said')
    BY <1>1, <1>3, <1>4, ToldKept DEF Sound
  <1>. QED
    BY <1>3, <1>5, SearchGoesOn

(* The candidate of a search is settled by a judgement that is backed. *)
LEMMA SettledHolds ==
    ASSUME AssessmentInv, NEW s \in Queries, NEW state, Core(state), state.todo # << >>,
           Head(state.todo) # EmptyPassage, NEW j \in Judgements,
           state.memo[Head(state.todo)] \in {"none", j}, Len(state.kept) < Limit,
           state.reserved = 0, state.memo = search[s].memo, state.question = search[s].question,
           j = "irrelevant" =>
               \E fact \in said' : Backs(fact, state.question, Head(state.todo)),
           Becomes(s, Settled(state, j)), RowsSaid', said \subseteq said'
    PROVE  AssessmentInv'
  <1>1. Told(search[s], said)
    BY DEF AssessmentInv
  <1>2. \A p \in AssessedPassages :
            state.memo[p] = "irrelevant" => \E fact \in said' : Backs(fact, state.question, p)
    BY <1>1 DEF Told
  <1>3. Sound(Settled(state, j)) /\ Told(Settled(state, j), said')
    BY <1>2, SettledSound, SettledTold
  <1>. QED
    BY <1>3, SearchGoesOn DEF Becomes

LEMMA NextCandidateHolds ==
    ASSUME AssessmentInv, NEW s \in Queries, NextCandidate(s)
    PROVE  AssessmentInv'
  <1> DEFINE state == search[s]
             c == Head(search[s].todo)
  <1>1. /\ Sound(state) /\ Told(state, said) /\ state \in SearchStates /\ Core(state)
        /\ state.reserved = 0
    BY DEF AssessmentInv, Sound, AtStage, NextCandidate
  <1>2. state.at = "next" /\ rows' = rows /\ said' = said
    BY DEF NextCandidate
  <1>3. RowsSaid'
    BY <1>2, RowsStay DEF AssessmentInv
  <1>4. /\ Len(state.kept) \in Nat /\ Limit \in Nat /\ Len(state.kept) =< Limit
        /\ state.memo \in Memos
    BY <1>1, AssessmentAssumption DEF SearchStates, PassageLists, Core
  <1>5. CASE Finished(s)
    <2> DEFINE new == [search[s] EXCEPT !.at = "done"]
    <2>1. Becomes(s, new)
      BY <1>5 DEF NextCandidate
    <2>2. "done" \in Stages \ {"store"}
      BY DEF Stages
    <2>3. /\ new.at = "done" /\ new.todo = state.todo /\ new.kept = state.kept
          /\ new.reserved = state.reserved
      BY <1>1, <2>2, MovedIs
    <2>4. state.todo = << >> \/ Len(state.kept) = Limit
      BY <1>4, <1>5 DEF Finished
    <2>5. AtStage(new)
      <3> HIDE DEF new, state
      <3>. QED
        BY <1>1, <2>3, <2>4 DEF AtStage, Busy
    <2>. QED
      BY <1>2, <1>3, <2>1, <2>2, <2>5, MovedHolds
  <1>6. CASE ~ Finished(s) /\ c = EmptyPassage
    <2>1. Becomes(s, Skipped(state)) /\ state.todo # << >>
      BY <1>6 DEF NextCandidate, Finished, Passage
    <2> DEFINE new == Skipped(state)
    <2>2. Core(new)
      BY <1>1, <1>6, <2>1, SkippedCore
    <2>3. /\ new.at = "next" /\ new.reserved = 0 /\ new.memo = state.memo
          /\ new.question = state.question
      BY <1>1, <1>2, <2>1, SkippedIs
    <2>4. search' = [search EXCEPT ![s] = new]
      BY <2>1 DEF Becomes
    <2> HIDE DEF new, state
    <2>5. Sound(new) /\ Told(new, said')
      BY <1>1, <1>2, <2>2, <2>3, ToldKept DEF Sound, AtStage, Busy
    <2>. QED
      BY <1>2, <1>3, <2>4, <2>5, SearchGoesOn
  <1>7. ASSUME ~ Finished(s), c # EmptyPassage
        PROVE  /\ state.todo # << >> /\ Len(state.kept) < Limit /\ c \in AssessedPassages
               /\ state.memo[c] \in {"none"} \cup Judgements
    <2>1. state.todo # << >> /\ Len(state.kept) < Limit
      BY <1>4, <1>7 DEF Finished
    <2>2. c \in AssessedPassages
      BY <1>1, <1>7, <2>1, OpenCandidate
    <2>. QED
      BY <1>4, <2>1, <2>2 DEF Memos
  <1>8. CASE ~ Finished(s) /\ c # EmptyPassage /\ state.memo[c] # "none"
    <2> DEFINE j == search[s].memo[Head(search[s].todo)]
    <2>1. Becomes(s, Settled(state, j)) /\ j \in Judgements
      BY <1>7, <1>8 DEF NextCandidate, Passage
    <2>2. j = "irrelevant" => \E fact \in said' : Backs(fact, state.question, c)
      BY <1>1, <1>2, <1>7, <1>8 DEF Told
    <2>. QED
      BY <1>1, <1>2, <1>3, <1>7, <1>8, <2>1, <2>2, SettledHolds
  <1>9. CASE ~ Finished(s) /\ c # EmptyPassage /\ state.memo[c] = "none"
    <2>1. PICK at \in {"lookup", "reserve"} : Becomes(s, [search[s] EXCEPT !.at = at])
      BY <1>9 DEF NextCandidate, Passage
    <2> DEFINE new == [search[s] EXCEPT !.at = at]
    <2>2. at \in Stages \ {"store"}
      BY DEF Stages
    <2>3. Open(state)
      BY <1>7, <1>9 DEF Open
    <2>4. new.at = at /\ new.reserved = 0 /\ Open(new)
      BY <1>1, <2>2, <2>3, MovedIs, MovedCore
    <2>5. AtStage(new)
      <3> HIDE DEF new, state
      <3>. QED
        BY <2>4 DEF AtStage, Busy
    <2>. QED
      BY <1>2, <1>3, <2>1, <2>2, <2>5, MovedHolds
  <1>. QED
    BY <1>5, <1>6, <1>8, <1>9

(* A candidate is under assessment, with nothing reserved. *)
LEMMA UnderAssessment ==
    ASSUME AssessmentInv, NEW s \in Queries, search[s].at \in Busy
    PROVE  /\ search[s] \in SearchStates /\ Core(search[s]) /\ Open(search[s])
           /\ Told(search[s], said) /\ AtStage(search[s])
           /\ Head(search[s].todo) \in AssessedPassages
           /\ search[s].at \notin {"attempt", "wait"} => search[s].reserved = 0
  <1>1. /\ search[s] \in SearchStates /\ Core(search[s]) /\ Open(search[s])
        /\ Told(search[s], said) /\ AtStage(search[s])
    BY DEF AssessmentInv, Sound, AtStage
  <1>2. search[s].at \notin {"attempt", "wait"} => search[s].reserved = 0
    BY <1>1 DEF AtStage
  <1>3. Head(search[s].todo) \in AssessedPassages
    BY <1>1, OpenCandidate DEF Open
  <1>. QED
    BY <1>1, <1>2, <1>3

LEMMA ToReserve ==
    ASSUME AssessmentInv, NEW s \in Queries, search[s].at = "lookup",
           Becomes(s, [search[s] EXCEPT !.at = "reserve"]), rows' = rows, said' = said
    PROVE  AssessmentInv'
  <1> DEFINE new == [search[s] EXCEPT !.at = "reserve"]
  <1>1. "reserve" \in Stages \ {"store"} /\ search[s].at \in Busy
    BY DEF Stages, Busy
  <1>2. search[s] \in SearchStates /\ Core(search[s]) /\ Open(search[s]) /\ search[s].reserved = 0
    BY <1>1, UnderAssessment
  <1>3. new.at = "reserve" /\ new.reserved = 0 /\ Open(new)
    BY <1>1, <1>2, MovedIs, MovedCore
  <1>4. AtStage(new)
    <2> HIDE DEF new
    <2>. QED
      BY <1>3 DEF AtStage, Busy
  <1>5. RowsSaid'
    BY RowsStay DEF AssessmentInv
  <1>. QED
    BY <1>1, <1>4, <1>5, MovedHolds

-----------------------------------------------------------------------------
(* The cache *)

SaidRows(list, facts) == list \in Seq(CacheRows) /\ \A i \in 1..Len(list) : RowSaid(list[i], facts)

LEMMA KeptSaid ==
    ASSUME NEW list, NEW facts, SaidRows(list, facts), NEW places \in SUBSET (1..Len(list))
    PROVE  SaidRows(Kept(list, places), facts)
  <1>1. list \in Seq(CacheRows)
    BY DEF SaidRows
  <1>2. /\ Kept(list, places) \in Seq(CacheRows)
        /\ \A n \in 1..Len(Kept(list, places)) :
               \E i \in places : Kept(list, places)[n] = list[i]
    BY <1>1, KeptPlaces
  <1>3. \A i \in places : RowSaid(list[i], facts)
    BY DEF SaidRows
  <1>. QED
    BY <1>2, <1>3 DEF SaidRows

LEMMA AppendedSaid ==
    ASSUME NEW list, NEW facts, SaidRows(list, facts), NEW row \in CacheRows, RowSaid(row, facts)
    PROVE  SaidRows(Append(list, row), facts)
  <1>1. list \in Seq(CacheRows) /\ Len(list) \in Nat
    BY DEF SaidRows
  <1>2. /\ Append(list, row) \in Seq(CacheRows) /\ Len(Append(list, row)) = Len(list) + 1
        /\ \A i \in 1..Len(list) : Append(list, row)[i] = list[i]
        /\ Append(list, row)[Len(list) + 1] = row
    BY <1>1, AppendProperties
  <1>3. ASSUME NEW i \in 1..(Len(list) + 1) PROVE RowSaid(Append(list, row)[i], facts)
    <2>1. i \in 1..Len(list) \/ i = Len(list) + 1
      BY <1>1
    <2>2. \A k \in 1..Len(list) : RowSaid(list[k], facts)
      BY DEF SaidRows
    <2>. QED
      BY <1>2, <2>1, <2>2
  <1>. QED
    BY <1>2, <1>3 DEF SaidRows

LEMMA RowsAreSaid ==
    ASSUME RowsSaid
    PROVE  SaidRows(rows, said) /\ DOMAIN rows = 1..Len(rows) /\ Len(rows) \in Nat
  BY DEF RowsSaid, SaidRows

(* A row that is found was told by the provider, to this question or to    *)
(* one that differs in wording only.                                       *)
LEMMA HitBacked ==
    ASSUME RowsSaid, NEW s \in Queries, search[s].question \in Questions, Hit(s) # 0
    PROVE  /\ Hit(s) \in 1..Len(rows)
           /\ ~ rows[Hit(s)].relevant =>
                  \E fact \in said : Backs(fact, search[s].question, Passage(s))
  <1> DEFINE q == search[s].question
             c == Passage(s)
             h == Hit(s)
  <1>1. SaidRows(rows, said) /\ DOMAIN rows = 1..Len(rows) /\ Len(rows) \in Nat
    BY RowsAreSaid
  <1>2. Exact(s) \in SUBSET (1..Len(rows)) /\ NegativeHits(s) \in SUBSET (1..Len(rows))
    BY <1>1 DEF Exact, NegativeHits, NegativeCandidates, LastAccessed
  <1>3. h \in Exact(s) \/ h \in NegativeHits(s)
    <2>1. CASE Exact(s) # {}
      BY <1>1, <1>2, <2>1, MaxPlace DEF Hit
    <2>2. CASE Exact(s) = {} /\ NegativeHits(s) # {}
      BY <1>1, <1>2, <2>2, MaxPlace DEF Hit
    <2>3. CASE Exact(s) = {} /\ NegativeHits(s) = {}
      BY <2>3 DEF Hit
    <2>. QED
      BY <2>1, <2>2, <2>3
  <1>4. h \in 1..Len(rows) /\ RowSaid(rows[h], said) /\ rows[h] \in CacheRows
    BY <1>1, <1>2, <1>3 DEF SaidRows
  <1>5. ASSUME ~ rows[h].relevant PROVE \E fact \in said : Backs(fact, q, c)
    <2> DEFINE fact == << rows[h].question, rows[h].passage, "irrelevant" >>
    <2>1. fact \in said
      BY <1>4, <1>5 DEF RowSaid
    <2>2. fact[1] = rows[h].question /\ fact[2] = rows[h].passage /\ fact[3] = "irrelevant"
      OBVIOUS
    <2> HIDE DEF fact, h
    <2>3. CASE h \in Exact(s)
      <3>1. rows[h].question = q /\ rows[h].passage = c
        BY <2>3 DEF Exact
      <3>2. Backs(fact, q, c)
        BY <2>2, <3>1 DEF Backs
      <3>. QED
        BY <2>1, <3>2
    <2>4. CASE h \in NegativeHits(s)
      <3>1. /\ rows[h].passage = c /\ rows[h].question.topics = q.topics
            /\ rows[h].question.guards = q.guards
            /\ Distance(q, rows[h].question) <= NegativeReach
        BY <2>4 DEF NegativeHits, NegativeCandidates, LastAccessed, NegativeCompatible
      <3>2. q.embedding \in Nat /\ rows[h].question.embedding \in Nat
        BY <1>4, AssessmentAssumption DEF CacheRows
      <3>3. Distance(rows[h].question, q) = Distance(q, rows[h].question)
        BY <3>2 DEF Distance
      <3>4. Backs(fact, q, c)
        BY <2>2, <3>1, <3>3 DEF Backs
      <3>. QED
        BY <2>1, <3>4
    <2>. QED
      BY <1>3, <2>3, <2>4
  <1>. QED
    BY <1>4, <1>5

LEMMA TouchedSaid ==
    ASSUME RowsSaid, NEW i \in 1..Len(rows)
    PROVE  SaidRows(Touched(i), said)
  <1>1. SaidRows(rows, said) /\ DOMAIN rows = 1..Len(rows)
    BY RowsAreSaid
  <1>2. rows[i] \in CacheRows /\ RowSaid(rows[i], said)
    BY <1>1 DEF SaidRows
  <1> DEFINE hits == Min({rows[i].hits + 1, HitBound})
             row == [rows[i] EXCEPT !.hits = hits]
  <1>3. hits \in Nat
    <2>1. rows[i].hits + 1 \in Nat /\ HitBound \in Nat
      BY <1>2, AssessmentAssumption DEF CacheRows
    <2>. QED
      BY <2>1, MinOfTwo
  <1>4. Touched(i) = Append(Kept(rows, DOMAIN rows \ {i}), row)
    BY DEF Touched
  <1> HIDE DEF hits
  <1>5. row \in CacheRows /\ row.question = rows[i].question /\ row.passage = rows[i].passage
        /\ row.relevant = rows[i].relevant
    BY <1>2, <1>3 DEF CacheRows
  <1> HIDE DEF row
  <1>6. RowSaid(row, said)
    BY <1>2, <1>5 DEF RowSaid
  <1>7. SaidRows(Kept(rows, DOMAIN rows \ {i}), said)
    BY <1>1, KeptSaid
  <1>. QED
    BY <1>4, <1>5, <1>6, <1>7, AppendedSaid

LEMMA CacheLookupHolds ==
    ASSUME AssessmentInv, NEW s \in Queries, Lookup(s)
    PROVE  AssessmentInv'
  <1>1. search[s].at = "lookup" /\ said' = said /\ search[s].at \in Busy /\ RowsSaid
    BY DEF Lookup, Busy, AssessmentInv
  <1>2. CASE Hit(s) = 0
    BY <1>1, <1>2, ToReserve DEF Lookup
  <1>3. CASE Hit(s) # 0
    <2> DEFINE state == search[s]
               j == IF rows[Hit(s)].relevant THEN "relevant" ELSE "irrelevant"
    <2>1. Becomes(s, Settled(search[s], j)) /\ rows' = Touched(Hit(s))
      BY <1>3 DEF Lookup
    <2>2. /\ search[s] \in SearchStates /\ Core(search[s]) /\ Open(search[s])
          /\ search[s].reserved = 0
      BY <1>1, UnderAssessment
    <2>3. search[s].question \in Questions
      BY <2>2 DEF SearchStates
    <2>4. /\ Hit(s) \in 1..Len(rows)
          /\ ~ rows[Hit(s)].relevant =>
                 \E fact \in said : Backs(fact, search[s].question, Head(search[s].todo))
      BY <1>1, <1>3, <2>3, HitBacked DEF Passage
    <2>5. SaidRows(rows', said')
      BY <1>1, <2>1, <2>4, TouchedSaid
    <2>6. RowsSaid'
      BY <2>5 DEF RowsSaid, SaidRows
    <2>7. j \in Judgements /\ (j = "irrelevant" => ~ rows[Hit(s)].relevant)
      BY DEF Judgements
    <2> HIDE DEF j
    <2>8. j = "irrelevant" =>
              \E fact \in said' : Backs(fact, search[s].question, Head(search[s].todo))
      BY <1>1, <2>4, <2>7
    <2>. QED
      BY <1>1, <2>1, <2>2, <2>6, <2>7, <2>8, SettledHolds DEF Open
  <1>. QED
    BY <1>2, <1>3

(* An upsert stores the judgement, and evicts whole rows. *)
LEMMA UpsertedSaid ==
    ASSUME RowsSaid, NEW s \in Queries, search[s].question \in Questions,
           Passage(s) \in AssessedPassages, search[s].judgement \in Judgements,
           << search[s].question, Passage(s), search[s].judgement >> \in said
    PROVE  SaidRows(Upserted(s), said)
  <1> DEFINE old == {i \in DOMAIN rows : rows[i].question = search[s].question /\ rows[i].passage = Passage(s)}
             hits == IF old = {} THEN 0 ELSE rows[Max(old)].hits
             row == Row(search[s].question, Passage(s), search[s].judgement = "relevant", hits)
             list == Append(Kept(rows, DOMAIN rows \ old), row)
             better(i) == {j \in DOMAIN list : \/ list[j].hits > list[i].hits
                                               \/ list[j].hits = list[i].hits /\ j > i}
             keep == {i \in DOMAIN list : Cardinality(better(i)) < MaximumEntries}
  <1>1. SaidRows(rows, said) /\ DOMAIN rows = 1..Len(rows) /\ Len(rows) \in Nat
    BY RowsAreSaid
  <1>2. old \in SUBSET (1..Len(rows)) /\ DOMAIN rows \ old \in SUBSET (1..Len(rows))
    BY <1>1
  <1>3. Upserted(s) = Kept(list, keep)
    BY Zenon DEF Upserted
  <1>4. hits \in Nat
    <2> HIDE DEF old
    <2>1. CASE old = {}
      BY <2>1
    <2>2. CASE old # {}
      <3>1. Max(old) \in 1..Len(rows)
        BY <1>1, <1>2, <2>2, MaxPlace
      <3>2. rows[Max(old)] \in CacheRows
        BY <1>1, <3>1 DEF SaidRows
      <3>. QED
        BY <2>2, <3>2 DEF CacheRows
    <2>. QED
      BY <2>1, <2>2
  <1>5. SaidRows(Kept(rows, DOMAIN rows \ old), said)
    <2> HIDE DEF old
    <2>. QED
      BY <1>1, <1>2, KeptSaid
  <1> HIDE DEF hits, old
  <1>6. row \in CacheRows /\ RowSaid(row, said)
    <2>1. /\ row.question = search[s].question /\ row.passage = Passage(s)
          /\ row.relevant = (search[s].judgement = "relevant")
      BY DEF Row
    <2>2. row \in CacheRows
      BY <1>4 DEF Row, CacheRows
    <2> HIDE DEF row
    <2>3. (IF row.relevant THEN "relevant" ELSE "irrelevant") = search[s].judgement
      BY <2>1 DEF Judgements
    <2>. QED
      BY <2>1, <2>2, <2>3 DEF RowSaid
  <1> HIDE DEF row
  <1>7. SaidRows(list, said)
    BY <1>5, <1>6, AppendedSaid
  <1>8. keep \in SUBSET (1..Len(list))
    <2>1. DOMAIN list = 1..Len(list)
      <3> HIDE DEF list
      <3>. QED
        BY <1>7 DEF SaidRows
    <2> HIDE DEF list, better
    <2>. QED
      BY <2>1
  <1> HIDE DEF list, keep
  <1>. QED
    BY <1>3, <1>7, <1>8, KeptSaid

LEMMA StoreHolds ==
    ASSUME AssessmentInv, NEW s \in Queries, Store(s)
    PROVE  AssessmentInv'
  <1>1. /\ search[s].at = "store" /\ search[s].at \in Busy /\ said' = said /\ RowsSaid
        /\ Becomes(s, Settled(search[s], search[s].judgement))
        /\ rows' \in {Upserted(s), rows}
    BY DEF Store, Busy, AssessmentInv
  <1>2. /\ search[s] \in SearchStates /\ Core(search[s]) /\ Open(search[s])
        /\ Told(search[s], said) /\ search[s].reserved = 0
        /\ Head(search[s].todo) \in AssessedPassages /\ AtStage(search[s])
    BY <1>1, UnderAssessment
  <1>3. /\ search[s].judgement \in Judgements /\ search[s].question \in Questions
        /\ << search[s].question, Head(search[s].todo), search[s].judgement >> \in said
    BY <1>1, <1>2 DEF AtStage, Told, SearchStates
  <1>4. RowsSaid'
    <2>1. SaidRows(Upserted(s), said)
      BY <1>1, <1>2, <1>3, UpsertedSaid DEF Passage
    <2>2. SaidRows(rows, said)
      BY <1>1, RowsAreSaid
    <2>3. SaidRows(rows', said')
      BY <1>1, <2>1, <2>2
    <2>. QED
      BY <2>3 DEF RowsSaid, SaidRows
  <1>5. search[s].judgement = "irrelevant" =>
            \E fact \in said' : Backs(fact, search[s].question, Head(search[s].todo))
    <2> DEFINE fact == << search[s].question, Head(search[s].todo), search[s].judgement >>
    <2>1. fact[1] = search[s].question /\ fact[2] = Head(search[s].todo)
          /\ fact[3] = search[s].judgement /\ fact \in said'
      BY <1>1, <1>3
    <2> HIDE DEF fact
    <2>. QED
      BY <2>1 DEF Backs
  <1>. QED
    BY <1>1, <1>2, <1>3, <1>4, <1>5, SettledHolds DEF Open

(* The rows alone change. *)
LEMMA RowsChange ==
    ASSUME AssessmentInv, SaidRows(rows', said), UNCHANGED << search, said >>
    PROVE  AssessmentInv'
  <1>1. RowsSaid'
    BY DEF RowsSaid, SaidRows
  <1>2. /\ (search \in [Queries -> SearchStates])'
        /\ (\A s \in Queries : Sound(search[s]) /\ Told(search[s], said))'
    BY DEF AssessmentInv
  <1>. QED
    BY <1>1, <1>2 DEF AssessmentInv

LEMMA ExpireHolds ==
    ASSUME AssessmentInv, Expire
    PROVE  AssessmentInv'
  <1>1. SaidRows(rows, said) /\ DOMAIN rows = 1..Len(rows) /\ Len(rows) \in Nat
    BY RowsAreSaid DEF AssessmentInv
  <1>2. PICK i \in DOMAIN rows : rows' = [rows EXCEPT ![i].fresh = FALSE]
    BY DEF Expire
  <1> DEFINE row == [rows[i] EXCEPT !.fresh = FALSE]
  <1>3. rows' = [rows EXCEPT ![i] = row]
    BY <1>2
  <1>4. rows[i] \in CacheRows /\ RowSaid(rows[i], said) /\ rows \in Seq(CacheRows)
    BY <1>1, <1>2 DEF SaidRows
  <1>5. row \in CacheRows /\ row.question = rows[i].question /\ row.passage = rows[i].passage
        /\ row.relevant = rows[i].relevant
    BY <1>4 DEF CacheRows
  <1> HIDE DEF row
  <1>6. RowSaid(row, said)
    BY <1>4, <1>5 DEF RowSaid
  <1>7. /\ rows' \in Seq(CacheRows) /\ Len(rows') = Len(rows)
        /\ \A k \in 1..Len(rows) : rows'[k] = IF k = i THEN row ELSE rows[k]
    <2>1. i \in 1..Len(rows)
      BY <1>1
    <2>. QED
      BY <1>3, <1>4, <1>5, <2>1, ExceptSeq
  <1>8. SaidRows(rows', said)
    BY <1>1, <1>6, <1>7 DEF SaidRows
  <1>. QED
    BY <1>8, RowsChange DEF Expire

LEMMA DeleteExpiredHolds ==
    ASSUME AssessmentInv, DeleteExpiredAssessmentCache
    PROVE  AssessmentInv'
  <1>1. SaidRows(rows, said) /\ DOMAIN rows = 1..Len(rows)
    BY RowsAreSaid DEF AssessmentInv
  <1>2. PICK expired : rows' = Kept(rows, DOMAIN rows \ expired)
    BY DEF DeleteExpiredAssessmentCache
  <1>3. SaidRows(rows', said)
    BY <1>1, <1>2, KeptSaid
  <1>. QED
    BY <1>3, RowsChange DEF DeleteExpiredAssessmentCache

-----------------------------------------------------------------------------
(* The provider *)

LEMMA ReturnedCore ==
    ASSUME NEW state, Core(state), NEW made \in Nat, made =< state.reserved
    PROVE  Core(Returned(state, made)) /\ (Open(state) => Open(Returned(state, made)))
  <1> DEFINE new == Returned(state, made)
  <1>1. /\ state \in SearchStates
        /\ state.remaining + state.reserved + state.calls = AssessmentCallLimit
    BY DEF Core
  <1>2. /\ new \in SearchStates /\ new.todo = state.todo /\ new.given = state.given
        /\ new.kept = state.kept /\ new.memo = state.memo
        /\ new.remaining = state.remaining + state.reserved - made /\ new.reserved = 0
        /\ new.calls = state.calls + made
    BY <1>1, ReturnedIs
  <1>3. state.remaining \in Nat /\ state.reserved \in Nat /\ state.calls \in Nat
    BY <1>1 DEF SearchStates
  <1> HIDE DEF new
  <1>4. new.remaining + new.reserved + new.calls = AssessmentCallLimit
    BY <1>1, <1>2, <1>3
  <1>5. Core(new) /\ (Open(state) => Open(new))
    BY <1>2, <1>4, CoreKept
  <1>. QED
    BY <1>5 DEF new

(* The provider failed: the candidate counts as relevant, nothing is hidden. *)
LEMMA ProviderFailedHolds ==
    ASSUME AssessmentInv, NEW s \in Queries, search[s].at \in Busy,
           NEW made \in Nat, made =< search[s].reserved, ProviderFailed(s, made),
           rows' = rows, said' = said
    PROVE  AssessmentInv'
  <1>1. /\ search[s] \in SearchStates /\ Core(search[s]) /\ Open(search[s])
    BY UnderAssessment
  <1>2. RowsSaid'
    BY RowsStay DEF AssessmentInv
  <1>3. CASE Becomes(s, Abandoned)
    BY <1>3, AbandonedHolds
  <1>4. CASE Becomes(s, LocalAssessment(s, made))
    <2> DEFINE given == Returned(search[s], made)
               state == [given EXCEPT !.providerFailed = TRUE]
    <2>1. /\ given \in SearchStates /\ Core(given) /\ Open(given) /\ given.reserved = 0
          /\ given.question = search[s].question /\ given.memo = search[s].memo
      BY <1>1, ReturnedCore, ReturnedIs
    <2>2. Becomes(s, Settled(state, "relevant"))
      BY <1>4 DEF LocalAssessment
    <2> HIDE DEF given
    <2>3. /\ state \in SearchStates /\ state.todo = given.todo /\ state.given = given.given
          /\ state.kept = given.kept /\ state.memo = given.memo /\ state.question = given.question
          /\ state.remaining = given.remaining /\ state.reserved = given.reserved
          /\ state.calls = given.calls
      BY <2>1 DEF SearchStates
    <2> HIDE DEF state
    <2>4. given.remaining + given.reserved + given.calls = AssessmentCallLimit
      BY <2>1 DEF Core
    <2>5. Core(state) /\ Open(state)
      BY <2>1, <2>3, <2>4, CoreKept
    <2>6. "relevant" \in Judgements
      BY DEF Judgements
    <2>. QED
      BY <1>2, <2>1, <2>2, <2>3, <2>5, <2>6, SettledHolds DEF Open
  <1>. QED
    BY <1>3, <1>4 DEF ProviderFailed

LEMMA ReserveHolds ==
    ASSUME AssessmentInv, NEW s \in Queries, Reserve(s)
    PROVE  AssessmentInv'
  <1> DEFINE n == Min({search[s].remaining, MaximumAttemptsPerAssessment})
             new == [search[s] EXCEPT !.at = "attempt", !.remaining = @ - n, !.reserved = n,
                                      !.made = 0]
  <1>1. search[s].at = "reserve" /\ search[s].at \in Busy /\ rows' = rows /\ said' = said
    BY DEF Reserve, Busy
  <1>2. /\ search[s] \in SearchStates /\ Core(search[s]) /\ Open(search[s])
        /\ Told(search[s], said) /\ search[s].reserved = 0
    BY <1>1, UnderAssessment
  <1>3. RowsSaid'
    BY <1>1, RowsStay DEF AssessmentInv
  <1>4. CASE ~ search[s].providerFailed /\ search[s].remaining > 0
    <2>1. search' = [search EXCEPT ![s] = new]
      BY <1>4 DEF Reserve, Becomes
    <2>2. search[s].remaining \in Nat /\ search[s].calls \in Nat
      BY <1>2 DEF SearchStates
    <2>3. n \in Nat /\ 0 < n /\ n =< search[s].remaining
      <3>1. MaximumAttemptsPerAssessment \in Nat /\ 0 < MaximumAttemptsPerAssessment
        BY AssessmentAssumption DEF MaximumAttemptsPerAssessment
      <3>2. n = IF search[s].remaining =< MaximumAttemptsPerAssessment
                THEN search[s].remaining ELSE MaximumAttemptsPerAssessment
        BY <2>2, <3>1, MinOfTwo
      <3> HIDE DEF n
      <3>. QED
        BY <1>4, <2>2, <3>1, <3>2
    <2> HIDE DEF n
    <2>4. search[s].remaining - n \in Nat
      BY <2>2, <2>3
    <2>5. /\ new.at = "attempt" /\ new.todo = search[s].todo /\ new.given = search[s].given
          /\ new.kept = search[s].kept /\ new.memo = search[s].memo
          /\ new.question = search[s].question
          /\ new.remaining = search[s].remaining - n /\ new.reserved = n /\ new.made = 0
          /\ new.calls = search[s].calls
      BY <1>2 DEF SearchStates
    <2>6. new \in SearchStates
      BY <1>2, <2>3, <2>4 DEF SearchStates, Stages
    <2> HIDE DEF new
    <2>7. new.remaining + new.reserved + new.calls = AssessmentCallLimit
      <3>1. search[s].remaining + 0 + search[s].calls = AssessmentCallLimit
        BY <1>2 DEF Core
      <3>. QED
        BY <2>2, <2>3, <2>5, <3>1
    <2>8. Core(new) /\ Open(new)
      BY <1>2, <2>5, <2>6, <2>7, CoreKept
    <2>9. Sound(new)
      BY <2>3, <2>5, <2>8 DEF Sound, AtStage, Busy
    <2>10. Told(new, said')
      BY <1>1, <1>2, <2>5, ToldKept
    <2>. QED
      BY <1>1, <1>3, <2>1, <2>9, <2>10, SearchGoesOn
  <1>5. CASE ~ (~ search[s].providerFailed /\ search[s].remaining > 0)
    <2>1. Becomes(s, Settled(search[s], "relevant"))
      BY <1>5 DEF Reserve
    <2>2. "relevant" \in Judgements
      BY DEF Judgements
    <2>. QED
      BY <1>1, <1>2, <1>3, <2>1, <2>2, SettledHolds DEF Open
  <1>. QED
    BY <1>4, <1>5

LEMMA JudgedHolds ==
    ASSUME AssessmentInv, NEW s \in Queries, search[s].at \in Busy,
           NEW made \in Nat, made =< search[s].reserved, NEW j \in Judgements,
           Becomes(s, Judged(s, made, j)), rows' = rows,
           said' = said \cup {<< search[s].question, Passage(s), j >>}
    PROVE  AssessmentInv'
  <1> DEFINE given == Returned(search[s], made)
             fact == << search[s].question, Head(search[s].todo), j >>
  <1>1. search[s] \in SearchStates /\ Core(search[s]) /\ Open(search[s]) /\ Told(search[s], said)
    BY UnderAssessment
  <1>2. said \subseteq said' /\ fact \in said'
    BY DEF Passage
  <1>3. RowsSaid'
    BY <1>2, RowsStay DEF AssessmentInv
  <1>4. /\ given \in SearchStates /\ Core(given) /\ Open(given) /\ given.reserved = 0
        /\ given.question = search[s].question /\ given.memo = search[s].memo
        /\ given.todo = search[s].todo
    BY <1>1, ReturnedCore, ReturnedIs
  <1>5. fact[1] = search[s].question /\ fact[2] = Head(search[s].todo) /\ fact[3] = j
    OBVIOUS
  <1>6. CASE ~ search[s].question.cacheable
    <2>1. Becomes(s, Settled(given, j))
      BY <1>6 DEF Judged
    <2> HIDE DEF given, fact
    <2>2. j = "irrelevant" => \E f \in said' : Backs(f, given.question, Head(given.todo))
      BY <1>2, <1>4, <1>5 DEF Backs
    <2>. QED
      BY <1>2, <1>3, <1>4, <2>1, <2>2, SettledHolds DEF Open
  <1>7. CASE search[s].question.cacheable
    <2> DEFINE new == [given EXCEPT !.at = "store", !.judgement = j]
    <2>1. search' = [search EXCEPT ![s] = new]
      BY <1>7 DEF Judged, Becomes
    <2> HIDE DEF given
    <2>2. /\ new \in SearchStates /\ new.at = "store" /\ new.judgement = j
          /\ new.todo = given.todo /\ new.given = given.given /\ new.kept = given.kept
          /\ new.memo = given.memo /\ new.question = given.question
          /\ new.remaining = given.remaining /\ new.reserved = given.reserved
          /\ new.calls = given.calls
      BY <1>4 DEF SearchStates, Stages
    <2> HIDE DEF new
    <2>3. given.remaining + given.reserved + given.calls = AssessmentCallLimit
      BY <1>4 DEF Core
    <2>4. Core(new) /\ Open(new)
      BY <1>4, <2>2, <2>3, CoreKept
    <2>5. Sound(new)
      BY <1>4, <2>2, <2>4 DEF Sound, AtStage
    <2>6. Told(new, said')
      BY <1>1, <1>2, <1>4, <2>2 DEF Told
    <2>. QED
      BY <1>2, <1>3, <2>1, <2>5, <2>6, SearchGoesOn
  <1>. QED
    BY <1>6, <1>7

(* The next attempt, or the wait before it, within the reservation. *)
LEMMA RetryHolds ==
    ASSUME AssessmentInv, NEW s \in Queries, search[s].at \in {"attempt", "wait"},
           NEW at \in {"attempt", "wait"}, NEW made \in Nat, made < search[s].reserved,
           search' = [search EXCEPT ![s] = [search[s] EXCEPT !.at = at, !.made = made]],
           rows' = rows, said' = said
    PROVE  AssessmentInv'
  <1> DEFINE new == [search[s] EXCEPT !.at = at, !.made = made]
  <1>1. search[s].at \in Busy /\ at \in Stages
    BY DEF Busy, Stages
  <1>2. search[s] \in SearchStates /\ Core(search[s]) /\ Open(search[s]) /\ Told(search[s], said)
    BY <1>1, UnderAssessment
  <1>3. /\ new \in SearchStates /\ new.at = at /\ new.made = made
        /\ new.todo = search[s].todo /\ new.given = search[s].given
        /\ new.kept = search[s].kept /\ new.memo = search[s].memo
        /\ new.question = search[s].question
        /\ new.remaining = search[s].remaining /\ new.reserved = search[s].reserved
        /\ new.calls = search[s].calls
    BY <1>1, <1>2 DEF SearchStates
  <1>4. search' = [search EXCEPT ![s] = new]
    OBVIOUS
  <1> HIDE DEF new
  <1>5. search[s].remaining + search[s].reserved + search[s].calls = AssessmentCallLimit
    BY <1>2 DEF Core
  <1>6. Core(new) /\ Open(new)
    BY <1>2, <1>3, <1>5, CoreKept
  <1>7. Sound(new)
    BY <1>3, <1>6 DEF Sound, AtStage
  <1>8. Told(new, said')
    BY <1>2, <1>3, ToldKept
  <1>9. RowsSaid'
    BY RowsStay DEF AssessmentInv
  <1>. QED
    BY <1>4, <1>7, <1>8, <1>9, SearchGoesOn

LEMMA AssessHolds ==
    ASSUME AssessmentInv, NEW s \in Queries, Assess(s)
    PROVE  AssessmentInv'
  <1>1. search[s].at = "attempt" /\ search[s].at \in Busy /\ rows' = rows
    BY DEF Assess, Busy
  <1>2. search[s] \in SearchStates /\ AtStage(search[s])
    BY <1>1, UnderAssessment
  <1>3. /\ search[s].made \in Nat /\ search[s].reserved \in Nat
        /\ search[s].made < search[s].reserved
    BY <1>1, <1>2 DEF SearchStates, AtStage
  <1> DEFINE Made(attempt) == search[s].made + (IF attempt.recorded THEN 1 ELSE 0)
  <1>4. PICK attempt \in Attempts :
          /\ IF attempt.result # "failed" THEN Becomes(s, Judged(s, Made(attempt), attempt.result))
             ELSE IF MayRetry(s, attempt)
                  THEN Becomes(s, [search[s] EXCEPT !.at = "wait", !.made = Made(attempt)])
             ELSE ProviderFailed(s, Made(attempt))
          /\ said' = IF attempt.result = "failed" THEN said
                     ELSE said \cup {<< search[s].question, Passage(s), attempt.result >>}
    BY DEF Assess
  <1> DEFINE made == Made(attempt)
  <1>5. attempt.result \in {"failed"} \cup Judgements /\ attempt.recorded \in BOOLEAN
    BY AttemptsJudge
  <1>6. made \in Nat /\ made =< search[s].made + 1 /\ made =< search[s].reserved
    BY <1>3, <1>5
  <1> HIDE DEF made
  <1>7. CASE attempt.result # "failed"
    <2>1. /\ Becomes(s, Judged(s, made, attempt.result))
          /\ said' = said \cup {<< search[s].question, Passage(s), attempt.result >>}
      BY <1>4, <1>7 DEF made
    <2>2. attempt.result \in Judgements
      BY <1>5, <1>7
    <2>. QED
      BY <1>1, <1>6, <2>1, <2>2, JudgedHolds
  <1>8. CASE attempt.result = "failed" /\ MayRetry(s, attempt)
    <2>1. /\ search' = [search EXCEPT ![s] = [search[s] EXCEPT !.at = "wait", !.made = made]]
          /\ said' = said
      BY <1>4, <1>8 DEF made, Becomes
    <2>2. made < search[s].reserved
      <3>1. search[s].made + 1 < search[s].reserved
        BY <1>8 DEF MayRetry
      <3>. QED
        BY <1>3, <1>6, <3>1
    <2>. QED
      BY <1>1, <1>6, <2>1, <2>2, RetryHolds
  <1>9. CASE attempt.result = "failed" /\ ~ MayRetry(s, attempt)
    <2>1. ProviderFailed(s, made) /\ said' = said
      BY <1>4, <1>9 DEF made
    <2>. QED
      BY <1>1, <1>6, <2>1, ProviderFailedHolds
  <1>. QED
    BY <1>7, <1>8, <1>9

LEMMA WaitForRetryHolds ==
    ASSUME AssessmentInv, NEW s \in Queries, WaitForRetry(s)
    PROVE  AssessmentInv'
  <1>1. search[s].at = "wait" /\ search[s].at \in Busy /\ rows' = rows /\ said' = said
    BY DEF WaitForRetry, Busy
  <1>2. search[s] \in SearchStates /\ AtStage(search[s])
    BY <1>1, UnderAssessment
  <1>3. /\ search[s].made \in Nat /\ search[s].reserved \in Nat
        /\ search[s].made < search[s].reserved
    BY <1>1, <1>2 DEF SearchStates, AtStage
  <1>4. CASE Becomes(s, [search[s] EXCEPT !.at = "attempt"])
    <2>1. [search[s] EXCEPT !.at = "attempt"]
            = [search[s] EXCEPT !.at = "attempt", !.made = search[s].made]
      BY <1>2 DEF SearchStates
    <2>2. search' = [search EXCEPT ![s] = [search[s] EXCEPT !.at = "attempt",
                                                            !.made = search[s].made]]
      BY <1>4, <2>1 DEF Becomes
    <2>. QED
      BY <1>1, <1>3, <2>2, RetryHolds
  <1>5. CASE ProviderFailed(s, search[s].made)
    <2>1. search[s].made =< search[s].reserved
      BY <1>3
    <2>. QED
      BY <1>1, <1>3, <1>5, <2>1, ProviderFailedHolds
  <1>. QED
    BY <1>4, <1>5 DEF WaitForRetry

LEMMA AssessmentInitHolds == AssessmentInit => AssessmentInv
  <1>1. SUFFICES ASSUME AssessmentInit PROVE AssessmentInv
    OBVIOUS
  <1> DEFINE state == [Fresh(NoQuestion, << >>) EXCEPT !.at = "idle"]
  <1>2. Sound(state) /\ Told(state, said)
    BY NoSearchSound
  <1>3. search = [s \in Queries |-> state] /\ rows = << >>
    BY <1>1 DEF AssessmentInit
  <1> HIDE DEF state
  <1>4. state \in SearchStates
    BY <1>2 DEF Sound, Core
  <1>5. RowsSaid
    BY <1>3 DEF RowsSaid
  <1>. QED
    BY <1>2, <1>3, <1>4, <1>5 DEF AssessmentInv

LEMMA AssessmentNextHolds == AssessmentInv /\ [AssessmentNext]_assessmentVars => AssessmentInv'
  <1>1. SUFFICES ASSUME AssessmentInv, [AssessmentNext]_assessmentVars PROVE AssessmentInv'
    OBVIOUS
  <1>2. CASE UNCHANGED assessmentVars
    <2>1. SaidRows(rows, said)
      BY <1>1, RowsAreSaid DEF AssessmentInv
    <2>. QED
      BY <1>1, <1>2, <2>1, RowsChange DEF assessmentVars
  <1>3. ASSUME NEW s \in Queries, LookupFails(s) PROVE AssessmentInv'
    BY <1>1, <1>3, ToReserve DEF LookupFails
  <1>4. ASSUME NEW s \in Queries, SearchCancelled(s) PROVE AssessmentInv'
    BY <1>1, <1>4, AbandonedHolds DEF SearchCancelled
  <1>5. CASE AssessmentNext
    BY <1>1, <1>3, <1>4, <1>5, StartAssessmentHolds, NextCandidateHolds, CacheLookupHolds,
       ReserveHolds, AssessHolds, WaitForRetryHolds, StoreHolds, ExpireHolds, DeleteExpiredHolds
       DEF AssessmentNext, AssessmentStep
  <1>. QED
    BY <1>1, <1>2, <1>5

(***************************************************************************)
(* Every search keeps exactly what it has to show of the list it has gone  *)
(* through, within its budget, and uses only what the provider said.       *)
(***************************************************************************)
THEOREM AssessmentInvariant == AssessmentSpec => []AssessmentInv
  BY AssessmentInitHolds, AssessmentNextHolds, PTL DEF AssessmentSpec

(***************************************************************************)
(* What a search leaves out, the provider called irrelevant for that       *)
(* passage and that question or one that differs in wording only, and      *)
(* everything else it went through is returned in order up to the limit,   *)
(* for any number of searches sharing the cache, any lists of candidates   *)
(* and any sizes of the cache and the budget.                              *)
(***************************************************************************)
THEOREM OnlyTheProviderHides == AssessmentSpec => []OnlyProviderHides
  <1>1. AssessmentInv => OnlyProviderHides
    <2>1. SUFFICES ASSUME AssessmentInv PROVE OnlyProviderHides
      OBVIOUS
    <2>2. SaidRows(rows, said) /\ DOMAIN rows = 1..Len(rows)
      BY <2>1, RowsAreSaid DEF AssessmentInv
    <2>3. \A i \in DOMAIN rows :
            << rows[i].question, rows[i].passage,
               IF rows[i].relevant THEN "relevant" ELSE "irrelevant" >> \in said
      BY <2>2 DEF SaidRows, RowSaid
    <2>4. ASSUME NEW s \in Queries, NEW p \in AssessedPassages, search[s].memo[p] = "irrelevant"
          PROVE  Grounded(search[s].question, p)
      <3>1. \E fact \in said : Backs(fact, search[s].question, p)
        BY <2>1, <2>4 DEF AssessmentInv, Told
      <3>. QED
        BY <3>1 DEF Backs, Grounded
    <2>5. ASSUME NEW s \in Queries, search[s].at = "done"
          PROVE  /\ search[s].todo = << >> \/ Len(search[s].kept) = Limit
                 /\ search[s].kept = Kept(search[s].given, Shown(search[s]))
      BY <2>1, <2>5 DEF AssessmentInv, Sound, Core, AtStage
    <2>. QED
      BY <2>3, <2>4, <2>5 DEF OnlyProviderHides
  <1>. QED
    BY <1>1, AssessmentInvariant, PTL

(***************************************************************************)
(* A search never spends more physical attempts on the provider than its   *)
(* budget, and gets back what it reserved and did not make: the safety     *)
(* half of AssessmentBounded.                                              *)
(***************************************************************************)
THEOREM ProviderBudgetKept == AssessmentSpec => [](\A s \in Queries : WithinBudget(search[s]))
  <1>1. AssessmentInv => \A s \in Queries : WithinBudget(search[s])
    <2>1. SUFFICES ASSUME AssessmentInv, NEW s \in Queries PROVE WithinBudget(search[s])
      OBVIOUS
    <2>2. /\ search[s].remaining + search[s].reserved + search[s].calls = AssessmentCallLimit
          /\ search[s] \in SearchStates
      BY <2>1 DEF AssessmentInv, Sound, Core
    <2>3. /\ search[s].remaining \in Nat /\ search[s].reserved \in Nat
          /\ search[s].calls \in Nat
      BY <2>2 DEF SearchStates
    <2>. QED
      BY <2>2, <2>3 DEF WithinBudget
  <1>. QED
    BY <1>1, AssessmentInvariant, PTL
====
