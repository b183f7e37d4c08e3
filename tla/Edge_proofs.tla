---------------------------- MODULE Edge_proofs ----------------------------
(***************************************************************************)
(* The Edge API: its limits hold and its responses are whole for any       *)
(* number of keys, requests and admissions and any limit and window, and   *)
(* what it tells a browser is true for any number of requests.             *)
(***************************************************************************)
EXTENDS EdgeAdmission, EdgeRequests, FiniteSetTheorems, SequenceTheorems, WellFoundedInduction,
        TLAPS

-----------------------------------------------------------------------------
(* The window of a key                                                     *)
(*                                                                         *)
(* The limiter forgets what it admitted when a window ends, so the bound   *)
(* on admissions within the length of a window is about two windows: what  *)
(* the running one admitted (its count), and what the one before it did.   *)
(* The ages of the recent admissions fall, so a place divides them.        *)

AgesFall(ages) ==
  \A i, j \in 1..Len(ages) : ages[i] < RateWindow /\ (i <= j => ages[j] <= ages[i])

(* m of the admissions are older than the window that runs. *)
Divides(ages, m, age) == \A i \in 1..Len(ages) : i <= m <=> ages[i] > age

Running(ages, entry) ==
  \E m \in 0..Len(ages) :
    /\ Divides(ages, m, entry.age) /\ m <= RateLimit
    /\ Len(ages) - m <= RateLimit /\ Len(ages) - m <= entry.count

(* No window runs: the last one admitted at most the limit, before now. *)
Rested(ages) == Len(ages) <= RateLimit /\ \A i \in 1..Len(ages) : ages[i] > 0

Entry == [age : Nat, count : Nat]

LEMMA Constants ==
  /\ RateLimit \in Nat /\ RateLimit >= 1 /\ RateWindow \in Nat /\ RateWindow >= 1
  /\ RateMaxKeys \in Nat /\ RateMaxKeys >= 1 /\ Concurrency \in Nat /\ Concurrency >= 1
BY AdmissionAssumption DEF AdmissionAssumption

LEMMA SeqFacts ==
  ASSUME NEW ages \in Seq(Nat)
  PROVE  /\ Len(ages) \in Nat /\ DOMAIN ages = 1..Len(ages)
         /\ \A i \in 1..Len(ages) : ages[i] \in Nat
BY LenProperties, ElementOfSeq

(* A set of naturals up to n that contains what is below its members is an  *)
(* interval.                                                                *)
LEMMA DownwardClosed ==
  ASSUME NEW n \in Nat, NEW S \in SUBSET (1..n),
         \A i \in S : \A j \in 1..n : j <= i => j \in S
  PROVE  \E d \in 0..n : S = 1..d
<1> DEFINE T == {d \in 0..n : \A i \in S : i <= d}
<1>1. T \subseteq Nat /\ n \in T
  OBVIOUS
<1>2. PICK d \in T : \A e \in T : ~(<<e, d>> \in OpToRel(<, Nat))
  <2>1. IsWellFoundedOn(OpToRel(<, Nat), Nat)
    BY NatLessThanWellFounded
  <2> QED
    BY <1>1, <2>1, WFMin
<1>3. \A e \in T : e >= d
  <2> SUFFICES ASSUME NEW e \in T, e < d PROVE FALSE
    BY <1>1
  <2>1. <<e, d>> \in OpToRel(<, Nat)
    BY <1>1 DEF OpToRel
  <2> QED
    BY <1>2, <2>1
<1>4. CASE d = 0
  <2>1. S = {}
    BY <1>4
  <2> QED
    BY <1>4, <2>1
<1>5. CASE d # 0
  <2>1. d \in S
    <3> SUFFICES ASSUME d \notin S PROVE FALSE
      OBVIOUS
    <3>1. d - 1 \in 0..n /\ ~(d - 1 >= d)
      BY <1>5
    <3>2. \A i \in S : i <= d - 1
      OBVIOUS
    <3>3. d - 1 \in T
      BY <3>1, <3>2
    <3> QED
      BY <1>3, <3>1, <3>3
  <2>2. S = 1..d
    <3>1. d \in 1..n /\ \A i \in S : i \in 1..n /\ i <= d
      BY <2>1
    <3>2. \A j \in 1..d : j \in 1..n /\ j <= d
      BY <3>1
    <3>3. \A j \in 1..d : j \in S
      BY <2>1, <3>2
    <3>4. \A j \in S : j \in 1..d
      BY <3>1
    <3> HIDE DEF T
    <3> QED
      BY <3>3, <3>4
  <2> QED
    BY <2>2
<1> QED
  BY <1>4, <1>5

(* What Later does with ages that fall: it drops a prefix. *)
LEMMA LaterDrops ==
  ASSUME NEW ages \in Seq(Nat), AgesFall(ages)
  PROVE  \E d \in 0..Len(ages) :
           /\ \A i \in 1..Len(ages) : i <= d <=> ages[i] + 1 >= RateWindow
           /\ Later(ages) \in Seq(Nat) /\ Len(Later(ages)) = Len(ages) - d
           /\ \A i \in 1..(Len(ages) - d) : Later(ages)[i] = ages[i + d] + 1
<1> DEFINE n == Len(ages)
           S == {i \in DOMAIN ages : ages[i] + 1 >= RateWindow}
<1>1. /\ n \in Nat /\ DOMAIN ages = 1..n /\ \A i \in 1..n : ages[i] \in Nat
      /\ RateWindow \in Nat
  BY SeqFacts, Constants
<1>2. S \in SUBSET (1..n)
  BY <1>1
<1>3. ASSUME NEW i \in S, NEW j \in 1..n, j <= i PROVE j \in S
  <2>1. ages[i] <= ages[j] /\ ages[i] + 1 >= RateWindow
    BY <1>1, <1>2, <1>3 DEF AgesFall
  <2> QED
    BY <1>1, <1>2, <2>1
<1>4. PICK d \in 0..n : S = 1..d
  <2> HIDE DEF S
  <2> QED
    BY <1>1, <1>2, <1>3, DownwardClosed
<1>5. Cardinality(S) = d
  <2>1. 1 \in Int /\ d \in Int /\ d \in Nat
    BY <1>1
  <2>2. Cardinality(1..d) = IF 1 > d THEN 0 ELSE d - 1 + 1
    BY <2>1, FS_Interval
  <2>3. (IF 1 > d THEN 0 ELSE d - 1 + 1) = d
    BY <2>1
  <2> QED
    BY <1>4, <2>2, <2>3
<1>6. Later(ages) = [i \in 1..(n - d) |-> ages[i + d] + 1]
  BY <1>5 DEF Later
<1>7. \A i \in 1..n : i <= d <=> ages[i] + 1 >= RateWindow
  <2> SUFFICES ASSUME NEW i \in 1..n PROVE i <= d <=> ages[i] + 1 >= RateWindow
    OBVIOUS
  <2>1. i \in S <=> ages[i] + 1 >= RateWindow
    BY <1>1
  <2>2. i \in S <=> i <= d
    <3> HIDE DEF S
    <3> QED
      BY <1>1, <1>4
  <2> QED
    BY <2>1, <2>2
<1>8. n - d \in Nat /\ \A i \in 1..(n - d) : i + d \in 1..n
  <2>1. n \in Nat /\ d \in Nat /\ d <= n
    BY <1>1
  <2> HIDE DEF n
  <2> QED
    BY <2>1
<1>9. \A i \in 1..(n - d) : ages[i + d] + 1 \in Nat
  BY <1>1, <1>8
<1>10. Later(ages) \in [1..(n - d) -> Nat]
  BY <1>6, <1>9
<1>11. Later(ages) \in Seq(Nat) /\ Len(Later(ages)) = n - d
  <2> DEFINE k == n - d
  <2>1. k \in Nat /\ Later(ages) \in [1..k -> Nat]
    BY <1>8, <1>10
  <2> HIDE DEF k
  <2>2. Later(ages) \in Seq(Nat) /\ Len(Later(ages)) = k
    BY <2>1
  <2> QED
    BY <2>2 DEF k
<1>12. \A i \in 1..(n - d) : Later(ages)[i] = ages[i + d] + 1
  BY <1>6
<1> HIDE DEF S
<1> QED
  BY <1>7, <1>11, <1>12

(* What time does to the ages of a key. *)
LEMMA LaterFalls ==
  ASSUME NEW ages \in Seq(Nat), AgesFall(ages)
  PROVE  Later(ages) \in Seq(Nat) /\ AgesFall(Later(ages))
<1> DEFINE n == Len(ages)
           new == Later(ages)
<1>1. n \in Nat /\ (\A i \in 1..n : ages[i] \in Nat) /\ RateWindow \in Nat
  BY SeqFacts, Constants
<1>2. PICK d \in 0..n :
        /\ \A i \in 1..n : i <= d <=> ages[i] + 1 >= RateWindow
        /\ new \in Seq(Nat) /\ Len(new) = n - d
        /\ \A i \in 1..(n - d) : new[i] = ages[i + d] + 1
  BY LaterDrops
<1> HIDE DEF new
<1>3. ASSUME NEW i \in 1..(n - d), NEW j \in 1..(n - d)
      PROVE  new[i] < RateWindow /\ (i <= j => new[j] <= new[i])
  <2>1. i + d \in 1..n /\ j + d \in 1..n /\ ~(i + d <= d) /\ (i <= j => i + d <= j + d)
    BY <1>1
  <2>2. ages[i + d] \in Nat /\ ages[j + d] \in Nat /\ ages[i + d] + 1 < RateWindow
    <3>1. ages[i + d] \in Nat /\ ages[j + d] \in Nat
      BY <1>1, <2>1
    <3>2. ~(ages[i + d] + 1 >= RateWindow)
      <4>1. i + d <= d <=> ages[i + d] + 1 >= RateWindow
        BY <1>2, <2>1
      <4> QED
        BY <2>1, <4>1
    <3> QED
      BY <1>1, <3>1, <3>2
  <2>3. i <= j => ages[j + d] <= ages[i + d]
    BY <2>1 DEF AgesFall
  <2>4. new[i] = ages[i + d] + 1 /\ new[j] = ages[j + d] + 1
    BY <1>2
  <2>5. new[i] < RateWindow
    BY <2>2, <2>4
  <2>6. i <= j => new[j] <= new[i]
    <3>1. \A a, b \in Nat : b <= a => b + 1 <= a + 1
      OBVIOUS
    <3> QED
      BY <2>2, <2>3, <2>4, <3>1
  <2> QED
    BY <2>5, <2>6
<1> QED
  BY <1>2, <1>3 DEF AgesFall, new

(* A window that goes on running. *)
LEMMA LaterRuns ==
  ASSUME NEW ages \in Seq(Nat), AgesFall(ages), NEW e \in Entry, Running(ages, e),
         e.age + 1 < RateWindow
  PROVE  Running(Later(ages), [e EXCEPT !.age = e.age + 1])
<1> DEFINE n == Len(ages)
           new == Later(ages)
           f == [e EXCEPT !.age = e.age + 1]
<1>1. n \in Nat /\ (\A i \in 1..n : ages[i] \in Nat) /\ RateWindow \in Nat /\ RateLimit \in Nat
  BY SeqFacts, Constants
<1>2. PICK d \in 0..n :
        /\ \A i \in 1..n : i <= d <=> ages[i] + 1 >= RateWindow
        /\ new \in Seq(Nat) /\ Len(new) = n - d
        /\ \A i \in 1..(n - d) : new[i] = ages[i + d] + 1
  BY LaterDrops
<1>3. PICK m \in 0..n :
        /\ Divides(ages, m, e.age) /\ m <= RateLimit
        /\ n - m <= RateLimit /\ n - m <= e.count
  BY DEF Running
<1>4. f.age = e.age + 1 /\ f.count = e.count /\ e.age \in Nat /\ e.count \in Nat
  BY DEF Entry
<1> HIDE DEF new, f
<1>5. d <= m
  <2> SUFFICES ASSUME d > m PROVE FALSE
    BY <1>1
  <2>1. d \in 1..n /\ ~(d <= m)
    BY <1>1
  <2>2. ages[d] + 1 >= RateWindow /\ ~(ages[d] > e.age) /\ ages[d] \in Nat
    BY <1>1, <1>2, <1>3, <2>1 DEF Divides
  <2> QED
    BY <1>1, <1>4, <2>2
<1>6. m - d \in 0..(n - d) /\ m - d <= RateLimit /\ (n - d) - (m - d) = n - m
  BY <1>1, <1>3, <1>5
<1>7. Divides(new, m - d, f.age)
  <2> SUFFICES ASSUME NEW i \in 1..(n - d) PROVE i <= m - d <=> new[i] > f.age
    BY <1>2 DEF Divides
  <2>1. i + d \in 1..n /\ (i <= m - d <=> i + d <= m)
    BY <1>1, <1>6
  <2>2. i + d <= m <=> ages[i + d] > e.age
    BY <1>3, <2>1 DEF Divides
  <2>3. new[i] = ages[i + d] + 1 /\ ages[i + d] \in Nat
    BY <1>1, <1>2, <2>1
  <2>4. new[i] > f.age <=> ages[i + d] > e.age
    BY <1>4, <2>3
  <2> QED
    BY <2>1, <2>2, <2>4
<1>8. Len(new) - (m - d) <= RateLimit /\ Len(new) - (m - d) <= f.count
  BY <1>2, <1>3, <1>4, <1>6
<1>9. m - d \in 0..Len(new)
  BY <1>2, <1>6
<1>10. Running(new, f)
  BY <1>6, <1>7, <1>8, <1>9 DEF Running
<1> QED
  BY <1>10 DEF new, f

(* A window that ends has outlived what was admitted before it. *)
LEMMA LaterEnds ==
  ASSUME NEW ages \in Seq(Nat), AgesFall(ages), NEW e \in Entry, Running(ages, e),
         e.age + 1 >= RateWindow
  PROVE  Rested(Later(ages))
<1> DEFINE n == Len(ages)
           new == Later(ages)
<1>1. /\ n \in Nat /\ (\A i \in 1..n : ages[i] \in Nat) /\ RateWindow \in Nat
      /\ RateLimit \in Nat /\ e.age \in Nat
  BY SeqFacts, Constants DEF Entry
<1>2. PICK d \in 0..n :
        /\ \A i \in 1..n : i <= d <=> ages[i] + 1 >= RateWindow
        /\ new \in Seq(Nat) /\ Len(new) = n - d
        /\ \A i \in 1..(n - d) : new[i] = ages[i + d] + 1
  BY LaterDrops
<1>3. PICK m \in 0..n : Divides(ages, m, e.age) /\ n - m <= RateLimit
  BY DEF Running
<1> HIDE DEF new
<1>4. m = 0
  <2> SUFFICES ASSUME m # 0 PROVE FALSE
    OBVIOUS
  <2>1. 1 \in 1..n /\ 1 <= m
    BY <1>1
  <2>2. ages[1] > e.age /\ ages[1] < RateWindow /\ ages[1] \in Nat
    BY <1>1, <1>3, <2>1 DEF Divides, AgesFall
  <2> QED
    BY <1>1, <2>2
<1>5. Len(new) <= RateLimit
  BY <1>1, <1>2, <1>3, <1>4
<1>6. \A i \in 1..(n - d) : new[i] > 0
  <2> SUFFICES ASSUME NEW i \in 1..(n - d) PROVE new[i] > 0
    OBVIOUS
  <2>1. ages[i + d] \in Nat
    BY <1>1
  <2>2. new[i] = ages[i + d] + 1
    BY <1>2
  <2> QED
    BY <2>1, <2>2
<1> QED
  BY <1>2, <1>5, <1>6 DEF Rested, new

LEMMA LaterRests ==
  ASSUME NEW ages \in Seq(Nat), AgesFall(ages), Rested(ages)
  PROVE  Rested(Later(ages))
<1> DEFINE n == Len(ages)
           new == Later(ages)
<1>1. /\ n \in Nat /\ (\A i \in 1..n : ages[i] \in Nat) /\ RateLimit \in Nat
  BY SeqFacts, Constants
<1>2. PICK d \in 0..n :
        /\ Len(new) = n - d
        /\ \A i \in 1..(n - d) : new[i] = ages[i + d] + 1
  BY LaterDrops
<1> HIDE DEF new
<1>3. Len(new) <= RateLimit
  BY <1>1, <1>2 DEF Rested
<1>4. \A i \in 1..(n - d) : new[i] > 0
  <2> SUFFICES ASSUME NEW i \in 1..(n - d) PROVE new[i] > 0
    OBVIOUS
  <2>1. ages[i + d] \in Nat
    BY <1>1
  <2>2. new[i] = ages[i + d] + 1
    BY <1>2
  <2> QED
    BY <2>1, <2>2
<1> QED
  BY <1>2, <1>3, <1>4 DEF Rested, new

(* What an admission does to them. *)
LEMMA AppendFacts ==
  ASSUME NEW ages \in Seq(Nat)
  PROVE  /\ Append(ages, 0) \in Seq(Nat) /\ Len(Append(ages, 0)) = Len(ages) + 1
         /\ \A i \in 1..Len(ages) : Append(ages, 0)[i] = ages[i]
         /\ Append(ages, 0)[Len(ages) + 1] = 0
BY 0 \in Nat, AppendProperties

LEMMA AppendFalls ==
  ASSUME NEW ages \in Seq(Nat), AgesFall(ages)
  PROVE  AgesFall(Append(ages, 0))
<1> DEFINE n == Len(ages)
           new == Append(ages, 0)
<1>1. n \in Nat /\ (\A i \in 1..n : ages[i] \in Nat) /\ RateWindow \in Nat /\ RateWindow >= 1
  BY SeqFacts, Constants
<1>2. /\ Len(new) = n + 1 /\ (\A i \in 1..n : new[i] = ages[i]) /\ new[n + 1] = 0
  BY AppendFacts
<1> HIDE DEF new
<1>3. ASSUME NEW i \in 1..(n + 1), NEW j \in 1..(n + 1)
      PROVE  new[i] < RateWindow /\ (i <= j => new[j] <= new[i])
  <2>1. (i \in 1..n \/ i = n + 1) /\ (j \in 1..n \/ j = n + 1)
    BY <1>1
  <2>2. i \in 1..n => new[i] = ages[i] /\ ages[i] \in Nat /\ ages[i] < RateWindow
    BY <1>1, <1>2 DEF AgesFall
  <2>3. i \in 1..n /\ j \in 1..n => (i <= j => new[j] <= new[i])
    BY <1>2 DEF AgesFall
  <2>4. j = n + 1 => new[j] = 0
    BY <1>2
  <2>5. i = n + 1 /\ j \in 1..n => ~(i <= j)
    BY <1>1
  <2> QED
    BY <1>1, <1>2, <2>1, <2>2, <2>3, <2>4, <2>5
<1> QED
  BY <1>2, <1>3 DEF AgesFall, new

(* The first admission of a window, and a further one. *)
LEMMA WindowStarts ==
  ASSUME NEW ages \in Seq(Nat), Rested(ages)
  PROVE  Running(Append(ages, 0), [age |-> 0, count |-> 1])
<1> DEFINE n == Len(ages)
           new == Append(ages, 0)
           e == [age |-> 0, count |-> 1]
<1>1. n \in Nat /\ (\A i \in 1..n : ages[i] \in Nat) /\ RateLimit \in Nat /\ RateLimit >= 1
  BY SeqFacts, Constants
<1>2. /\ Len(new) = n + 1 /\ (\A i \in 1..n : new[i] = ages[i]) /\ new[n + 1] = 0
  BY AppendFacts
<1>3. e.age = 0 /\ e.count = 1
  OBVIOUS
<1> HIDE DEF new, e
<1>4. Divides(new, n, e.age)
  <2> SUFFICES ASSUME NEW i \in 1..(n + 1) PROVE i <= n <=> new[i] > 0
    BY <1>2, <1>3 DEF Divides
  <2>1. CASE i = n + 1
    BY <1>1, <1>2, <2>1
  <2>2. CASE i \in 1..n
    BY <1>1, <1>2, <2>2 DEF Rested
  <2> QED
    BY <1>1, <2>1, <2>2
<1>5. n \in 0..Len(new) /\ n <= RateLimit /\ Len(new) - n <= RateLimit /\ Len(new) - n <= e.count
  BY <1>1, <1>2, <1>3 DEF Rested
<1>6. Running(new, e)
  BY <1>4, <1>5 DEF Running
<1> QED
  BY <1>6 DEF new, e

LEMMA WindowAdmits ==
  ASSUME NEW ages \in Seq(Nat), NEW e \in Entry, Running(ages, e), e.count + 1 <= RateLimit
  PROVE  Running(Append(ages, 0), [e EXCEPT !.count = e.count + 1])
<1> DEFINE n == Len(ages)
           new == Append(ages, 0)
           f == [e EXCEPT !.count = e.count + 1]
<1>1. /\ n \in Nat /\ (\A i \in 1..n : ages[i] \in Nat) /\ RateLimit \in Nat
      /\ e.age \in Nat /\ e.count \in Nat
  BY SeqFacts, Constants DEF Entry
<1>2. /\ Len(new) = n + 1 /\ (\A i \in 1..n : new[i] = ages[i]) /\ new[n + 1] = 0
  BY AppendFacts
<1>3. f.age = e.age /\ f.count = e.count + 1
  BY DEF Entry
<1>4. PICK m \in 0..n :
        /\ Divides(ages, m, e.age) /\ m <= RateLimit
        /\ n - m <= RateLimit /\ n - m <= e.count
  BY DEF Running
<1> HIDE DEF new, f
<1>5. Divides(new, m, f.age)
  <2> SUFFICES ASSUME NEW i \in 1..(n + 1) PROVE i <= m <=> new[i] > e.age
    BY <1>2, <1>3 DEF Divides
  <2>1. CASE i = n + 1
    BY <1>1, <1>2, <2>1
  <2>2. CASE i \in 1..n
    BY <1>1, <1>2, <1>4, <2>2 DEF Divides
  <2> QED
    BY <1>1, <2>1, <2>2
<1>6. m \in 0..Len(new) /\ Len(new) - m <= RateLimit /\ Len(new) - m <= f.count
  BY <1>1, <1>2, <1>3, <1>4
<1>7. Running(new, f)
  BY <1>4, <1>5, <1>6 DEF Running
<1> QED
  BY <1>7 DEF new, f

(* A larger count of the same window. *)
LEMMA WindowRefuses ==
  ASSUME NEW ages \in Seq(Nat), NEW e \in Entry, NEW f \in Entry, Running(ages, e),
         f.age = e.age, f.count >= e.count \/ f.count >= RateLimit
  PROVE  Running(ages, f)
<1>1. Len(ages) \in Nat /\ RateLimit \in Nat /\ e.count \in Nat /\ f.count \in Nat
  BY SeqFacts, Constants DEF Entry
<1>2. PICK m \in 0..Len(ages) :
        /\ Divides(ages, m, e.age) /\ m <= RateLimit
        /\ Len(ages) - m <= RateLimit /\ Len(ages) - m <= e.count
  BY DEF Running
<1>3. Len(ages) - m <= f.count
  BY <1>1, <1>2
<1> QED
  BY <1>2, <1>3 DEF Running

(* The two bounds. *)
LEMMA WindowBound ==
  ASSUME NEW ages \in Seq(Nat), NEW e \in Entry, Running(ages, e)
  PROVE  /\ Len(ages) <= 2 * RateLimit
         /\ Cardinality({i \in DOMAIN ages : ages[i] <= e.age}) <= RateLimit
<1> DEFINE n == Len(ages)
<1>1. /\ n \in Nat /\ DOMAIN ages = 1..n /\ (\A i \in 1..n : ages[i] \in Nat)
      /\ RateLimit \in Nat /\ e.age \in Nat
  BY SeqFacts, Constants DEF Entry
<1>2. PICK m \in 0..n : Divides(ages, m, e.age) /\ m <= RateLimit /\ n - m <= RateLimit
  BY DEF Running
<1>3. {i \in DOMAIN ages : ages[i] <= e.age} = (m + 1)..n
  <2>1. \A i \in 1..n : ages[i] <= e.age <=> i \in (m + 1)..n
    <3> SUFFICES ASSUME NEW i \in 1..n PROVE ages[i] <= e.age <=> i \in (m + 1)..n
      OBVIOUS
    <3>1. i <= m <=> ages[i] > e.age
      BY <1>2 DEF Divides
    <3> QED
      BY <1>1, <1>2, <3>1
  <2>2. (m + 1)..n \subseteq 1..n
    BY <1>1, <1>2
  <2> HIDE DEF n
  <2> QED
    BY <1>1, <2>1, <2>2
<1>4. Cardinality((m + 1)..n) = IF m + 1 > n THEN 0 ELSE n - (m + 1) + 1
  <2>1. m + 1 \in Int /\ n \in Int
    BY <1>1, <1>2
  <2> QED
    BY <2>1, FS_Interval
<1>5. (IF m + 1 > n THEN 0 ELSE n - (m + 1) + 1) <= RateLimit /\ n <= 2 * RateLimit
  <2>1. n \in Nat /\ m \in Nat /\ m <= RateLimit /\ n - m <= RateLimit /\ RateLimit \in Nat
    BY <1>1, <1>2
  <2> HIDE DEF n
  <2> QED
    BY <2>1
<1> QED
  BY <1>3, <1>4, <1>5

LEMMA RestedBound ==
  ASSUME NEW ages \in Seq(Nat), Rested(ages)
  PROVE  Len(ages) <= 2 * RateLimit
BY SeqFacts, Constants DEF Rested

-----------------------------------------------------------------------------
(* A response *)

Steps == {"idle", "admitted", "handling", "done"}

Bodies == {{}, {"handler"}, {"limit"}, {"error"}}

Outcomes == {"success", "client_error", "server_error", "aborted"}

Logs == {<< >>} \cup (Nat \X Outcomes)

Response == [step : Steps, committed : BOOLEAN, code : Nat, wire : Nat, body : Bodies, logged : Logs]

(* Nothing was sent before the handler runs; while it runs the response is  *)
(* committed when something was sent, and only the handler has sent it.     *)
ResponseInv(q) ==
  /\ q.step \in {"idle", "admitted"} => q.wire = 0 /\ q.code = 0 /\ q.body = {} /\ ~q.committed
  /\ q.step = "handling" =>
       /\ q.body \in {{}, {"handler"}} /\ q.wire \in {0, 200} /\ q.code \in {0, q.wire}
       /\ q.committed <=> q.wire # 0
       /\ q.body # {} => q.wire # 0
  /\ q.step = "done" =>
       /\ q.logged[1] = q.wire
       /\ q.wire = 500 => q.body = {"error"}

LEMMA Members ==
  /\ \A c \in Nat, o \in Outcomes : << c, o >> \in Logs /\ << c, o >>[1] = c
  /\ {"idle", "admitted", "handling", "done"} \subseteq Steps
  /\ {{}, {"handler"}, {"limit"}, {"error"}} \subseteq Bodies
  /\ {"server_error", "aborted"} \subseteq Outcomes
  /\ outcome(429) \in Outcomes /\ outcome(200) \in Outcomes
BY DEF Logs, Steps, Bodies, Outcomes, outcome

LEMMA Typed ==
  ASSUME NEW q \in Response
  PROVE  /\ q.step \in {"idle", "admitted", "handling", "done"} /\ q.committed \in BOOLEAN
         /\ q.code \in Nat /\ q.wire \in Nat
         /\ q.body \in {{}, {"handler"}, {"limit"}, {"error"}}
BY DEF Response, Steps, Bodies

LEMMA NoRequestInv == NoRequest \in Response /\ ResponseInv(NoRequest) /\ NoRequest.step = "idle"
BY DEF Response, ResponseInv, NoRequest, Steps, Bodies, Logs

LEMMA LimitedInv ==
  ASSUME NEW q \in Response, ResponseInv(q), q.step \in {"idle", "admitted"}
  PROVE  /\ writeRateLimited(q) \in Response /\ ResponseInv(writeRateLimited(q))
         /\ writeRateLimited(q).step = "done"
<1>1. q.wire = 0 /\ q.code = 0
  BY DEF ResponseInv
<1> DEFINE w == [q EXCEPT !.wire = 429, !.code = 429]
           p == [w EXCEPT !.body = {"limit"}]
           o == outcome(429)
           l == << 429, o >>
           z == [p EXCEPT !.step = "done", !.wire = 429, !.logged = l]
<1>2. written(q, 429) = w
  BY <1>1 DEF written
<1>3. w \in Response /\ w.wire = 429 /\ w.code = 429
  <2> DEFINE v == [q EXCEPT !.wire = 429]
  <2>1. v \in Response /\ v.wire = 429
    BY DEF Response
  <2>2. w = [v EXCEPT !.code = 429]
    OBVIOUS
  <2> HIDE DEF v, w
  <2> QED
    BY <2>1, <2>2 DEF Response
<1> HIDE DEF w
<1>4. p \in Response /\ p.wire = 429 /\ p.code = 429 /\ p.body = {"limit"}
  BY <1>3, Members DEF Response
<1>5. writeRateLimited(q) = RequestLogger(p)
  BY <1>2 DEF writeRateLimited
<1> HIDE DEF p
<1>6. RequestLogger(p) = z
  BY <1>4 DEF RequestLogger
<1>7. l \in Logs /\ l[1] = 429
  BY Members
<1> HIDE DEF l
<1>8. z \in Response /\ z.step = "done" /\ z.wire = 429 /\ z.body = {"limit"} /\ z.logged = l
  <2> DEFINE v == [p EXCEPT !.step = "done"]
             u == [v EXCEPT !.wire = 429]
  <2>1. "done" \in Steps /\ p \in Response /\ l \in Logs
    BY <1>4, <1>7, Members
  <2>2. v \in Response /\ v.step = "done" /\ v.body = p.body
    BY <2>1 DEF Response
  <2>3. z = [u EXCEPT !.logged = l]
    OBVIOUS
  <2> HIDE DEF v, z
  <2>4. u \in Response /\ u.step = "done" /\ u.body = p.body /\ u.wire = 429
    BY <2>2 DEF Response
  <2> HIDE DEF u
  <2>5. z \in Response /\ z.step = "done" /\ z.body = p.body /\ z.wire = 429 /\ z.logged = l
    BY <2>1, <2>3, <2>4 DEF Response
  <2> QED
    BY <1>4, <2>5
<1> HIDE DEF z
<1> QED
  BY <1>5, <1>6, <1>7, <1>8 DEF ResponseInv

LEMMA AdmittedInv ==
  ASSUME NEW q \in Response, ResponseInv(q), q.step = "idle"
  PROVE  LET p == [q EXCEPT !.step = "admitted"]
         IN  p \in Response /\ ResponseInv(p) /\ p.step = "admitted"
<1> DEFINE p == [q EXCEPT !.step = "admitted"]
<1>1. /\ p \in Response /\ p.step = "admitted" /\ p.wire = q.wire /\ p.code = q.code
      /\ p.body = q.body /\ p.committed = q.committed
  BY Members DEF Response
<1> HIDE DEF p
<1>2. ResponseInv(p)
  BY <1>1 DEF ResponseInv
<1> QED
  BY <1>1, <1>2 DEF p

LEMMA HandlingInv ==
  ASSUME NEW q \in Response, ResponseInv(q), q.step = "admitted"
  PROVE  LET p == [q EXCEPT !.step = "handling"]
         IN  p \in Response /\ ResponseInv(p) /\ p.step = "handling"
<1> DEFINE p == [q EXCEPT !.step = "handling"]
<1>1. /\ p \in Response /\ p.step = "handling" /\ p.wire = q.wire /\ p.code = q.code
      /\ p.body = q.body /\ p.committed = q.committed
  BY Members DEF Response
<1> HIDE DEF p
<1>2. ResponseInv(p)
  BY <1>1, Typed DEF ResponseInv
<1> QED
  BY <1>1, <1>2 DEF p

(* The three writes of a handler. *)
LEMMA WrittenFields ==
  ASSUME NEW q \in Response, ResponseInv(q), q.step = "handling"
  PROVE  LET w == written(q, 200)
         IN  /\ w \in Response /\ w.step = "handling" /\ w.body = q.body
             /\ w.wire = 200 /\ w.code \in {0, 200}
<1>1. q.wire \in {0, 200} /\ q.code \in {0, q.wire}
  BY DEF ResponseInv
<1>2. CASE q.wire = 0
  <2> DEFINE w == [q EXCEPT !.wire = 200, !.code = 200]
  <2>1. w \in Response /\ w.step = q.step /\ w.body = q.body /\ w.wire = 200 /\ w.code = 200
    <3> DEFINE v == [q EXCEPT !.wire = 200]
    <3>1. v \in Response /\ v.step = q.step /\ v.body = q.body /\ v.wire = 200
      BY DEF Response
    <3>2. w = [v EXCEPT !.code = 200]
      OBVIOUS
    <3> HIDE DEF v, w
    <3> QED
      BY <3>1, <3>2 DEF Response
  <2>2. written(q, 200) = w
    BY <1>2 DEF written
  <2> HIDE DEF w
  <2> QED
    BY <2>1, <2>2
<1>3. CASE q.wire = 200
  BY <1>1, <1>3 DEF written
<1> QED
  BY <1>1, <1>2, <1>3

LEMMA WritesInv ==
  ASSUME NEW q \in Response, ResponseInv(q), q.step = "handling",
         NEW p,
         \/ p = [written(q, 200) EXCEPT !.committed = TRUE]
         \/ p = [written(q, 200) EXCEPT !.committed = TRUE,
                                       !.body = written(q, 200).body \cup {"handler"}]
         \/ p = [q EXCEPT !.committed = TRUE, !.wire = IF q.wire = 0 THEN 200 ELSE q.wire]
  PROVE  p \in Response /\ ResponseInv(p) /\ p.step = "handling"
<1> DEFINE w == written(q, 200)
           b == w.body \cup {"handler"}
           y == IF q.wire = 0 THEN 200 ELSE q.wire
<1>1. /\ w \in Response /\ w.step = "handling" /\ w.body = q.body
      /\ w.wire = 200 /\ w.code \in {0, 200}
  BY WrittenFields
<1>2. q.wire \in {0, 200} /\ q.code \in {0, q.wire} /\ q.body \in {{}, {"handler"}}
  BY DEF ResponseInv
<1>3. b = {"handler"} /\ b \in Bodies /\ y = 200
  BY <1>1, <1>2, Members
<1>4. /\ p \in Response /\ p.step = "handling" /\ p.committed = TRUE /\ p.wire = 200
      /\ p.code \in {0, 200} /\ p.body \in {q.body, b}
  <2> HIDE DEF w, b, y
  <2>1. CASE p = [w EXCEPT !.committed = TRUE]
    BY <1>1, <2>1 DEF Response
  <2>2. CASE p = [w EXCEPT !.committed = TRUE, !.body = b]
    BY <1>1, <1>3, <2>2 DEF Response
  <2>3. CASE p = [q EXCEPT !.committed = TRUE, !.wire = y]
    <3> DEFINE v == [q EXCEPT !.committed = TRUE]
    <3>1. v \in Response /\ v.step = q.step /\ v.committed = TRUE /\ v.code = q.code /\ v.body = q.body
      BY DEF Response
    <3>2. p = [v EXCEPT !.wire = y] /\ y \in Nat
      BY <1>3, <2>3
    <3> HIDE DEF v
    <3>3. /\ p \in Response /\ p.step = v.step /\ p.committed = v.committed /\ p.code = v.code
          /\ p.body = v.body /\ p.wire = y
      BY <3>1, <3>2 DEF Response
    <3> QED
      BY <1>2, <1>3, <3>1, <3>3
  <2> QED
    BY <2>1, <2>2, <2>3 DEF w, b, y
<1> HIDE DEF w, b
<1>5. p.body \in {{}, {"handler"}}
  BY <1>2, <1>3, <1>4
<1> QED
  BY <1>4, <1>5 DEF ResponseInv

(* The handler returns, or its panic reaches Recovery. *)
LEMMA ReturnsInv ==
  ASSUME NEW q \in Response, ResponseInv(q), q.step = "handling"
  PROVE  /\ RequestLogger(q) \in Response /\ ResponseInv(RequestLogger(q))
         /\ RequestLogger(q).step = "done"
<1>1. q.wire \in {0, 200} /\ q.code \in {0, q.wire} /\ q.body \in {{}, {"handler"}}
  BY DEF ResponseInv
<1> DEFINE s == IF q.code = 0 THEN 200 ELSE q.code
           x == IF q.wire = 0 THEN 200 ELSE q.wire
           l == << s, outcome(s) >>
           z == [q EXCEPT !.step = "done", !.wire = x, !.logged = l]
<1>2. RequestLogger(q) = z
  BY DEF RequestLogger
<1>3. s = 200 /\ x = 200
  BY <1>1
<1>4. l \in Logs /\ l[1] = 200
  BY <1>3, Members
<1> HIDE DEF x, l, s
<1>5. z \in Response /\ z.step = "done" /\ z.wire = x /\ z.body = q.body /\ z.logged = l
  <2> DEFINE v == [q EXCEPT !.step = "done"]
             u == [v EXCEPT !.wire = x]
  <2>1. "done" \in Steps /\ x \in Nat /\ l \in Logs
    BY <1>3, <1>4, Members
  <2>2. v \in Response /\ v.step = "done" /\ v.body = q.body
    BY <2>1 DEF Response
  <2>3. z = [u EXCEPT !.logged = l]
    OBVIOUS
  <2> HIDE DEF v, z
  <2>4. u \in Response /\ u.step = "done" /\ u.body = q.body /\ u.wire = x
    BY <2>1, <2>2 DEF Response
  <2> HIDE DEF u
  <2> QED
    BY <2>1, <2>3, <2>4 DEF Response
<1> HIDE DEF z
<1>6. ResponseInv(z)
  BY <1>1, <1>3, <1>4, <1>5 DEF ResponseInv
<1> QED
  BY <1>2, <1>5, <1>6

LEMMA AbortsInv ==
  ASSUME NEW q \in Response, ResponseInv(q), q.step = "handling"
  PROVE  LET z == abortRecoveredResponse(q)
         IN  z \in Response /\ ResponseInv(z) /\ z.step = "done"
<1>1. q.wire \in {0, 200} /\ q.code \in {0, q.wire} /\ q.body \in {{}, {"handler"}}
  BY DEF ResponseInv
<1> DEFINE s == IF q.code = 0 THEN q.wire ELSE q.code
           l == << s, "aborted" >>
           z == [q EXCEPT !.step = "done", !.logged = l]
<1>2. abortRecoveredResponse(q) = z
  BY DEF abortRecoveredResponse
<1>3. s = q.wire
  BY <1>1
<1>4. l \in Logs /\ l[1] = q.wire
  BY <1>3, Typed, Members
<1> HIDE DEF l, s
<1>5. z \in Response /\ z.step = "done" /\ z.wire = q.wire /\ z.body = q.body /\ z.logged = l
  BY <1>4, Members DEF Response
<1> HIDE DEF z
<1>6. ResponseInv(z)
  BY <1>1, <1>4, <1>5 DEF ResponseInv
<1> QED
  BY <1>2, <1>5, <1>6

RecoveredFrom(p) == [p EXCEPT !.step = "done", !.body = p.body \cup {"error"},
                              !.logged = << p.code, "server_error" >>]

Recovered(q) == RecoveredFrom(written(q, 500))

LEMMA RecoversInv ==
  ASSUME NEW q \in Response, ResponseInv(q), q.step = "handling", ~q.committed
  PROVE  LET z == Recovered(q)
         IN  z \in Response /\ ResponseInv(z) /\ z.step = "done"
<1>1. q.wire = 0 /\ q.body = {}
  BY DEF ResponseInv
<1> DEFINE p == [q EXCEPT !.wire = 500, !.code = 500]
           b == p.body \cup {"error"}
           l == << p.code, "server_error" >>
           z == [p EXCEPT !.step = "done", !.body = b, !.logged = l]
<1>2. written(q, 500) = p
  BY <1>1 DEF written
<1>3. p \in Response /\ p.wire = 500 /\ p.code = 500 /\ p.body = {}
  <2> DEFINE v == [q EXCEPT !.wire = 500]
  <2>1. v \in Response /\ v.wire = 500 /\ v.body = q.body
    BY DEF Response
  <2>2. p = [v EXCEPT !.code = 500]
    OBVIOUS
  <2> HIDE DEF v, p
  <2> QED
    BY <1>1, <2>1, <2>2 DEF Response
<1> HIDE DEF p
<1>4. b = {"error"} /\ b \in Bodies
  BY <1>3, Members
<1>5. l \in Logs /\ l[1] = 500
  BY <1>3, Members
<1> HIDE DEF b, l
<1>6. z \in Response /\ z.step = "done" /\ z.wire = 500 /\ z.body = b /\ z.logged = l
  <2> DEFINE v == [p EXCEPT !.step = "done"]
             u == [v EXCEPT !.body = b]
  <2>1. "done" \in Steps /\ p \in Response /\ l \in Logs /\ b \in Bodies
    BY <1>3, <1>4, <1>5, Members
  <2>2. v \in Response /\ v.step = "done" /\ v.wire = p.wire
    BY <2>1 DEF Response
  <2>3. z = [u EXCEPT !.logged = l]
    OBVIOUS
  <2> HIDE DEF v, z
  <2>4. u \in Response /\ u.step = "done" /\ u.body = b /\ u.wire = p.wire
    BY <2>1, <2>2 DEF Response
  <2> HIDE DEF u
  <2>5. z \in Response /\ z.step = "done" /\ z.body = b /\ z.wire = p.wire /\ z.logged = l
    BY <2>1, <2>3, <2>4 DEF Response
  <2> QED
    BY <1>3, <2>5
<1>7. ResponseInv(z)
  <2> HIDE DEF z
  <2> QED
    BY <1>4, <1>5, <1>6 DEF ResponseInv
<1>8. Recovered(q) = z
  <2>1. Recovered(q) = RecoveredFrom(p)
    BY <1>2, Zenon DEF Recovered
  <2>2. RecoveredFrom(p) = z
    BY Zenon DEF RecoveredFrom, b, l
  <2> QED
    BY <2>1, <2>2, Zenon
<1> HIDE DEF z
<1> QED
  BY <1>6, <1>7, <1>8

-----------------------------------------------------------------------------
(* The windows of all keys *)

Live(k) == k \in DOMAIN entries /\ entries[k].age < RateWindow

EntriesInv ==
  /\ DOMAIN entries \subseteq Keys /\ IsFiniteSet(DOMAIN entries)
  /\ Cardinality(DOMAIN entries) <= RateMaxKeys
  /\ \A k \in DOMAIN entries : entries[k] \in Entry

WindowsInv ==
  /\ recent \in [Keys -> Seq(Nat)]
  /\ \A k \in Keys : AgesFall(recent[k])
  /\ \A k \in Keys : Live(k) => Running(recent[k], entries[k])
  /\ \A k \in Keys : ~Live(k) => Rested(recent[k])

LEMMA EntryFields ==
  ASSUME NEW e \in Entry
  PROVE  /\ e.age \in Nat /\ e.count \in Nat
         /\ \A n \in Nat : LET f == [e EXCEPT !.age = n]
                           IN  f \in Entry /\ f.age = n /\ f.count = e.count
         /\ \A n \in Nat : LET f == [e EXCEPT !.count = n]
                           IN  f \in Entry /\ f.age = e.age /\ f.count = n
BY DEF Entry

LEMMA WindowsInit ==
  ASSUME AdmissionInit
  PROVE  EntriesInv /\ WindowsInv
<1>1. DOMAIN entries = {} /\ recent = [k \in Keys |-> << >>]
  BY DEF AdmissionInit
<1>2. EntriesInv
  BY <1>1, FS_EmptySet, Constants DEF EntriesInv
<1>3. << >> \in Seq(Nat) /\ Len(<< >>) = 0
  OBVIOUS
<1>4. AgesFall(<< >>) /\ Rested(<< >>)
  BY <1>3, Constants DEF AgesFall, Rested
<1>5. \A k \in Keys : ~Live(k)
  BY <1>1 DEF Live
<1> QED
  BY <1>1, <1>2, <1>3, <1>4, <1>5 DEF WindowsInv

(* A moment later a window that ran still runs, or has just ended. *)
LEMMA WindowsTick ==
  ASSUME EntriesInv, WindowsInv, Tick
  PROVE  EntriesInv' /\ WindowsInv'
<1> DEFINE older(e) == [e EXCEPT !.age = IF e.age < RateWindow THEN e.age + 1 ELSE e.age]
<1>1. /\ DOMAIN entries' = DOMAIN entries
      /\ \A k \in DOMAIN entries : entries'[k] = older(entries[k])
      /\ recent' = [k \in Keys |-> Later(recent[k])]
  BY DEF Tick
<1>2. \A e \in Entry : /\ older(e) \in Entry /\ older(e).count = e.count
                       /\ older(e).age = IF e.age < RateWindow THEN e.age + 1 ELSE e.age
                       /\ e.age < RateWindow => older(e) = [e EXCEPT !.age = e.age + 1]
  <2> SUFFICES ASSUME NEW e \in Entry
               PROVE  /\ older(e) \in Entry /\ older(e).count = e.count
                      /\ older(e).age = IF e.age < RateWindow THEN e.age + 1 ELSE e.age
                      /\ e.age < RateWindow => older(e) = [e EXCEPT !.age = e.age + 1]
    OBVIOUS
  <2>1. e.age < RateWindow => older(e) = [e EXCEPT !.age = e.age + 1]
    OBVIOUS
  <2> DEFINE n == IF e.age < RateWindow THEN e.age + 1 ELSE e.age
  <2>2. n \in Nat
    BY EntryFields
  <2> HIDE DEF n
  <2>3. older(e) = [e EXCEPT !.age = n]
    BY DEF n
  <2>4. older(e) \in Entry /\ older(e).count = e.count /\ older(e).age = n
    BY <2>2, <2>3 DEF Entry
  <2> QED
    BY <2>1, <2>4 DEF n
<1> HIDE DEF older
<1>3. EntriesInv'
  BY <1>1, <1>2 DEF EntriesInv
<1>4. /\ recent' \in [Keys -> Seq(Nat)]
      /\ \A k \in Keys : recent'[k] = Later(recent[k]) /\ AgesFall(recent'[k])
  BY <1>1, LaterFalls DEF WindowsInv
<1>5. ASSUME NEW k \in Keys, Live(k)'
      PROVE  Running(recent'[k], entries'[k])
  <2>1. k \in DOMAIN entries /\ entries[k] \in Entry /\ entries'[k] = older(entries[k])
    BY <1>1, <1>5 DEF Live, EntriesInv
  <2>2. older(entries[k]).age < RateWindow
    BY <1>5, <2>1 DEF Live
  <2>3. entries[k].age + 1 < RateWindow
    BY <1>2, <2>1, <2>2, Constants DEF Entry
  <2>4. Live(k)
    BY <2>1, <2>3, Constants DEF Live, Entry
  <2>5. /\ recent[k] \in Seq(Nat) /\ AgesFall(recent[k]) /\ Running(recent[k], entries[k])
    BY <2>4 DEF WindowsInv
  <2>6. Running(Later(recent[k]), [entries[k] EXCEPT !.age = entries[k].age + 1])
    BY <2>1, <2>3, <2>5, LaterRuns
  <2>7. older(entries[k]) = [entries[k] EXCEPT !.age = entries[k].age + 1]
    BY <1>2, <2>1, <2>4 DEF Live
  <2> QED
    BY <1>4, <2>1, <2>6, <2>7
<1>6. ASSUME NEW k \in Keys, ~Live(k)'
      PROVE  Rested(recent'[k])
  <2>1. recent[k] \in Seq(Nat) /\ AgesFall(recent[k])
    BY DEF WindowsInv
  <2>2. CASE Live(k)
    <3>1. k \in DOMAIN entries /\ entries[k] \in Entry /\ entries[k].age < RateWindow
      BY <2>2 DEF Live, EntriesInv
    <3>2. ~(older(entries[k]).age < RateWindow) /\ older(entries[k]).age = entries[k].age + 1
      BY <1>1, <1>2, <1>6, <3>1 DEF Live
    <3>3. entries[k].age + 1 >= RateWindow
      BY <3>1, <3>2, Constants DEF Entry
    <3>4. Running(recent[k], entries[k])
      BY <2>2 DEF WindowsInv
    <3> QED
      BY <1>4, <2>1, <3>1, <3>3, <3>4, LaterEnds
  <2>3. CASE ~Live(k)
    BY <1>4, <2>1, <2>3, LaterRests DEF WindowsInv
  <2> QED
    BY <2>2, <2>3
<1> QED
  BY <1>3, <1>4, <1>5, <1>6 DEF WindowsInv

(* Making room drops no window that runs. *)
LEMMA RoomKeeps ==
  ASSUME EntriesInv, NEW k \in Keys
  PROVE  LET kept == room(k)
         IN  /\ DOMAIN kept \subseteq DOMAIN entries /\ IsFiniteSet(DOMAIN kept)
             /\ Cardinality(DOMAIN kept) <= RateMaxKeys
             /\ \A j \in DOMAIN kept : kept[j] = entries[j]
             /\ \A j \in DOMAIN entries : entries[j].age < RateWindow => j \in DOMAIN kept
<1> DEFINE S == {j \in DOMAIN entries : entries[j].age < RateWindow}
<1>1. /\ S \subseteq DOMAIN entries /\ IsFiniteSet(S)
      /\ Cardinality(S) <= Cardinality(DOMAIN entries)
  BY FS_Subset DEF EntriesInv
<1>2. /\ Cardinality(S) \in Nat /\ Cardinality(DOMAIN entries) \in Nat
      /\ Cardinality(DOMAIN entries) <= RateMaxKeys
  BY <1>1, FS_CardinalityType DEF EntriesInv
<1>3. Cardinality(S) <= RateMaxKeys
  BY <1>1, <1>2, Constants
<1>4. room(k) = [j \in S |-> entries[j]] \/ room(k) = entries
  BY DEF room
<1>5. CASE room(k) = [j \in S |-> entries[j]]
  BY <1>1, <1>3, <1>5
<1>6. CASE room(k) = entries
  BY <1>2, <1>6 DEF EntriesInv
<1> QED
  BY <1>4, <1>5, <1>6

(* One more request of a key that the limiter has a place for. *)
LEMMA WindowCounts ==
  ASSUME EntriesInv, WindowsInv, NEW k \in Keys, NEW kept,
         k \in DOMAIN kept => k \in DOMAIN entries /\ kept[k] = entries[k],
         Live(k) => k \in DOMAIN kept
  PROVE  LET entry == counted(kept, k)
             ages  == IF entry.count =< RateLimit THEN Append(recent[k], 0) ELSE recent[k]
         IN  /\ capped(entry) \in Entry /\ capped(entry).age < RateWindow
             /\ ages \in Seq(Nat) /\ AgesFall(ages) /\ Running(ages, capped(entry))
<1> DEFINE entry == counted(kept, k)
           old == recent[k]
           ages == IF entry.count =< RateLimit THEN Append(old, 0) ELSE old
<1>1. /\ old \in Seq(Nat) /\ AgesFall(old) /\ Append(old, 0) \in Seq(Nat) /\ AgesFall(Append(old, 0))
  BY AppendFacts, AppendFalls DEF WindowsInv
<1>2. CASE Live(k)
  <2> DEFINE e == entries[k]
             n == e.count + 1
             f == [e EXCEPT !.count = n]
             m == IF n > RateLimit THEN RateLimit + 1 ELSE n
  <2>1. /\ k \in DOMAIN kept /\ kept[k] = e /\ e \in Entry /\ e.age < RateWindow
        /\ Running(old, e)
    BY <1>2 DEF Live, EntriesInv, WindowsInv
  <2>2. e.age \in Nat /\ e.count \in Nat /\ RateWindow \in Nat /\ RateLimit \in Nat
    BY <2>1, EntryFields, Constants
  <2>3. entry = f
    BY <2>1, <2>2 DEF counted
  <2> HIDE DEF e, entry
  <2>4. n \in Nat /\ m \in Nat
    BY <2>2
  <2>5. f \in Entry /\ f.age = e.age /\ f.count = n
    <3> HIDE DEF n
    <3> QED
      BY <2>1, <2>4 DEF Entry
  <2>6. CASE n <= RateLimit
    <3>1. Running(Append(old, 0), f)
      BY <1>1, <2>1, <2>6, WindowAdmits
    <3> HIDE DEF f, n, m
    <3>2. entry.count = n /\ ages = Append(old, 0)
      BY <2>3, <2>5, <2>6
    <3>3. capped(entry) = entry
      <4>1. ~(entry.count > RateLimit)
        BY <2>2, <2>4, <2>6, <3>2
      <4>2. entry = [entry EXCEPT !.count = entry.count]
        BY <2>3, <2>5 DEF Entry
      <4> QED
        BY <4>1, <4>2 DEF capped
    <3>4. capped(entry) \in Entry /\ capped(entry).age < RateWindow /\ Running(ages, capped(entry))
      BY <2>1, <2>3, <2>5, <3>1, <3>2, <3>3
    <3> QED
      BY <1>1, <3>2, <3>4 DEF entry
  <2>7. CASE ~(n <= RateLimit)
    <3> DEFINE g == [f EXCEPT !.count = RateLimit + 1]
    <3>1. entry.count = n /\ n > RateLimit
      BY <2>2, <2>3, <2>4, <2>5, <2>7
    <3>2. ages = old
      BY <2>7, <3>1
    <3>3. capped(entry) = g
      BY <2>3, <3>1 DEF capped
    <3>4. RateLimit + 1 \in Nat
      BY <2>2
    <3> HIDE DEF f
    <3>5. g \in Entry /\ g.age = f.age /\ g.count = RateLimit + 1
      <4> DEFINE x == RateLimit + 1
      <4>1. g = [f EXCEPT !.count = x] /\ x \in Nat
        BY <3>4
      <4> HIDE DEF x, g
      <4>2. g \in Entry /\ g.age = f.age /\ g.count = x
        BY <2>5, <4>1 DEF Entry
      <4> QED
        BY <4>2 DEF x
    <3> HIDE DEF g
    <3>6. g.age = e.age /\ g.count >= RateLimit
      BY <2>2, <2>5, <3>5
    <3>7. Running(old, g)
      BY <1>1, <2>1, <3>5, <3>6, WindowRefuses
    <3> QED
      BY <1>1, <2>1, <3>2, <3>3, <3>5, <3>6, <3>7 DEF entry
  <2> QED
    BY <2>6, <2>7
<1>3. CASE ~Live(k)
  <2> DEFINE e == [age |-> 0, count |-> 1]
  <2>1. k \notin DOMAIN kept \/ kept[k].age >= RateWindow
    BY <1>3, Constants DEF Live, EntriesInv, Entry
  <2>2. entry = e
    BY <2>1 DEF counted
  <2>3. e \in Entry /\ e.age = 0 /\ e.count = 1
    BY DEF Entry
  <2>4. Running(Append(old, 0), e)
    BY <1>1, <1>3, WindowStarts DEF WindowsInv
  <2> HIDE DEF e, entry
  <2>5. entry.count = 1 /\ ages = Append(old, 0)
    BY <2>2, <2>3, Constants
  <2>6. capped(entry) = entry
    <3>1. ~(entry.count > RateLimit)
      BY <2>5, Constants
    <3>2. entry = [entry EXCEPT !.count = entry.count]
      BY <2>2, <2>3 DEF Entry
    <3> QED
      BY <3>1, <3>2 DEF capped
  <2>7. capped(entry) \in Entry /\ capped(entry).age < RateWindow /\ Running(ages, capped(entry))
    BY <2>2, <2>3, <2>4, <2>5, <2>6, Constants
  <2> QED
    BY <1>1, <2>5, <2>7 DEF entry
<1> QED
  BY <1>2, <1>3

LEMMA WindowsAllow ==
  ASSUME EntriesInv, WindowsInv, NEW r \in Requests, NEW k \in Keys, Allow(r, k)
  PROVE  EntriesInv' /\ WindowsInv'
<1> DEFINE kept == room(k)
           full == k \notin DOMAIN kept /\ Cardinality(DOMAIN kept) >= RateMaxKeys
           entry == counted(kept, k)
           ages == IF entry.count =< RateLimit THEN Append(recent[k], 0) ELSE recent[k]
           c == capped(entry)
<1>1. /\ DOMAIN kept \subseteq DOMAIN entries /\ IsFiniteSet(DOMAIN kept)
      /\ Cardinality(DOMAIN kept) <= RateMaxKeys
      /\ \A j \in DOMAIN kept : kept[j] = entries[j]
      /\ \A j \in DOMAIN entries : entries[j].age < RateWindow => j \in DOMAIN kept
  BY RoomKeeps
<1>2. /\ entries' = IF full THEN kept
                    ELSE [j \in DOMAIN kept \cup {k} |-> IF j = k THEN c ELSE kept[j]]
      /\ recent' = IF ~full /\ entry.count =< RateLimit
                   THEN [recent EXCEPT ![k] = Append(recent[k], 0)] ELSE recent
  BY DEF Allow
<1>3. /\ c \in Entry /\ c.age < RateWindow
      /\ ages \in Seq(Nat) /\ AgesFall(ages) /\ Running(ages, c)
  <2>1. Live(k) => k \in DOMAIN kept
    BY <1>1 DEF Live
  <2> HIDE DEF kept
  <2> QED
    BY <1>1, <2>1, WindowCounts
<1>4. recent \in [Keys -> Seq(Nat)]
  BY DEF WindowsInv
<1>5. CASE full
  <2>1. entries' = kept /\ recent' = recent
    BY <1>2, <1>5
  <2> HIDE DEF kept, entry, c
  <2>2. EntriesInv'
    BY <1>1, <2>1 DEF EntriesInv
  <2>3. \A j \in Keys : Live(j)' <=> Live(j)
    BY <1>1, <2>1 DEF Live
  <2>4. \A j \in Keys : Live(j) => entries'[j] = entries[j]
    BY <1>1, <2>1 DEF Live
  <2> QED
    BY <2>1, <2>2, <2>3, <2>4 DEF WindowsInv
<1>6. CASE ~full
  <2>1. /\ entries' = [j \in DOMAIN kept \cup {k} |-> IF j = k THEN c ELSE kept[j]]
        /\ recent' = IF entry.count =< RateLimit
                     THEN [recent EXCEPT ![k] = Append(recent[k], 0)] ELSE recent
    BY <1>2, <1>6
  <2>2. k \in DOMAIN kept \/ ~(Cardinality(DOMAIN kept) >= RateMaxKeys)
    BY <1>6
  <2>3. recent' \in [Keys -> Seq(Nat)] /\ recent'[k] = ages
        /\ \A j \in Keys \ {k} : recent'[j] = recent[j]
    <3>1. CASE entry.count =< RateLimit
      <4> HIDE DEF entry
      <4>1. ages = Append(recent[k], 0) /\ recent' = [recent EXCEPT ![k] = ages]
        BY <2>1, <3>1
      <4> HIDE DEF ages
      <4> QED
        BY <1>3, <1>4, <4>1
    <3>2. CASE ~(entry.count =< RateLimit)
      <4> HIDE DEF entry
      <4> QED
        BY <1>4, <2>1, <3>2
    <3> QED
      BY <3>1, <3>2
  <2> HIDE DEF kept, entry, c, ages
  <2>4. /\ DOMAIN entries' = DOMAIN kept \cup {k} /\ entries'[k] = c
        /\ \A j \in DOMAIN kept \ {k} : entries'[j] = entries[j]
    BY <1>1, <2>1
  <2>5. /\ IsFiniteSet(DOMAIN kept \cup {k})
        /\ Cardinality(DOMAIN kept \cup {k}) <= RateMaxKeys
    <3>1. Cardinality(DOMAIN kept) \in Nat /\ RateMaxKeys \in Nat
      BY <1>1, FS_CardinalityType, Constants
    <3>2. CASE k \in DOMAIN kept
      <4>1. DOMAIN kept \cup {k} = DOMAIN kept
        BY <3>2
      <4> QED
        BY <1>1, <4>1
    <3>3. CASE k \notin DOMAIN kept
      <4>1. /\ IsFiniteSet(DOMAIN kept \cup {k})
            /\ Cardinality(DOMAIN kept \cup {k}) = Cardinality(DOMAIN kept) + 1
        BY <1>1, <3>3, FS_AddElement
      <4> QED
        BY <2>2, <3>1, <3>3, <4>1
    <3> QED
      BY <3>2, <3>3
  <2>6. EntriesInv'
    BY <1>1, <1>3, <2>4, <2>5 DEF EntriesInv
  <2>7. /\ Live(k)'
        /\ \A j \in Keys \ {k} : (Live(j)' <=> Live(j)) /\ (Live(j) => entries'[j] = entries[j])
    BY <1>1, <1>3, <2>4 DEF Live
  <2>8. /\ Running(recent'[k], entries'[k]) /\ AgesFall(recent'[k])
    BY <1>3, <2>3, <2>4
  <2>9. ASSUME NEW j \in Keys \ {k}
        PROVE  /\ AgesFall(recent'[j])
               /\ Live(j)' => Running(recent'[j], entries'[j])
               /\ ~Live(j)' => Rested(recent'[j])
    BY <2>3, <2>7 DEF WindowsInv
  <2> QED
    BY <2>3, <2>6, <2>7, <2>8, <2>9 DEF WindowsInv
<1> QED
  BY <1>5, <1>6

-----------------------------------------------------------------------------
(* The handlers that run *)

Handling == {r \in Requests : req[r].step = "handling"}

RequestsInv ==
  /\ req \in [Requests -> Response]
  /\ \A r \in Requests : ResponseInv(req[r])
  /\ IsFiniteSet(Handling) /\ tokens = Cardinality(Handling) /\ tokens <= Concurrency

LEMMA ResponseChanges ==
  ASSUME RequestsInv, NEW r \in Requests, NEW p \in Response, ResponseInv(p),
         req' = [req EXCEPT ![r] = p]
  PROVE  /\ req' \in [Requests -> Response] /\ \A s \in Requests : ResponseInv(req'[s])
         /\ p.step = "handling" => Handling' = Handling \cup {r}
         /\ p.step # "handling" => Handling' = Handling \ {r}
         /\ r \in Handling <=> req[r].step = "handling"
<1>1. req \in [Requests -> Response] /\ \A s \in Requests : ResponseInv(req[s])
  BY DEF RequestsInv
<1>2. req' \in [Requests -> Response] /\ req'[r] = p /\ \A s \in Requests \ {r} : req'[s] = req[s]
  BY <1>1
<1> QED
  BY <1>1, <1>2 DEF Handling

(* The token and the handler change together. *)
LEMMA RequestStays ==
  ASSUME RequestsInv, NEW r \in Requests, NEW p \in Response, ResponseInv(p),
         req' = [req EXCEPT ![r] = p], tokens' = tokens,
         req[r].step = "handling" <=> p.step = "handling"
  PROVE  RequestsInv'
<1>1. CASE p.step = "handling"
  <2>1. Handling' = Handling \cup {r} /\ r \in Handling
    BY <1>1, ResponseChanges
  <2>2. Handling' = Handling
    BY <2>1
  <2> QED
    BY <2>2, ResponseChanges DEF RequestsInv
<1>2. CASE p.step # "handling"
  <2>1. Handling' = Handling \ {r} /\ r \notin Handling
    BY <1>2, ResponseChanges
  <2>2. Handling' = Handling
    BY <2>1
  <2> QED
    BY <2>2, ResponseChanges DEF RequestsInv
<1> QED
  BY <1>1, <1>2

LEMMA RequestEnters ==
  ASSUME RequestsInv, NEW r \in Requests, NEW p \in Response, ResponseInv(p),
         req' = [req EXCEPT ![r] = p], tokens' = tokens + 1, tokens < Concurrency,
         req[r].step # "handling", p.step = "handling"
  PROVE  RequestsInv'
<1>1. Handling' = Handling \cup {r} /\ r \notin Handling
  BY ResponseChanges
<1>2. IsFiniteSet(Handling) /\ tokens = Cardinality(Handling) /\ tokens \in Nat
  BY FS_CardinalityType DEF RequestsInv
<1>3. IsFiniteSet(Handling') /\ Cardinality(Handling') = Cardinality(Handling) + 1
  BY <1>1, <1>2, FS_AddElement
<1>4. tokens' = Cardinality(Handling') /\ tokens' <= Concurrency
  BY <1>2, <1>3, Constants
<1> QED
  BY <1>3, <1>4, ResponseChanges DEF RequestsInv

LEMMA RequestLeaves ==
  ASSUME RequestsInv, NEW r \in Requests, NEW p \in Response, ResponseInv(p),
         req' = [req EXCEPT ![r] = p], tokens' = tokens - 1,
         req[r].step = "handling", p.step = "done"
  PROVE  RequestsInv'
<1>1. Handling' = Handling \ {r} /\ r \in Handling
  BY ResponseChanges
<1>2. /\ IsFiniteSet(Handling) /\ tokens = Cardinality(Handling) /\ tokens \in Nat
      /\ tokens <= Concurrency
  BY FS_CardinalityType DEF RequestsInv
<1>3. IsFiniteSet(Handling') /\ Cardinality(Handling') = Cardinality(Handling) - 1
  BY <1>1, <1>2, FS_RemoveElement
<1>4. tokens' = Cardinality(Handling') /\ tokens' <= Concurrency
  BY <1>2, <1>3, Constants
<1> QED
  BY <1>3, <1>4, ResponseChanges DEF RequestsInv

LEMMA RequestsInit ==
  ASSUME AdmissionInit
  PROVE  RequestsInv
<1>1. req = [r \in Requests |-> NoRequest] /\ tokens = 0
  BY DEF AdmissionInit
<1>2. req \in [Requests -> Response] /\ \A r \in Requests : ResponseInv(req[r])
  BY <1>1, NoRequestInv
<1>3. Handling = {}
  BY <1>1, NoRequestInv DEF Handling
<1> QED
  BY <1>1, <1>2, <1>3, FS_EmptySet, Constants DEF RequestsInv

LEMMA RequestsAllow ==
  ASSUME RequestsInv, NEW r \in Requests, NEW k \in Keys, Allow(r, k)
  PROVE  RequestsInv'
<1> DEFINE q == req[r]
           a == [q EXCEPT !.step = "admitted"]
           l == writeRateLimited(q)
<1>1. q \in Response /\ ResponseInv(q) /\ q.step = "idle" /\ tokens' = tokens
  BY DEF RequestsInv, Allow
<1>2. req' = [req EXCEPT ![r] = a] \/ req' = [req EXCEPT ![r] = l]
  BY DEF Allow
<1> HIDE DEF q
<1>3. a \in Response /\ ResponseInv(a) /\ a.step = "admitted"
  BY <1>1, AdmittedInv
<1>4. l \in Response /\ ResponseInv(l) /\ l.step = "done"
  BY <1>1, LimitedInv
<1> HIDE DEF a, l
<1>5. q = req[r]
  BY DEF q
<1>6. CASE req' = [req EXCEPT ![r] = a]
  BY <1>1, <1>3, <1>5, <1>6, RequestStays
<1>7. CASE req' = [req EXCEPT ![r] = l]
  BY <1>1, <1>4, <1>5, <1>7, RequestStays
<1> QED
  BY <1>2, <1>6, <1>7

LEMMA RequestsBounded ==
  ASSUME RequestsInv, NEW r \in Requests, BoundedConcurrency(r)
  PROVE  RequestsInv'
<1> DEFINE q == req[r]
           h == [q EXCEPT !.step = "handling"]
           l == writeRateLimited(q)
<1>1. q \in Response /\ ResponseInv(q) /\ q.step = "admitted"
  BY DEF RequestsInv, BoundedConcurrency
<1>2. \/ req' = [req EXCEPT ![r] = h] /\ tokens < Concurrency /\ tokens' = tokens + 1
      \/ req' = [req EXCEPT ![r] = l] /\ tokens' = tokens
  BY DEF BoundedConcurrency
<1> HIDE DEF q
<1>3. h \in Response /\ ResponseInv(h) /\ h.step = "handling"
  BY <1>1, HandlingInv
<1>4. l \in Response /\ ResponseInv(l) /\ l.step = "done"
  BY <1>1, LimitedInv
<1> HIDE DEF h, l
<1>5. q = req[r]
  BY DEF q
<1>6. CASE req' = [req EXCEPT ![r] = h] /\ tokens < Concurrency /\ tokens' = tokens + 1
  BY <1>1, <1>3, <1>5, <1>6, RequestEnters
<1>7. CASE req' = [req EXCEPT ![r] = l] /\ tokens' = tokens
  BY <1>1, <1>4, <1>5, <1>7, RequestStays
<1> QED
  BY <1>2, <1>6, <1>7

LEMMA RequestsWrite ==
  ASSUME RequestsInv, NEW r \in Requests, WriteHeader(r) \/ Write(r) \/ Flush(r)
  PROVE  RequestsInv'
<1> DEFINE q == req[r]
           x == [written(q, 200) EXCEPT !.committed = TRUE]
           y == [written(q, 200) EXCEPT !.committed = TRUE,
                                        !.body = written(q, 200).body \cup {"handler"}]
           z == [q EXCEPT !.committed = TRUE, !.wire = IF q.wire = 0 THEN 200 ELSE q.wire]
<1>1. q \in Response /\ ResponseInv(q) /\ q.step = "handling" /\ tokens' = tokens
  BY DEF RequestsInv, WriteHeader, Write, Flush, Writes
<1>2. \E p \in {x, y, z} : req' = [req EXCEPT ![r] = p]
  <2>1. CASE WriteHeader(r)
    BY <2>1 DEF WriteHeader, Writes
  <2>2. CASE Write(r)
    <3>1. [written(q, 200) EXCEPT !.committed = TRUE, !.body = @ \cup {"handler"}] = y
      <4> DEFINE w == written(q, 200)
      <4>1. w \in Response
        BY <1>1, WrittenFields
      <4> HIDE DEF w
      <4>2. [w EXCEPT !.committed = TRUE, !.body = @ \cup {"handler"}]
              = [w EXCEPT !.committed = TRUE, !.body = w.body \cup {"handler"}]
        BY <4>1 DEF Response
      <4> QED
        BY <4>2 DEF w
    <3> QED
      BY <2>2, <3>1 DEF Write, Writes
  <2>3. CASE Flush(r)
    <3>1. [q EXCEPT !.committed = TRUE, !.wire = IF @ = 0 THEN 200 ELSE @] = z
      BY <1>1 DEF Response
    <3> QED
      BY <2>3, <3>1 DEF Flush, Writes
  <2> QED
    BY <2>1, <2>2, <2>3
<1>3. PICK p : p \in {x, y, z} /\ req' = [req EXCEPT ![r] = p]
  BY <1>2
<1>4. p = x \/ p = y \/ p = z
  BY <1>3
<1> HIDE DEF q
<1>5. p \in Response /\ ResponseInv(p) /\ p.step = "handling"
  BY <1>1, <1>4, WritesInv
<1>6. q = req[r]
  BY DEF q
<1> HIDE DEF x, y, z
<1> QED
  BY <1>1, <1>3, <1>5, <1>6, RequestStays

LEMMA RequestsReturn ==
  ASSUME RequestsInv, NEW r \in Requests, HandlerReturns(r)
  PROVE  RequestsInv'
<1> DEFINE q == req[r]
           l == RequestLogger(q)
<1>1. q \in Response /\ ResponseInv(q) /\ q.step = "handling"
  BY DEF RequestsInv, HandlerReturns
<1>2. req' = [req EXCEPT ![r] = l] /\ tokens' = tokens - 1
  BY DEF HandlerReturns
<1>3. q = req[r]
  OBVIOUS
<1> HIDE DEF q
<1>4. l \in Response /\ ResponseInv(l) /\ l.step = "done"
  BY <1>1, ReturnsInv
<1> HIDE DEF l
<1> QED
  BY <1>1, <1>2, <1>3, <1>4, RequestLeaves

LEMMA RequestsRecover ==
  ASSUME RequestsInv, NEW r \in Requests, NEW abort \in BOOLEAN, Recovery(r, abort)
  PROVE  RequestsInv'
<1> DEFINE q == req[r]
           a == abortRecoveredResponse(q)
           w == written(q, 500)
           e == Recovered(q)
<1>1. q \in Response /\ ResponseInv(q) /\ q.step = "handling" /\ tokens' = tokens - 1
  BY DEF RequestsInv, Recovery
<1>2. \/ req' = [req EXCEPT ![r] = a]
      \/ req' = [req EXCEPT ![r] = e] /\ ~q.committed
  <2>1. CASE abort \/ q.committed
    BY <2>1 DEF Recovery
  <2>2. CASE ~(abort \/ q.committed)
    <3>1. [w EXCEPT !.step = "done", !.body = @ \cup {"error"},
                    !.logged = << w.code, "server_error" >>] = e
      <4>1. w \in Response
        <5>1. q.wire = 0
          BY <1>1, <2>2 DEF ResponseInv
        <5>2. w = [q EXCEPT !.wire = 500, !.code = 500]
          BY <5>1 DEF written
        <5> DEFINE v == [q EXCEPT !.wire = 500]
        <5>3. v \in Response
          BY <1>1 DEF Response
        <5>4. w = [v EXCEPT !.code = 500]
          BY <5>2
        <5> HIDE DEF v, w
        <5> QED
          BY <5>3, <5>4 DEF Response
      <4>2. e = [w EXCEPT !.step = "done", !.body = w.body \cup {"error"},
                          !.logged = << w.code, "server_error" >>]
        BY Zenon DEF Recovered, RecoveredFrom
      <4> HIDE DEF w, e
      <4>3. [w EXCEPT !.step = "done", !.body = @ \cup {"error"},
                      !.logged = << w.code, "server_error" >>]
              = [w EXCEPT !.step = "done", !.body = w.body \cup {"error"},
                          !.logged = << w.code, "server_error" >>]
        BY <4>1 DEF Response
      <4> QED
        BY <4>2, <4>3
    <3>2. req' = [req EXCEPT ![r] = [w EXCEPT !.step = "done", !.body = @ \cup {"error"},
                                              !.logged = << w.code, "server_error" >>]]
      BY <2>2 DEF Recovery
    <3> QED
      BY <2>2, <3>1, <3>2
  <2> QED
    BY <2>1, <2>2
<1>3. q = req[r]
  OBVIOUS
<1> HIDE DEF q
<1>4. CASE req' = [req EXCEPT ![r] = a]
  <2>1. a \in Response /\ ResponseInv(a) /\ a.step = "done"
    BY <1>1, AbortsInv
  <2> HIDE DEF a
  <2> QED
    BY <1>1, <1>3, <1>4, <2>1, RequestLeaves
<1>5. CASE req' = [req EXCEPT ![r] = e] /\ ~q.committed
  <2>1. e \in Response /\ ResponseInv(e) /\ e.step = "done"
    BY <1>1, <1>5, RecoversInv
  <2> HIDE DEF e
  <2> QED
    BY <1>1, <1>3, <1>5, <2>1, RequestLeaves
<1> QED
  BY <1>2, <1>4, <1>5

LEMMA RequestsNext ==
  ASSUME RequestsInv, NEW r \in Requests, NextRequest(r)
  PROVE  RequestsInv'
<1>1. req[r].step = "done" /\ req' = [req EXCEPT ![r] = NoRequest] /\ tokens' = tokens
  BY DEF NextRequest
<1> QED
  BY <1>1, NoRequestInv, RequestStays

-----------------------------------------------------------------------------
(* The limits hold *)

AdmissionInv == EntriesInv /\ WindowsInv /\ RequestsInv

LEMMA AdmissionStep ==
  ASSUME AdmissionInv, [AdmissionNext]_avars
  PROVE  AdmissionInv'
<1> USE DEF AdmissionInv
<1>1. CASE Tick
  <2>1. req' = req /\ tokens' = tokens
    BY <1>1 DEF Tick
  <2>2. RequestsInv'
    BY <2>1 DEF RequestsInv, Handling
  <2> QED
    BY <1>1, <2>2, WindowsTick
<1>2. ASSUME NEW r \in Requests, NEW k \in Keys, Allow(r, k)
      PROVE  AdmissionInv'
  BY <1>2, WindowsAllow, RequestsAllow
<1>3. ASSUME entries' = entries, recent' = recent, RequestsInv'
      PROVE  AdmissionInv'
  BY <1>3 DEF EntriesInv, WindowsInv, Live
<1>4. ASSUME NEW r \in Requests, BoundedConcurrency(r)
      PROVE  AdmissionInv'
  BY <1>3, <1>4, RequestsBounded DEF BoundedConcurrency
<1>5. ASSUME NEW r \in Requests, WriteHeader(r) \/ Write(r) \/ Flush(r)
      PROVE  AdmissionInv'
  BY <1>3, <1>5, RequestsWrite DEF WriteHeader, Write, Flush, Writes
<1>6. ASSUME NEW r \in Requests, HandlerReturns(r)
      PROVE  AdmissionInv'
  BY <1>3, <1>6, RequestsReturn DEF HandlerReturns
<1>7. ASSUME NEW r \in Requests, NEW abort \in BOOLEAN, Recovery(r, abort)
      PROVE  AdmissionInv'
  <2>1. entries' = entries /\ recent' = recent
    BY <1>7 DEF Recovery
  <2>2. RequestsInv'
    BY <1>7, RequestsRecover
  <2> QED
    BY <1>3, <2>1, <2>2
<1>8. ASSUME NEW r \in Requests, NextRequest(r)
      PROVE  AdmissionInv'
  BY <1>3, <1>8, RequestsNext DEF NextRequest
<1>9. CASE UNCHANGED avars
  <2>1. entries' = entries /\ recent' = recent /\ req' = req /\ tokens' = tokens
    BY <1>9 DEF avars
  <2>2. RequestsInv'
    BY <2>1 DEF RequestsInv, Handling
  <2> QED
    BY <1>3, <2>1, <2>2
<1> QED
  BY <1>1, <1>2, <1>4, <1>5, <1>6, <1>7, <1>8, <1>9 DEF AdmissionNext

LEMMA AdmissionInvExact ==
  ASSUME AdmissionInv
  PROVE  AdmissionExact
<1> USE DEF AdmissionInv
<1>1. ASSUME NEW k \in Keys
      PROVE  Len(recent[k]) =< 2 * RateLimit
  <2>1. recent[k] \in Seq(Nat)
    BY DEF WindowsInv
  <2>2. CASE Live(k)
    <3>1. entries[k] \in Entry /\ Running(recent[k], entries[k])
      BY <2>2 DEF WindowsInv, EntriesInv, Live
    <3> QED
      BY <2>1, <3>1, WindowBound
  <2>3. CASE ~Live(k)
    BY <2>1, <2>3, RestedBound DEF WindowsInv
  <2> QED
    BY <2>2, <2>3
<1>2. ASSUME NEW k \in DOMAIN entries, entries[k].age < RateWindow
      PROVE  Cardinality({i \in DOMAIN recent[k] : recent[k][i] =< entries[k].age}) =< RateLimit
  <2>1. k \in Keys /\ Live(k)
    BY <1>2 DEF EntriesInv, Live
  <2>2. recent[k] \in Seq(Nat) /\ entries[k] \in Entry /\ Running(recent[k], entries[k])
    BY <2>1 DEF WindowsInv, EntriesInv
  <2> QED
    BY <2>2, WindowBound
<1>3. /\ Cardinality(DOMAIN entries) =< RateMaxKeys
      /\ tokens = Cardinality({r \in Requests : req[r].step = "handling"}) /\ tokens =< Concurrency
  BY DEF EntriesInv, RequestsInv, Handling
<1>4. ASSUME NEW r \in Requests, req[r].step = "done"
      PROVE  /\ Cardinality(req[r].body) =< 1
             /\ req[r].logged[1] = req[r].wire
             /\ req[r].wire = 500 => req[r].body = {"error"}
  <2>1. req[r] \in Response /\ ResponseInv(req[r])
    BY DEF RequestsInv
  <2>2. req[r].body \in {{}, {"handler"}, {"limit"}, {"error"}}
    BY <2>1, Typed
  <2>3. Cardinality({}) = 0 /\ \A x : Cardinality({x}) = 1
    BY FS_EmptySet, FS_Singleton
  <2>4. Cardinality(req[r].body) \in {0, 1}
    BY <2>2, <2>3
  <2> QED
    BY <1>4, <2>1, <2>4 DEF ResponseInv
<1> QED
  BY <1>1, <1>2, <1>3, <1>4 DEF AdmissionExact

(* For any keys, requests, limit, window and concurrency: within the length *)
(* of a window a key is admitted at most twice its limit and the window     *)
(* that runs at most its limit, making room included; the table has at most *)
(* its number of keys; the semaphore counts the handlers that run, panics   *)
(* included; a response has at most one body, an error body never follows   *)
(* what a handler sent, and the completion record has the status sent.      *)
THEOREM AdmissionLimitsHold == AdmissionSpec => []AdmissionExact
<1>1. AdmissionInit => AdmissionInv
  BY WindowsInit, RequestsInit DEF AdmissionInv
<1>2. AdmissionInv /\ [AdmissionNext]_avars => AdmissionInv'
  BY AdmissionStep
<1>3. AdmissionInv => AdmissionExact
  BY AdmissionInvExact
<1> QED
  BY <1>1, <1>2, <1>3, PTL DEF AdmissionSpec

-----------------------------------------------------------------------------
(* The three translations of an error                                       *)
(*                                                                          *)
(* An error that a service returns reaches the browser as a success, as a   *)
(* fault of the request or as one of the service exactly when it is one.    *)

Reply(r, e) == clientError(r)[serverStatus(r)[e]]

Fits(e, s) ==
  /\ e \in {"ok", "roleSelection"} => s \in 200..299
  /\ e \in dependencyErrors => s = 503
  /\ e \notin dependencyErrors \cup {"ok", "roleSelection"} => s \in 400..499

(* What a service decides about a call that Edge let through: Catalog,      *)
(* Retrieval and Answer find no fault with its role or its identifier.      *)
Decided(r) ==
  (errorsOf(r) \cup {"ok"})
  \ (IF r \in Catalog \cup {"search", "answer"} THEN {"forbidden", "correlation"} ELSE {})

LEMMA ServerErrors ==
  /\ errorsOf("register") = {"canceled", "deadline", "other", "validation"}
  /\ errorsOf("verifyEmail") = {"canceled", "deadline", "other", "verification"}
  /\ errorsOf("resend") = {"canceled", "deadline", "other"}
  /\ errorsOf("login") = {"canceled", "deadline", "other", "credentials", "roleSelection"}
  /\ errorsOf("refresh") = {"canceled", "deadline", "other", "credentials"}
  /\ errorsOf("validateSession") = {"canceled", "deadline", "other", "credentials"}
  /\ errorsOf("logout") = {"canceled", "deadline", "other"}
  /\ errorsOf("resetRequest") = {"canceled", "deadline", "other"}
  /\ errorsOf("resetVerify") = {"canceled", "deadline", "other", "reset"}
  /\ errorsOf("resetComplete") = {"canceled", "deadline", "other", "reset"}
  /\ errorsOf("setupStatus") = {"canceled", "deadline", "other"}
  /\ errorsOf("bootstrap") = {"canceled", "deadline", "other", "validation", "bootstrapCode",
                              "complete"}
  /\ errorsOf("listPending") = {"canceled", "deadline", "other", "pageToken", "forbidden"}
  /\ errorsOf("decide") = {"canceled", "deadline", "other", "forbidden", "conflict"}
  /\ errorsOf("upload") = {"canceled", "deadline", "other", "correlation", "forbidden", "metadata",
                           "invalidBook", "invalidStream", "endOfStream", "tooLarge", "capacity"}
  /\ errorsOf("reindex") = {"canceled", "deadline", "other", "forbidden", "command", "transition",
                            "eventConflict", "notFound"}
  /\ errorsOf("delete") = {"canceled", "deadline", "other", "forbidden", "command", "transition",
                           "eventConflict", "notFound"}
  /\ errorsOf("list") = {"canceled", "deadline", "other", "forbidden", "pagination"}
  /\ errorsOf("get") = {"canceled", "deadline", "other", "forbidden", "notFound"}
  /\ errorsOf("search") = {"canceled", "deadline", "other", "forbidden", "invalidSearch"}
  /\ errorsOf("answer") = {"canceled", "deadline", "other", "forbidden", "invalidSearch"}
<1> USE DEF errorsOf, dependencyErrors, accountServer, sessionServer, passwordServer, adminServer,
            bookServer, searchServer, answerServer
<1>1. errorsOf("register") = {"canceled", "deadline", "other", "validation"}
  OBVIOUS
<1>2. errorsOf("verifyEmail") = {"canceled", "deadline", "other", "verification"}
  OBVIOUS
<1>3. errorsOf("resend") = {"canceled", "deadline", "other"}
  OBVIOUS
<1>4. errorsOf("login") = {"canceled", "deadline", "other", "credentials", "roleSelection"}
  OBVIOUS
<1>5. errorsOf("refresh") = {"canceled", "deadline", "other", "credentials"}
  OBVIOUS
<1>6. errorsOf("validateSession") = {"canceled", "deadline", "other", "credentials"}
  OBVIOUS
<1>7. errorsOf("logout") = {"canceled", "deadline", "other"}
  OBVIOUS
<1>8. errorsOf("resetRequest") = {"canceled", "deadline", "other"}
  OBVIOUS
<1>9. errorsOf("resetVerify") = {"canceled", "deadline", "other", "reset"}
  OBVIOUS
<1>10. errorsOf("resetComplete") = {"canceled", "deadline", "other", "reset"}
  OBVIOUS
<1>11. errorsOf("setupStatus") = {"canceled", "deadline", "other"}
  OBVIOUS
<1>12. errorsOf("bootstrap") = {"canceled", "deadline", "other", "validation", "bootstrapCode",
                                "complete"}
  OBVIOUS
<1>13. errorsOf("listPending") = {"canceled", "deadline", "other", "pageToken", "forbidden"}
  OBVIOUS
<1>14. errorsOf("decide") = {"canceled", "deadline", "other", "forbidden", "conflict"}
  OBVIOUS
<1>15. errorsOf("upload") = {"canceled", "deadline", "other", "correlation", "forbidden",
                             "metadata", "invalidBook", "invalidStream", "endOfStream", "tooLarge",
                             "capacity"}
  OBVIOUS
<1>16. errorsOf("reindex") = {"canceled", "deadline", "other", "forbidden", "command",
                              "transition", "eventConflict", "notFound"}
  OBVIOUS
<1>17. errorsOf("delete") = {"canceled", "deadline", "other", "forbidden", "command", "transition",
                             "eventConflict", "notFound"}
  OBVIOUS
<1>18. errorsOf("list") = {"canceled", "deadline", "other", "forbidden", "pagination"}
  OBVIOUS
<1>19. errorsOf("get") = {"canceled", "deadline", "other", "forbidden", "notFound"}
  OBVIOUS
<1>20. errorsOf("search") = {"canceled", "deadline", "other", "forbidden", "invalidSearch"}
  OBVIOUS
<1>21. errorsOf("answer") = {"canceled", "deadline", "other", "forbidden", "invalidSearch"}
  OBVIOUS
<1> HIDE DEF errorsOf
<1> QED
  BY <1>1, <1>2, <1>3, <1>4, <1>5, <1>6, <1>7, <1>8, <1>9, <1>10, <1>11, <1>12, <1>13,
     <1>14, <1>15, <1>16, <1>17, <1>18, <1>19, <1>20, <1>21

LEMMA RpcNames ==
  /\ Identity = {"register", "verifyEmail", "resend", "login", "refresh", "validateSession",
                 "logout", "resetRequest", "resetVerify", "resetComplete", "setupStatus",
                 "bootstrap", "listPending", "decide"}
  /\ Catalog = {"upload", "reindex", "delete", "list", "get"}
  /\ Rpcs = Identity \cup Catalog \cup {"search", "answer"}
  /\ DOMAIN sessionServer = {"login", "refresh", "validateSession", "logout"}
BY
   DEF Identity, Catalog, Rpcs, accountServer, sessionServer, passwordServer, adminServer,
       bookServer

LEMMA ErrorsOfAll == "ok" \in Errors /\ \A r \in Rpcs : errorsOf(r) \subseteq Errors
<1>1. \A r \in Rpcs : errorsOf(r) \in {errorsOf(s) : s \in Rpcs}
  OBVIOUS
<1>2. \A r \in Rpcs : errorsOf(r) \subseteq UNION {errorsOf(s) : s \in Rpcs}
  BY <1>1
<1> DEFINE U == UNION {errorsOf(s) : s \in Rpcs}
<1>3. Errors = U \cup {"ok"}
  BY DEF Errors
<1> HIDE DEF U
<1>4. \A r \in Rpcs : errorsOf(r) \subseteq U
  BY <1>2 DEF U
<1> QED
  BY <1>3, <1>4

LEMMA ErrorNames == {"ok", "canceled", "deadline", "other", "validation", "verification",
                     "credentials", "roleSelection", "reset", "bootstrapCode", "complete",
                     "pageToken", "forbidden", "conflict", "correlation", "metadata",
                     "invalidBook", "invalidStream", "endOfStream", "tooLarge", "capacity",
                     "command", "transition", "eventConflict", "notFound", "pagination",
                     "invalidSearch"} \subseteq Errors
<1>1. "ok" \in Errors /\ \A r \in Rpcs : errorsOf(r) \subseteq Errors
  BY ErrorsOfAll
<1>2. {"register", "verifyEmail", "login", "resetVerify", "bootstrap", "listPending", "decide",
       "upload", "reindex", "list", "search"} \subseteq Rpcs
  BY RpcNames
<1> HIDE DEF errorsOf
<1>3. {"canceled", "deadline", "other", "validation"} \subseteq Errors
  BY <1>1, <1>2, ServerErrors
<1>4. {"canceled", "deadline", "other", "verification"} \subseteq Errors
  BY <1>1, <1>2, ServerErrors
<1>5. {"canceled", "deadline", "other", "credentials", "roleSelection"} \subseteq Errors
  BY <1>1, <1>2, ServerErrors
<1>6. {"canceled", "deadline", "other", "reset"} \subseteq Errors
  BY <1>1, <1>2, ServerErrors
<1>7. {"canceled", "deadline", "other", "validation", "bootstrapCode", "complete"} \subseteq Errors
  BY <1>1, <1>2, ServerErrors
<1>8. {"canceled", "deadline", "other", "pageToken", "forbidden"} \subseteq Errors
  BY <1>1, <1>2, ServerErrors
<1>9. {"canceled", "deadline", "other", "forbidden", "conflict"} \subseteq Errors
  BY <1>1, <1>2, ServerErrors
<1>10. {"canceled", "deadline", "other", "correlation", "forbidden", "metadata", "invalidBook",
        "invalidStream", "endOfStream", "tooLarge", "capacity"} \subseteq Errors
  BY <1>1, <1>2, ServerErrors
<1>11. {"canceled", "deadline", "other", "forbidden", "command", "transition", "eventConflict",
        "notFound"} \subseteq Errors
  BY <1>1, <1>2, ServerErrors
<1>12. {"canceled", "deadline", "other", "forbidden", "pagination"} \subseteq Errors
  BY <1>1, <1>2, ServerErrors
<1>13. {"canceled", "deadline", "other", "forbidden", "invalidSearch"} \subseteq Errors
  BY <1>1, <1>2, ServerErrors
<1> QED
  BY <1>1, <1>3, <1>4, <1>5, <1>6, <1>7, <1>8, <1>9, <1>10, <1>11, <1>12, <1>13

LEMMA IdentityCodes ==
  /\ toStatus["ok"] = "OK" /\ toStatus["canceled"] = "Canceled"
  /\ toStatus["deadline"] = "DeadlineExceeded" /\ toStatus["validation"] = "InvalidArgument"
  /\ toStatus["pageToken"] = "InvalidArgument" /\ toStatus["bootstrapCode"] = "Unauthenticated"
  /\ toStatus["verification"] = "InvalidArgument" /\ toStatus["reset"] = "InvalidArgument"
  /\ toStatus["credentials"] = "Unauthenticated" /\ toStatus["forbidden"] = "PermissionDenied"
  /\ toStatus["roleSelection"] = "OK_role_selection" /\ toStatus["complete"] = "FailedPrecondition"
  /\ toStatus["conflict"] = "FailedPrecondition" /\ toStatus["other"] = "Internal"
BY ErrorNames DEF toStatus, Otherwise

LEMMA CatalogCodes ==
  /\ catalogStatus["ok"] = "OK" /\ catalogStatus["correlation"] = "InvalidArgument"
  /\ catalogStatus["endOfStream"] = "InvalidArgument"
  /\ catalogStatus["command"] = "InvalidArgument" /\ catalogStatus["forbidden"] = "PermissionDenied"
  /\ catalogStatus["deadline"] = "DeadlineExceeded" /\ catalogStatus["canceled"] = "Canceled"
  /\ catalogStatus["pagination"] = "InvalidArgument_invalid_pagination"
  /\ catalogStatus["metadata"] = "InvalidArgument"
  /\ catalogStatus["invalidBook"] = "InvalidArgument"
  /\ catalogStatus["invalidStream"] = "InvalidArgument"
  /\ catalogStatus["transition"] = "FailedPrecondition"
  /\ catalogStatus["eventConflict"] = "Aborted" /\ catalogStatus["tooLarge"] = "ResourceExhausted"
  /\ catalogStatus["capacity"] = "ResourceExhausted_upload_capacity"
  /\ catalogStatus["notFound"] = "NotFound" /\ catalogStatus["other"] = "Unavailable"
BY ErrorNames DEF catalogStatus, Otherwise

LEMMA RetrievalCodes ==
  /\ retrievalStatus["ok"] = "OK" /\ retrievalStatus["forbidden"] = "PermissionDenied"
  /\ retrievalStatus["invalidSearch"] = "InvalidArgument"
  /\ retrievalStatus["canceled"] = "Canceled" /\ retrievalStatus["deadline"] = "DeadlineExceeded"
  /\ retrievalStatus["other"] = "Unavailable"
BY ErrorNames DEF retrievalStatus, Otherwise

LEMMA AnswerCodes ==
  /\ answerStatus["ok"] = "OK" /\ answerStatus["forbidden"] = "PermissionDenied"
  /\ answerStatus["invalidSearch"] = "InvalidArgument" /\ answerStatus["canceled"] = "Canceled"
  /\ answerStatus["deadline"] = "DeadlineExceeded" /\ answerStatus["other"] = "Unavailable"
BY ErrorNames DEF answerStatus, Otherwise

LEMMA ServerOf ==
  /\ \A r \in Identity : serverStatus(r) = toStatus
  /\ \A r \in Catalog : serverStatus(r) = catalogStatus
  /\ serverStatus("search") = retrievalStatus /\ serverStatus("answer") = answerStatus
BY RpcNames DEF serverStatus

LEMMA CodeNames == {"OK", "Canceled", "DeadlineExceeded", "InvalidArgument", "Unauthenticated",
                    "PermissionDenied", "OK_role_selection", "FailedPrecondition", "Internal",
                    "InvalidArgument_invalid_pagination", "Aborted", "ResourceExhausted",
                    "ResourceExhausted_upload_capacity", "NotFound", "Unavailable"} \subseteq Codes
<1>1. ASSUME NEW r \in Rpcs, NEW e \in Errors
      PROVE  serverStatus(r)[e] \in Codes
  <2> DEFINE given(s) == {serverStatus(s)[d] : d \in Errors}
  <2>1. serverStatus(r)[e] \in given(r)
    OBVIOUS
  <2>2. Codes = (UNION {given(s) : s \in Rpcs}) \cup transportCodes
    BY DEF Codes
  <2> HIDE DEF given
  <2>3. given(r) \in {given(s) : s \in Rpcs}
    OBVIOUS
  <2> QED
    BY <2>1, <2>2, <2>3
<1>2. /\ "register" \in Rpcs /\ serverStatus("register") = toStatus
      /\ "upload" \in Rpcs /\ serverStatus("upload") = catalogStatus
  BY RpcNames, ServerOf
<1>3. {"OK", "Canceled", "DeadlineExceeded", "InvalidArgument", "Unauthenticated",
       "PermissionDenied", "OK_role_selection", "FailedPrecondition", "Internal"} \subseteq Codes
  BY <1>1, <1>2, ErrorNames, IdentityCodes
<1>4. {"OK", "InvalidArgument", "PermissionDenied", "DeadlineExceeded", "Canceled",
       "InvalidArgument_invalid_pagination", "FailedPrecondition", "Aborted", "ResourceExhausted",
       "ResourceExhausted_upload_capacity", "NotFound", "Unavailable"} \subseteq Codes
  BY <1>1, <1>2, ErrorNames, CatalogCodes
<1> QED
  BY <1>3, <1>4

LEMMA TransportNames == transportCodes = {"Unavailable", "DeadlineExceeded", "Canceled"}
BY DEF transportCodes

LEMMA Of_mapRegisterError ==
  /\ mapRegisterError["OK"] = "ok" /\ mapRegisterError["Canceled"] = "ErrUnavailable"
  /\ mapRegisterError["DeadlineExceeded"] = "ErrUnavailable"
  /\ mapRegisterError["Internal"] = "ErrUnavailable"
  /\ mapRegisterError["InvalidArgument"] = "ErrInvalidRegistration"
  /\ mapRegisterError["Unavailable"] = "ErrUnavailable"
BY CodeNames DEF mapRegisterError, Otherwise

LEMMA Of_VerifyEmailError ==
  /\ VerifyEmailError["OK"] = "ok" /\ VerifyEmailError["Canceled"] = "ErrUnavailable"
  /\ VerifyEmailError["DeadlineExceeded"] = "ErrUnavailable"
  /\ VerifyEmailError["Internal"] = "ErrUnavailable"
  /\ VerifyEmailError["InvalidArgument"] = "ErrInvalidVerification"
  /\ VerifyEmailError["Unavailable"] = "ErrUnavailable"
BY CodeNames DEF VerifyEmailError, Otherwise

LEMMA Of_mapPasswordResetError ==
  /\ mapPasswordResetError["OK"] = "ok" /\ mapPasswordResetError["Canceled"] = "ErrUnavailable"
  /\ mapPasswordResetError["DeadlineExceeded"] = "ErrUnavailable"
  /\ mapPasswordResetError["Internal"] = "ErrUnavailable"
  /\ mapPasswordResetError["InvalidArgument"] = "ErrInvalidPasswordReset"
  /\ mapPasswordResetError["Unavailable"] = "ErrUnavailable"
BY CodeNames DEF mapPasswordResetError, Otherwise

LEMMA Of_mapDependencyError ==
  /\ mapDependencyError["OK"] = "ok" /\ mapDependencyError["Canceled"] = "ErrUnavailable"
  /\ mapDependencyError["DeadlineExceeded"] = "ErrUnavailable"
  /\ mapDependencyError["Internal"] = "ErrUnavailable"
  /\ mapDependencyError["Unavailable"] = "ErrUnavailable"
BY CodeNames DEF mapDependencyError, Otherwise

LEMMA Of_mapStateError ==
  /\ mapStateError["OK"] = "ok" /\ mapStateError["Canceled"] = "ErrUnavailable"
  /\ mapStateError["DeadlineExceeded"] = "ErrUnavailable"
  /\ mapStateError["Internal"] = "ErrUnavailable"
  /\ mapStateError["InvalidArgument"] = "ErrInvalidRegistration"
  /\ mapStateError["Unauthenticated"] = "ErrForbidden"
  /\ mapStateError["FailedPrecondition"] = "ErrConflict"
  /\ mapStateError["PermissionDenied"] = "ErrForbidden"
  /\ mapStateError["Unavailable"] = "ErrUnavailable"
BY CodeNames DEF mapStateError, Otherwise

LEMMA Of_mapCredentialError ==
  /\ mapCredentialError["OK"] = "ok" /\ mapCredentialError["Canceled"] = "ErrUnavailable"
  /\ mapCredentialError["DeadlineExceeded"] = "ErrUnavailable"
  /\ mapCredentialError["Internal"] = "ErrUnavailable"
  /\ mapCredentialError["Unauthenticated"] = "ErrInvalidCredentials"
  /\ mapCredentialError["OK_role_selection"] = "availableRoles"
  /\ mapCredentialError["Unavailable"] = "ErrUnavailable"
BY CodeNames DEF mapCredentialError, Otherwise

LEMMA Of_catalogError ==
  /\ catalogError["OK"] = "ok" /\ catalogError["Canceled"] = "raw"
  /\ catalogError["DeadlineExceeded"] = "raw" /\ catalogError["Unavailable"] = "raw"
  /\ catalogError["InvalidArgument"] = "ErrInvalidBookRequest"
  /\ catalogError["PermissionDenied"] = "ErrBookUnauthorized"
  /\ catalogError["ResourceExhausted"] = "ErrBookTooLarge"
  /\ catalogError["ResourceExhausted_upload_capacity"] = "ErrBookCapacityExhausted"
  /\ catalogError["InvalidArgument_invalid_pagination"] = "ErrInvalidPagination"
  /\ catalogError["NotFound"] = "ErrBookNotFound"
BY CodeNames DEF catalogError

LEMMA Of_mapLifecycleError ==
  /\ mapLifecycleError["OK"] = "ok" /\ mapLifecycleError["Canceled"] = "raw"
  /\ mapLifecycleError["DeadlineExceeded"] = "raw" /\ mapLifecycleError["Unavailable"] = "raw"
  /\ mapLifecycleError["PermissionDenied"] = "ErrBookUnauthorized"
  /\ mapLifecycleError["InvalidArgument"] = "ErrInvalidBookLifecycleRequest"
  /\ mapLifecycleError["FailedPrecondition"] = "ErrBookLifecycleConflict"
  /\ mapLifecycleError["Aborted"] = "ErrBookLifecycleConflict"
  /\ mapLifecycleError["NotFound"] = "ErrBookNotFound"
BY CodeNames DEF mapLifecycleError, catalogError

LEMMA Of_retrievalError ==
  /\ retrievalError["OK"] = "ok" /\ retrievalError["Canceled"] = "ErrUnavailable"
  /\ retrievalError["DeadlineExceeded"] = "ErrUnavailable"
  /\ retrievalError["Unavailable"] = "ErrUnavailable"
  /\ retrievalError["PermissionDenied"] = "ErrSearchForbidden"
  /\ retrievalError["InvalidArgument"] = "ErrInvalidSearch"
BY CodeNames DEF retrievalError, Otherwise

LEMMA Of_answerError ==
  /\ answerError["OK"] = "ok" /\ answerError["Canceled"] = "ErrAnswerFailed"
  /\ answerError["DeadlineExceeded"] = "ErrAnswerUnavailable"
  /\ answerError["Unavailable"] = "ErrAnswerUnavailable"
  /\ answerError["PermissionDenied"] = "ErrSearchForbidden"
  /\ answerError["InvalidArgument"] = "ErrInvalidSearch"
BY CodeNames DEF answerError, Otherwise

LEMMA ClientOf ==
  /\ clientError("register") = mapRegisterError
  /\ clientError("verifyEmail") = VerifyEmailError
  /\ clientError("resend") = mapDependencyError
  /\ clientError("login") = mapCredentialError
  /\ clientError("refresh") = mapCredentialError
  /\ clientError("validateSession") = mapCredentialError
  /\ clientError("logout") = mapCredentialError
  /\ clientError("resetRequest") = mapDependencyError
  /\ clientError("resetVerify") = mapPasswordResetError
  /\ clientError("resetComplete") = mapPasswordResetError
  /\ clientError("setupStatus") = mapDependencyError
  /\ clientError("bootstrap") = mapStateError
  /\ clientError("listPending") = mapStateError
  /\ clientError("decide") = mapStateError
  /\ clientError("upload") = catalogError
  /\ clientError("reindex") = mapLifecycleError
  /\ clientError("delete") = mapLifecycleError
  /\ clientError("list") = catalogError
  /\ clientError("get") = catalogError
  /\ clientError("search") = retrievalError
  /\ clientError("answer") = answerError
BY RpcNames DEF clientError

(* What the client of a service makes of its errors, and of a failure of   *)
(* the transport.                                                          *)
LEMMA Replies_register ==
  /\ Reply("register", "ok") = "ok" /\ Reply("register", "canceled") = "ErrUnavailable"
  /\ Reply("register", "deadline") = "ErrUnavailable"
  /\ Reply("register", "other") = "ErrUnavailable"
  /\ Reply("register", "validation") = "ErrInvalidRegistration"
  /\ clientError("register")["Unavailable"] = "ErrUnavailable"
  /\ clientError("register")["DeadlineExceeded"] = "ErrUnavailable"
  /\ clientError("register")["Canceled"] = "ErrUnavailable"
BY RpcNames, ServerOf, ClientOf, IdentityCodes, Of_mapRegisterError DEF Reply

LEMMA Replies_verifyEmail ==
  /\ Reply("verifyEmail", "ok") = "ok" /\ Reply("verifyEmail", "canceled") = "ErrUnavailable"
  /\ Reply("verifyEmail", "deadline") = "ErrUnavailable"
  /\ Reply("verifyEmail", "other") = "ErrUnavailable"
  /\ Reply("verifyEmail", "verification") = "ErrInvalidVerification"
  /\ clientError("verifyEmail")["Unavailable"] = "ErrUnavailable"
  /\ clientError("verifyEmail")["DeadlineExceeded"] = "ErrUnavailable"
  /\ clientError("verifyEmail")["Canceled"] = "ErrUnavailable"
BY RpcNames, ServerOf, ClientOf, IdentityCodes, Of_VerifyEmailError DEF Reply

LEMMA Replies_resend ==
  /\ Reply("resend", "ok") = "ok" /\ Reply("resend", "canceled") = "ErrUnavailable"
  /\ Reply("resend", "deadline") = "ErrUnavailable" /\ Reply("resend", "other") = "ErrUnavailable"
  /\ clientError("resend")["Unavailable"] = "ErrUnavailable"
  /\ clientError("resend")["DeadlineExceeded"] = "ErrUnavailable"
  /\ clientError("resend")["Canceled"] = "ErrUnavailable"
BY RpcNames, ServerOf, ClientOf, IdentityCodes, Of_mapDependencyError DEF Reply

LEMMA Replies_login ==
  /\ Reply("login", "ok") = "ok" /\ Reply("login", "canceled") = "ErrUnavailable"
  /\ Reply("login", "deadline") = "ErrUnavailable" /\ Reply("login", "other") = "ErrUnavailable"
  /\ Reply("login", "credentials") = "ErrInvalidCredentials"
  /\ Reply("login", "roleSelection") = "availableRoles"
  /\ clientError("login")["Unavailable"] = "ErrUnavailable"
  /\ clientError("login")["DeadlineExceeded"] = "ErrUnavailable"
  /\ clientError("login")["Canceled"] = "ErrUnavailable"
BY RpcNames, ServerOf, ClientOf, IdentityCodes, Of_mapCredentialError DEF Reply

LEMMA Replies_refresh ==
  /\ Reply("refresh", "ok") = "ok" /\ Reply("refresh", "canceled") = "ErrUnavailable"
  /\ Reply("refresh", "deadline") = "ErrUnavailable" /\ Reply("refresh", "other") = "ErrUnavailable"
  /\ Reply("refresh", "credentials") = "ErrInvalidCredentials"
  /\ clientError("refresh")["Unavailable"] = "ErrUnavailable"
  /\ clientError("refresh")["DeadlineExceeded"] = "ErrUnavailable"
  /\ clientError("refresh")["Canceled"] = "ErrUnavailable"
BY RpcNames, ServerOf, ClientOf, IdentityCodes, Of_mapCredentialError DEF Reply

LEMMA Replies_validateSession ==
  /\ Reply("validateSession", "ok") = "ok"
  /\ Reply("validateSession", "canceled") = "ErrUnavailable"
  /\ Reply("validateSession", "deadline") = "ErrUnavailable"
  /\ Reply("validateSession", "other") = "ErrUnavailable"
  /\ Reply("validateSession", "credentials") = "ErrInvalidCredentials"
  /\ clientError("validateSession")["Unavailable"] = "ErrUnavailable"
  /\ clientError("validateSession")["DeadlineExceeded"] = "ErrUnavailable"
  /\ clientError("validateSession")["Canceled"] = "ErrUnavailable"
BY RpcNames, ServerOf, ClientOf, IdentityCodes, Of_mapCredentialError DEF Reply

LEMMA Replies_logout ==
  /\ Reply("logout", "ok") = "ok" /\ Reply("logout", "canceled") = "ErrUnavailable"
  /\ Reply("logout", "deadline") = "ErrUnavailable" /\ Reply("logout", "other") = "ErrUnavailable"
  /\ clientError("logout")["Unavailable"] = "ErrUnavailable"
  /\ clientError("logout")["DeadlineExceeded"] = "ErrUnavailable"
  /\ clientError("logout")["Canceled"] = "ErrUnavailable"
BY RpcNames, ServerOf, ClientOf, IdentityCodes, Of_mapCredentialError DEF Reply

LEMMA Replies_resetRequest ==
  /\ Reply("resetRequest", "ok") = "ok" /\ Reply("resetRequest", "canceled") = "ErrUnavailable"
  /\ Reply("resetRequest", "deadline") = "ErrUnavailable"
  /\ Reply("resetRequest", "other") = "ErrUnavailable"
  /\ clientError("resetRequest")["Unavailable"] = "ErrUnavailable"
  /\ clientError("resetRequest")["DeadlineExceeded"] = "ErrUnavailable"
  /\ clientError("resetRequest")["Canceled"] = "ErrUnavailable"
BY RpcNames, ServerOf, ClientOf, IdentityCodes, Of_mapDependencyError DEF Reply

LEMMA Replies_resetVerify ==
  /\ Reply("resetVerify", "ok") = "ok" /\ Reply("resetVerify", "canceled") = "ErrUnavailable"
  /\ Reply("resetVerify", "deadline") = "ErrUnavailable"
  /\ Reply("resetVerify", "other") = "ErrUnavailable"
  /\ Reply("resetVerify", "reset") = "ErrInvalidPasswordReset"
  /\ clientError("resetVerify")["Unavailable"] = "ErrUnavailable"
  /\ clientError("resetVerify")["DeadlineExceeded"] = "ErrUnavailable"
  /\ clientError("resetVerify")["Canceled"] = "ErrUnavailable"
BY RpcNames, ServerOf, ClientOf, IdentityCodes, Of_mapPasswordResetError DEF Reply

LEMMA Replies_resetComplete ==
  /\ Reply("resetComplete", "ok") = "ok" /\ Reply("resetComplete", "canceled") = "ErrUnavailable"
  /\ Reply("resetComplete", "deadline") = "ErrUnavailable"
  /\ Reply("resetComplete", "other") = "ErrUnavailable"
  /\ Reply("resetComplete", "reset") = "ErrInvalidPasswordReset"
  /\ clientError("resetComplete")["Unavailable"] = "ErrUnavailable"
  /\ clientError("resetComplete")["DeadlineExceeded"] = "ErrUnavailable"
  /\ clientError("resetComplete")["Canceled"] = "ErrUnavailable"
BY RpcNames, ServerOf, ClientOf, IdentityCodes, Of_mapPasswordResetError DEF Reply

LEMMA Replies_setupStatus ==
  /\ Reply("setupStatus", "ok") = "ok" /\ Reply("setupStatus", "canceled") = "ErrUnavailable"
  /\ Reply("setupStatus", "deadline") = "ErrUnavailable"
  /\ Reply("setupStatus", "other") = "ErrUnavailable"
  /\ clientError("setupStatus")["Unavailable"] = "ErrUnavailable"
  /\ clientError("setupStatus")["DeadlineExceeded"] = "ErrUnavailable"
  /\ clientError("setupStatus")["Canceled"] = "ErrUnavailable"
BY RpcNames, ServerOf, ClientOf, IdentityCodes, Of_mapDependencyError DEF Reply

LEMMA Replies_bootstrap ==
  /\ Reply("bootstrap", "ok") = "ok" /\ Reply("bootstrap", "canceled") = "ErrUnavailable"
  /\ Reply("bootstrap", "deadline") = "ErrUnavailable"
  /\ Reply("bootstrap", "other") = "ErrUnavailable"
  /\ Reply("bootstrap", "validation") = "ErrInvalidRegistration"
  /\ Reply("bootstrap", "bootstrapCode") = "ErrForbidden"
  /\ Reply("bootstrap", "complete") = "ErrConflict"
  /\ clientError("bootstrap")["Unavailable"] = "ErrUnavailable"
  /\ clientError("bootstrap")["DeadlineExceeded"] = "ErrUnavailable"
  /\ clientError("bootstrap")["Canceled"] = "ErrUnavailable"
BY RpcNames, ServerOf, ClientOf, IdentityCodes, Of_mapStateError DEF Reply

LEMMA Replies_listPending ==
  /\ Reply("listPending", "ok") = "ok" /\ Reply("listPending", "canceled") = "ErrUnavailable"
  /\ Reply("listPending", "deadline") = "ErrUnavailable"
  /\ Reply("listPending", "other") = "ErrUnavailable"
  /\ Reply("listPending", "pageToken") = "ErrInvalidRegistration"
  /\ Reply("listPending", "forbidden") = "ErrForbidden"
  /\ clientError("listPending")["Unavailable"] = "ErrUnavailable"
  /\ clientError("listPending")["DeadlineExceeded"] = "ErrUnavailable"
  /\ clientError("listPending")["Canceled"] = "ErrUnavailable"
BY RpcNames, ServerOf, ClientOf, IdentityCodes, Of_mapStateError DEF Reply

LEMMA Replies_decide ==
  /\ Reply("decide", "ok") = "ok" /\ Reply("decide", "canceled") = "ErrUnavailable"
  /\ Reply("decide", "deadline") = "ErrUnavailable" /\ Reply("decide", "other") = "ErrUnavailable"
  /\ Reply("decide", "forbidden") = "ErrForbidden" /\ Reply("decide", "conflict") = "ErrConflict"
  /\ clientError("decide")["Unavailable"] = "ErrUnavailable"
  /\ clientError("decide")["DeadlineExceeded"] = "ErrUnavailable"
  /\ clientError("decide")["Canceled"] = "ErrUnavailable"
BY RpcNames, ServerOf, ClientOf, IdentityCodes, Of_mapStateError DEF Reply

LEMMA Replies_upload ==
  /\ Reply("upload", "ok") = "ok" /\ Reply("upload", "canceled") = "raw"
  /\ Reply("upload", "deadline") = "raw" /\ Reply("upload", "other") = "raw"
  /\ Reply("upload", "correlation") = "ErrInvalidBookRequest"
  /\ Reply("upload", "forbidden") = "ErrBookUnauthorized"
  /\ Reply("upload", "metadata") = "ErrInvalidBookRequest"
  /\ Reply("upload", "invalidBook") = "ErrInvalidBookRequest"
  /\ Reply("upload", "invalidStream") = "ErrInvalidBookRequest"
  /\ Reply("upload", "endOfStream") = "ErrInvalidBookRequest"
  /\ Reply("upload", "tooLarge") = "ErrBookTooLarge"
  /\ Reply("upload", "capacity") = "ErrBookCapacityExhausted"
  /\ clientError("upload")["Unavailable"] = "raw"
  /\ clientError("upload")["DeadlineExceeded"] = "raw"
  /\ clientError("upload")["Canceled"] = "raw"
BY RpcNames, ServerOf, ClientOf, CatalogCodes, Of_catalogError DEF Reply

LEMMA Replies_reindex ==
  /\ Reply("reindex", "ok") = "ok" /\ Reply("reindex", "canceled") = "raw"
  /\ Reply("reindex", "deadline") = "raw" /\ Reply("reindex", "other") = "raw"
  /\ Reply("reindex", "forbidden") = "ErrBookUnauthorized"
  /\ Reply("reindex", "command") = "ErrInvalidBookLifecycleRequest"
  /\ Reply("reindex", "transition") = "ErrBookLifecycleConflict"
  /\ Reply("reindex", "eventConflict") = "ErrBookLifecycleConflict"
  /\ Reply("reindex", "notFound") = "ErrBookNotFound"
  /\ clientError("reindex")["Unavailable"] = "raw"
  /\ clientError("reindex")["DeadlineExceeded"] = "raw"
  /\ clientError("reindex")["Canceled"] = "raw"
BY RpcNames, ServerOf, ClientOf, CatalogCodes, Of_mapLifecycleError DEF Reply

LEMMA Replies_delete ==
  /\ Reply("delete", "ok") = "ok" /\ Reply("delete", "canceled") = "raw"
  /\ Reply("delete", "deadline") = "raw" /\ Reply("delete", "other") = "raw"
  /\ Reply("delete", "forbidden") = "ErrBookUnauthorized"
  /\ Reply("delete", "command") = "ErrInvalidBookLifecycleRequest"
  /\ Reply("delete", "transition") = "ErrBookLifecycleConflict"
  /\ Reply("delete", "eventConflict") = "ErrBookLifecycleConflict"
  /\ Reply("delete", "notFound") = "ErrBookNotFound"
  /\ clientError("delete")["Unavailable"] = "raw"
  /\ clientError("delete")["DeadlineExceeded"] = "raw"
  /\ clientError("delete")["Canceled"] = "raw"
BY RpcNames, ServerOf, ClientOf, CatalogCodes, Of_mapLifecycleError DEF Reply

LEMMA Replies_list ==
  /\ Reply("list", "ok") = "ok" /\ Reply("list", "canceled") = "raw"
  /\ Reply("list", "deadline") = "raw" /\ Reply("list", "other") = "raw"
  /\ Reply("list", "forbidden") = "ErrBookUnauthorized"
  /\ Reply("list", "pagination") = "ErrInvalidPagination"
  /\ clientError("list")["Unavailable"] = "raw"
  /\ clientError("list")["DeadlineExceeded"] = "raw"
  /\ clientError("list")["Canceled"] = "raw"
BY RpcNames, ServerOf, ClientOf, CatalogCodes, Of_catalogError DEF Reply

LEMMA Replies_get ==
  /\ Reply("get", "ok") = "ok" /\ Reply("get", "canceled") = "raw"
  /\ Reply("get", "deadline") = "raw" /\ Reply("get", "other") = "raw"
  /\ Reply("get", "forbidden") = "ErrBookUnauthorized"
  /\ Reply("get", "notFound") = "ErrBookNotFound"
  /\ clientError("get")["Unavailable"] = "raw"
  /\ clientError("get")["DeadlineExceeded"] = "raw"
  /\ clientError("get")["Canceled"] = "raw"
BY RpcNames, ServerOf, ClientOf, CatalogCodes, Of_catalogError DEF Reply

LEMMA Replies_search ==
  /\ Reply("search", "ok") = "ok" /\ Reply("search", "canceled") = "ErrUnavailable"
  /\ Reply("search", "deadline") = "ErrUnavailable" /\ Reply("search", "other") = "ErrUnavailable"
  /\ Reply("search", "forbidden") = "ErrSearchForbidden"
  /\ Reply("search", "invalidSearch") = "ErrInvalidSearch"
  /\ clientError("search")["Unavailable"] = "ErrUnavailable"
  /\ clientError("search")["DeadlineExceeded"] = "ErrUnavailable"
  /\ clientError("search")["Canceled"] = "ErrUnavailable"
BY RpcNames, ServerOf, ClientOf, RetrievalCodes, Of_retrievalError DEF Reply

LEMMA Replies_answer ==
  /\ Reply("answer", "ok") = "ok" /\ Reply("answer", "canceled") = "ErrAnswerFailed"
  /\ Reply("answer", "deadline") = "ErrAnswerUnavailable"
  /\ Reply("answer", "other") = "ErrAnswerUnavailable"
  /\ Reply("answer", "forbidden") = "ErrSearchForbidden"
  /\ Reply("answer", "invalidSearch") = "ErrInvalidSearch"
  /\ clientError("answer")["Unavailable"] = "ErrAnswerUnavailable"
  /\ clientError("answer")["DeadlineExceeded"] = "ErrAnswerUnavailable"
  /\ clientError("answer")["Canceled"] = "ErrAnswerFailed"
BY RpcNames, ServerOf, ClientOf, AnswerCodes, Of_answerError DEF Reply

(* The status that the handler of an operation gives to each of them. *)
LEMMA Statuses_register ==
  /\ respond("register", "ok") = 202 /\ respond("register", "ErrUnavailable") = 503
  /\ respond("register", "ErrInvalidRegistration") = 422
BY DEF respond, Otherwise, Register

LEMMA Statuses_verifyEmail ==
  /\ respond("verifyEmail", "ok") = 204 /\ respond("verifyEmail", "ErrUnavailable") = 503
  /\ respond("verifyEmail", "ErrInvalidVerification") = 400
BY DEF respond, Otherwise, VerifyEmail

LEMMA Statuses_resend ==
  /\ respond("resend", "ok") = 202 /\ respond("resend", "ErrUnavailable") = 503
BY DEF respond, Otherwise, ResendVerification

LEMMA Statuses_resetRequest ==
  /\ respond("resetRequest", "ok") = 202 /\ respond("resetRequest", "ErrUnavailable") = 503
BY DEF respond, Otherwise, RequestPasswordReset

LEMMA Statuses_resetVerify ==
  /\ respond("resetVerify", "ok") = 200 /\ respond("resetVerify", "ErrUnavailable") = 503
  /\ respond("resetVerify", "ErrInvalidPasswordReset") = 400
BY DEF respond, Otherwise, VerifyPasswordReset

LEMMA Statuses_resetComplete ==
  /\ respond("resetComplete", "ok") = 204 /\ respond("resetComplete", "ErrUnavailable") = 503
  /\ respond("resetComplete", "ErrInvalidPasswordReset") = 400
BY DEF respond, Otherwise, CompletePasswordReset

LEMMA Statuses_login ==
  /\ respond("login", "ok") = 200 /\ respond("login", "ErrUnavailable") = 503
  /\ respond("login", "ErrInvalidCredentials") = 401 /\ respond("login", "availableRoles") = 200
BY DEF respond, Otherwise, Login

LEMMA Statuses_refresh ==
  /\ respond("refresh", "ok") = 200 /\ respond("refresh", "ErrUnavailable") = 503
  /\ respond("refresh", "ErrInvalidCredentials") = 401
BY DEF respond, Otherwise, Refresh

LEMMA Statuses_logout ==
  /\ respond("logout", "ok") = 200 /\ respond("logout", "ErrUnavailable") = 503
BY DEF respond, Otherwise, Logout

LEMMA Statuses_setupStatus ==
  /\ respond("setupStatus", "ok") = 200 /\ respond("setupStatus", "ErrUnavailable") = 503
BY DEF respond, Otherwise, SetupStatus

LEMMA Statuses_bootstrap ==
  /\ respond("bootstrap", "ok") = 201 /\ respond("bootstrap", "ErrUnavailable") = 503
  /\ respond("bootstrap", "ErrInvalidRegistration") = 400
  /\ respond("bootstrap", "ErrForbidden") = 401 /\ respond("bootstrap", "ErrConflict") = 409
BY DEF respond, Otherwise, CreateAdmin

LEMMA Statuses_listPending ==
  /\ respond("listPending", "ok") = 200 /\ respond("listPending", "ErrUnavailable") = 503
  /\ respond("listPending", "ErrInvalidRegistration") = 400
  /\ respond("listPending", "ErrForbidden") = 403
BY DEF respond, Otherwise, writeAdminError

LEMMA Statuses_decide ==
  /\ respond("decide", "ok") = 204 /\ respond("decide", "ErrUnavailable") = 503
  /\ respond("decide", "ErrForbidden") = 403 /\ respond("decide", "ErrConflict") = 409
BY DEF respond, Otherwise, writeAdminError

LEMMA Statuses_upload ==
  /\ respond("upload", "ok") = 201 /\ respond("upload", "raw") = 503
  /\ respond("upload", "ErrInvalidBookRequest") = 400
  /\ respond("upload", "ErrBookUnauthorized") = 403 /\ respond("upload", "ErrBookTooLarge") = 413
  /\ respond("upload", "ErrBookCapacityExhausted") = 429
BY DEF respond, Otherwise, mapBookError

LEMMA Statuses_reindex ==
  /\ respond("reindex", "ok") = 202 /\ respond("reindex", "raw") = 503
  /\ respond("reindex", "ErrBookUnauthorized") = 403
  /\ respond("reindex", "ErrInvalidBookLifecycleRequest") = 400
  /\ respond("reindex", "ErrBookLifecycleConflict") = 409
  /\ respond("reindex", "ErrBookNotFound") = 404
BY DEF respond, Otherwise, mapBookError

LEMMA Statuses_delete ==
  /\ respond("delete", "ok") = 202 /\ respond("delete", "raw") = 503
  /\ respond("delete", "ErrBookUnauthorized") = 403
  /\ respond("delete", "ErrInvalidBookLifecycleRequest") = 400
  /\ respond("delete", "ErrBookLifecycleConflict") = 409
  /\ respond("delete", "ErrBookNotFound") = 404
BY DEF respond, Otherwise, mapBookError

LEMMA Statuses_list ==
  /\ respond("list", "ok") = 200 /\ respond("list", "raw") = 503
  /\ respond("list", "ErrBookUnauthorized") = 503 /\ respond("list", "ErrInvalidPagination") = 400
BY DEF respond, Otherwise, List

LEMMA Statuses_get ==
  /\ respond("get", "ok") = 200 /\ respond("get", "raw") = 503
  /\ respond("get", "ErrBookUnauthorized") = 503 /\ respond("get", "ErrBookNotFound") = 404
BY DEF respond, Otherwise, Get

LEMMA Statuses_search ==
  /\ respond("search", "ok") = 200 /\ respond("search", "ErrUnavailable") = 503
  /\ respond("search", "ErrSearchForbidden") = 403 /\ respond("search", "ErrInvalidSearch") = 422
BY DEF respond, Otherwise, writeQueryError

LEMMA Statuses_answer ==
  /\ respond("answer", "ok") = 200 /\ respond("answer", "ErrAnswerFailed") = 503
  /\ respond("answer", "ErrAnswerUnavailable") = 503
  /\ respond("answer", "ErrSearchForbidden") = 403 /\ respond("answer", "ErrInvalidSearch") = 422
  /\ respond("answer", "ErrUnavailable") = 503
BY DEF respond, Otherwise, writeQueryError

(* The status of an operation is true to the error of the service. *)
LEMMA StatusFits ==
  ASSUME NEW o \in Operations \ {"me"}, NEW r, r = o \/ (o = "answer" /\ r = "search")
  PROVE  /\ \A e \in Decided(r) : Fits(e, respond(o, Reply(r, e)))
         /\ \A c \in transportCodes : respond(o, clientError(r)[c]) = 503
<1> HIDE DEF errorsOf
<1>1. CASE o = "register" /\ r = "register"
  BY <1>1, ServerErrors, TransportNames, Replies_register, Statuses_register, RpcNames
     DEF Fits, Decided, dependencyErrors
<1>2. CASE o = "verifyEmail" /\ r = "verifyEmail"
  BY <1>2, ServerErrors, TransportNames, Replies_verifyEmail, Statuses_verifyEmail, RpcNames
     DEF Fits, Decided, dependencyErrors
<1>3. CASE o = "resend" /\ r = "resend"
  BY <1>3, ServerErrors, TransportNames, Replies_resend, Statuses_resend, RpcNames
     DEF Fits, Decided, dependencyErrors
<1>4. CASE o = "resetRequest" /\ r = "resetRequest"
  BY <1>4, ServerErrors, TransportNames, Replies_resetRequest, Statuses_resetRequest,
     RpcNames
     DEF Fits, Decided, dependencyErrors
<1>5. CASE o = "resetVerify" /\ r = "resetVerify"
  BY <1>5, ServerErrors, TransportNames, Replies_resetVerify, Statuses_resetVerify, RpcNames
     DEF Fits, Decided, dependencyErrors
<1>6. CASE o = "resetComplete" /\ r = "resetComplete"
  BY <1>6, ServerErrors, TransportNames, Replies_resetComplete, Statuses_resetComplete,
     RpcNames
     DEF Fits, Decided, dependencyErrors
<1>7. CASE o = "login" /\ r = "login"
  BY <1>7, ServerErrors, TransportNames, Replies_login, Statuses_login, RpcNames
     DEF Fits, Decided, dependencyErrors
<1>8. CASE o = "refresh" /\ r = "refresh"
  BY <1>8, ServerErrors, TransportNames, Replies_refresh, Statuses_refresh, RpcNames
     DEF Fits, Decided, dependencyErrors
<1>9. CASE o = "logout" /\ r = "logout"
  BY <1>9, ServerErrors, TransportNames, Replies_logout, Statuses_logout, RpcNames
     DEF Fits, Decided, dependencyErrors
<1>10. CASE o = "setupStatus" /\ r = "setupStatus"
  BY <1>10, ServerErrors, TransportNames, Replies_setupStatus, Statuses_setupStatus,
     RpcNames
     DEF Fits, Decided, dependencyErrors
<1>11. CASE o = "bootstrap" /\ r = "bootstrap"
  BY <1>11, ServerErrors, TransportNames, Replies_bootstrap, Statuses_bootstrap, RpcNames
     DEF Fits, Decided, dependencyErrors
<1>12. CASE o = "listPending" /\ r = "listPending"
  BY <1>12, ServerErrors, TransportNames, Replies_listPending, Statuses_listPending,
     RpcNames
     DEF Fits, Decided, dependencyErrors
<1>13. CASE o = "decide" /\ r = "decide"
  BY <1>13, ServerErrors, TransportNames, Replies_decide, Statuses_decide, RpcNames
     DEF Fits, Decided, dependencyErrors
<1>14. CASE o = "upload" /\ r = "upload"
  BY <1>14, ServerErrors, TransportNames, Replies_upload, Statuses_upload, RpcNames
     DEF Fits, Decided, dependencyErrors
<1>15. CASE o = "reindex" /\ r = "reindex"
  BY <1>15, ServerErrors, TransportNames, Replies_reindex, Statuses_reindex, RpcNames
     DEF Fits, Decided, dependencyErrors
<1>16. CASE o = "delete" /\ r = "delete"
  BY <1>16, ServerErrors, TransportNames, Replies_delete, Statuses_delete, RpcNames
     DEF Fits, Decided, dependencyErrors
<1>17. CASE o = "list" /\ r = "list"
  BY <1>17, ServerErrors, TransportNames, Replies_list, Statuses_list, RpcNames
     DEF Fits, Decided, dependencyErrors
<1>18. CASE o = "get" /\ r = "get"
  BY <1>18, ServerErrors, TransportNames, Replies_get, Statuses_get, RpcNames
     DEF Fits, Decided, dependencyErrors
<1>19. CASE o = "search" /\ r = "search"
  BY <1>19, ServerErrors, TransportNames, Replies_search, Statuses_search, RpcNames
     DEF Fits, Decided, dependencyErrors
<1>20. CASE o = "answer" /\ r = "answer"
  BY <1>20, ServerErrors, TransportNames, Replies_answer, Statuses_answer, RpcNames
     DEF Fits, Decided, dependencyErrors
<1>21. CASE o = "answer" /\ r = "search"
  BY <1>21, ServerErrors, TransportNames, Replies_search, Statuses_answer, RpcNames
     DEF Fits, Decided, dependencyErrors
<1> QED
  BY <1>1, <1>2, <1>3, <1>4, <1>5, <1>6, <1>7, <1>8, <1>9, <1>10, <1>11, <1>12, <1>13,
     <1>14, <1>15, <1>16, <1>17, <1>18, <1>19, <1>20, <1>21, RpcNames
     DEF Operations

-----------------------------------------------------------------------------
(* The request under way *)

(* What a response may say. *)
Told ==
  /\ status \in 200..299 => \/ why = "ok" /\ (acted \/ op = "me")
                            \/ why = "roleSelection" /\ op = "login" /\ ~acted
  /\ status \in 400..499 => why \in Refusals /\ ~acted
  /\ status = 503 <=> why \in Dependency \cup {"requestID", "brokenBody"}
  /\ why = "brokenBody" => op = "upload" /\ ~acted

(* The operations whose service asks for the role again. *)
Actors == Catalog \cup {"search", "answer"}

(* While a call is under way: who is called, for whom, what it may have     *)
(* decided, and what the decision has changed.                              *)
Called ==
  /\ rpc = "validateSession" \/ (op # "me" /\ (rpc = op \/ (op = "answer" /\ rpc = "search")))
  /\ rpc # "validateSession" /\ op \in guarded => role \in RequireRole(op)
  /\ result = Nothing \/ result \in Decided(rpc)
  /\ rpc = "validateSession" => ~acted
  /\ result # Nothing /\ rpc # "validateSession" => (acted <=> result = "ok")
  /\ (rpc = "logout" /\ result = "ok") \/ (rpc = "refresh" /\ result = "credentials")
       => session = "revoked"

CookieInv == cookie = Nothing => session = "revoked" \/ ~current

OutcomeInv ==
  /\ session \in {"live", "revoked"} /\ current \in BOOLEAN /\ acted \in BOOLEAN
  /\ step \in {"idle", "admission", "handler", "calling", "streaming", "done"}
  /\ step # "idle" => op \in Operations
  /\ step \in {"admission", "handler", "streaming"} => ~acted
  /\ step = "handler" /\ op \in guarded => role \in RequireRole(op)
  /\ step = "streaming" => op = "upload" /\ rpc = "upload" /\ result # "ok"
  /\ step \in {"calling", "streaming"} => Called
  /\ step = "done" => Told
  /\ CookieInv

LEMMA ActorNames == Actors = {"upload", "reindex", "delete", "list", "get", "search", "answer"}
BY RpcNames DEF Actors

(* The decisions are named apart from Edge's own reasons. *)
LEMMA DecidedNames ==
  ASSUME NEW r \in Rpcs
  PROVE  /\ Decided(r) \cap {"transport", "requestID", "brokenBody", "correlation", Nothing} = {}
         /\ "ok" \notin errorsOf(r)
         /\ "roleSelection" \in Decided(r) => r = "login"
         /\ Decided(r) \subseteq Errors
<1> HIDE DEF errorsOf
<1>1. Decided(r) \subseteq errorsOf(r) \cup {"ok"}
  BY DEF Decided
<1>2. "transport" \notin errorsOf(r) /\ "requestID" \notin errorsOf(r) /\ "brokenBody" \notin errorsOf(r)
      /\ Nothing \notin errorsOf(r) /\ "ok" \notin errorsOf(r)
  BY ServerErrors, RpcNames DEF Nothing
<1>3. "correlation" \in errorsOf(r) => r = "upload"
  BY ServerErrors, RpcNames
<1>4. "correlation" \notin Decided(r)
  BY <1>3, RpcNames DEF Decided
<1>5. "roleSelection" \in errorsOf(r) => r = "login"
  BY ServerErrors, RpcNames
<1>6. errorsOf(r) \subseteq Errors /\ "ok" \in Errors
  BY ErrorsOfAll
<1> QED
  BY <1>1, <1>2, <1>4, <1>5, <1>6 DEF Nothing

LEMMA EdgeRefusals == {"origin", "limit", "token", "role", "malformed"} \subseteq Refusals
BY DEF Refusals

LEMMA ServiceRefusals ==
  ASSUME NEW r \in Rpcs, NEW e \in Decided(r), e \notin dependencyErrors \cup {"ok", "roleSelection"}
  PROVE  e \in Refusals
BY DecidedNames DEF Refusals

LEMMA OutcomeInit ==
  ASSUME RequestInit
  PROVE  OutcomeInv
BY DEF RequestInit, OutcomeInv, CookieInv, Nothing

LEMMA AnsweredInv ==
  ASSUME OutcomeInv, NEW s, NEW reason, Answer(s, reason), op \in Operations, ~acted,
         \/ s = 503 /\ (reason = "requestID" \/ (reason = "brokenBody" /\ op = "upload"))
         \/ s \in {400, 401, 403, 415, 422, 429} /\ reason \in {"origin", "limit", "token", "malformed"}
  PROVE  OutcomeInv'
<1>1. /\ step' = "done" /\ status' = s /\ why' = reason /\ op' = op /\ acted' = acted
      /\ session' = session /\ current' = current /\ cookie' = cookie
  BY DEF Answer, browser
<1>2. Told'
  BY <1>1, EdgeRefusals DEF Told, Dependency
<1> QED
  BY <1>1, <1>2 DEF OutcomeInv, CookieInv

LEMMA EdgeAnswersInv ==
  ASSUME OutcomeInv,
         \/ RequestIDFails \/ BrowserMutationGuard \/ RateLimited \/ TokenRejected \/ Refuse \/ AnswerRefused \/ BodyFails
  PROVE  OutcomeInv'
<1>1. step \in {"admission", "handler", "streaming"}
  BY DEF RequestIDFails, BrowserMutationGuard, RateLimited, TokenRejected, Refuse, AnswerRefused,
         BodyFails
<1>2. op \in Operations /\ ~acted
  BY <1>1 DEF OutcomeInv
<1>3. refusals(op) \subseteq {400, 401, 415, 422}
  BY DEF refusals
<1>4. mapBookError.ErrInvalidBookRequest = 400
  BY DEF mapBookError
<1>5. CASE BrowserMutationGuard
  BY <1>2, <1>5, AnsweredInv DEF BrowserMutationGuard
<1>6. CASE RateLimited
  BY <1>2, <1>6, AnsweredInv DEF RateLimited
<1>7. CASE TokenRejected
  BY <1>2, <1>7, AnsweredInv DEF TokenRejected
<1>8. CASE Refuse
  <2>1. PICK s \in refusals(op) : Answer(s, "malformed")
    BY <1>8 DEF Refuse
  <2> QED
    BY <1>2, <1>3, <2>1, AnsweredInv
<1>9. CASE AnswerRefused
  BY <1>2, <1>9, AnsweredInv DEF AnswerRefused
<1>10. CASE BodyFails
  <2>1. Answer(400, "malformed") \/ Answer(503, "brokenBody")
    BY <1>4, <1>10 DEF BodyFails
  <2>2. op = "upload"
    BY <1>10 DEF BodyFails, OutcomeInv
  <2> QED
    BY <1>2, <2>1, <2>2, AnsweredInv
<1>11. CASE RequestIDFails
  BY <1>2, <1>11, AnsweredInv DEF RequestIDFails
<1> QED
  BY <1>5, <1>6, <1>7, <1>8, <1>9, <1>10, <1>11

LEMMA MeInv ==
  ASSUME OutcomeInv, Me
  PROVE  OutcomeInv'
<1>1. /\ step = "handler" /\ op = "me" /\ step' = "done" /\ status' = 200 /\ why' = "ok"
      /\ op' = op /\ acted' = acted /\ session' = session /\ current' = current /\ cookie' = cookie
  BY DEF Me, Answer, browser
<1>2. Told'
  BY <1>1 DEF Told, Dependency
<1> QED
  BY <1>1, <1>2 DEF OutcomeInv, CookieInv

LEMMA SendInv ==
  ASSUME OutcomeInv, NEW o \in Operations, Send(o)
  PROVE  OutcomeInv'
<1>1. /\ step' = "admission" /\ op' = o /\ acted' = FALSE
      /\ session' = session /\ current' = current /\ cookie' = cookie
  BY DEF Send, browser
<1> QED
  BY <1>1 DEF OutcomeInv, CookieInv

LEMMA PublicInv ==
  ASSUME OutcomeInv, Public
  PROVE  OutcomeInv'
<1>1. /\ step = "admission" /\ step' = "handler" /\ op' = op /\ acted' = acted /\ op \notin guarded
      /\ session' = session /\ current' = current /\ cookie' = cookie
  BY DEF Public, browser
<1> QED
  BY <1>1 DEF OutcomeInv, CookieInv

(* A call begins. *)
LEMMA CallsInv ==
  ASSUME OutcomeInv, Authenticator \/ CallService \/ StartUpload
  PROVE  OutcomeInv'
<1>1. /\ step \in {"admission", "handler"} /\ step' \in {"calling", "streaming"} /\ result' = Nothing
      /\ op' = op /\ acted' = acted /\ session' = session /\ current' = current /\ cookie' = cookie
      /\ rpc' = "validateSession" \/ (op # "me" /\ rpc' = op /\ step = "handler")
      /\ role' = role
      /\ step' = "streaming" => op = "upload" /\ rpc' = "upload"
  <2>1. CASE Authenticator
    BY <2>1 DEF Authenticator, Call, browser
  <2>2. CASE CallService
    BY <2>2 DEF CallService, Call, browser
  <2>3. CASE StartUpload
    BY <2>3 DEF StartUpload, browser
  <2> QED
    BY <2>1, <2>2, <2>3
<1>2. ~acted /\ op \in Operations
  BY <1>1 DEF OutcomeInv
<1>3. rpc' # "validateSession" /\ op' \in guarded => role' \in RequireRole(op')
  BY <1>1 DEF OutcomeInv
<1>4. Called'
  BY <1>1, <1>2, <1>3 DEF Called, Nothing
<1> QED
  BY <1>1, <1>2, <1>4 DEF OutcomeInv, CookieInv, Nothing

LEMMA ClosedInv ==
  ASSUME OutcomeInv, StreamClosed
  PROVE  OutcomeInv'
<1>1. /\ step = "streaming" /\ step' = "calling" /\ result' = result /\ rpc' = rpc /\ role' = role
      /\ op' = op /\ acted' = acted /\ session' = session /\ current' = current /\ cookie' = cookie
  BY DEF StreamClosed, browser
<1>2. Called'
  BY <1>1 DEF OutcomeInv, Called
<1> QED
  BY <1>1, <1>2 DEF OutcomeInv, CookieInv

(* The service decides. *)
LEMMA DecisionErrors ==
  ASSUME NEW r \in Rpcs, NEW p, NEW e \in decisions(r, p),
         r \in Actors => p \in RequireRole(r)
  PROVE  /\ e \in Decided(r)
         /\ r = "refresh" /\ e = "credentials" => session # "live" \/ ~current
<1> HIDE DEF errorsOf
<1>1. dependencyErrors \subseteq errorsOf(r) /\ dependencyErrors = {"canceled", "deadline", "other"}
  BY DEF errorsOf, dependencyErrors
<1>2. /\ "credentials" \in errorsOf("validateSession") /\ "credentials" \in errorsOf("refresh")
      /\ \A a \in admin : "forbidden" \in errorsOf(a)
      /\ admin \cap Actors = {} /\ "validateSession" \notin Actors /\ "refresh" \notin Actors
  BY ServerErrors, ActorNames DEF admin
<1>3. r \in Actors \cup (Rpcs \ (Actors \cup admin)) => allowed(r, p)
  <2>1. CASE r \in Actors
    BY <2>1, ActorNames
       DEF allowed, RequireRole, Roles, admin, librarian, CanManage, CanRead, CanSearch, CanAnswer
  <2>2. CASE r \in Rpcs \ (Actors \cup admin)
    BY <2>2, ActorNames DEF allowed
  <2> QED
    BY <2>1, <2>2
<1>4. CASE r \in Actors
  <2>1. allowed(r, p) /\ r \notin admin /\ r # "validateSession" /\ r # "refresh"
    BY <1>2, <1>3, <1>4
  <2>2. e \in dependencyErrors \cup faults(r) \cup {"ok"}
    BY <2>1 DEF decisions
  <2>3. "forbidden" \notin dependencyErrors /\ "correlation" \notin dependencyErrors
    BY <1>1
  <2> QED
    BY <1>1, <1>2, <1>4, <2>2, <2>3 DEF faults, Decided, Actors
<1>5. CASE r \notin Actors
  <2>1. Decided(r) = errorsOf(r) \cup {"ok"}
    BY <1>5 DEF Decided, Actors
  <2>2. e \in errorsOf(r) \cup {"ok"}
    BY <1>1, <1>2, <1>3, <1>5 DEF decisions, faults
  <2>3. ASSUME r = "refresh", e = "credentials"
        PROVE  session # "live" \/ ~current
    BY <1>1, <2>3 DEF decisions
  <2> QED
    BY <2>1, <2>2, <2>3
<1> QED
  BY <1>4, <1>5

LEMMA EffectKeeps ==
  ASSUME OutcomeInv, NEW r, NEW e, effect(r, e)
  PROVE  /\ session' \in {"live", "revoked"} /\ current' \in BOOLEAN
         /\ session = "revoked" => session' = "revoked"
         /\ ~current => ~current'
         /\ r = "logout" /\ e = "ok" => session' = "revoked"
         /\ r = "refresh" /\ e = "credentials" /\ ~current => session' = "revoked"
BY DEF OutcomeInv, effect

LEMMA ActorsCalled ==
  ASSUME Called, rpc \in Actors
  PROVE  role \in RequireRole(rpc)
<1>1. rpc # "validateSession" /\ (rpc = op \/ (op = "answer" /\ rpc = "search"))
  BY ActorNames DEF Called
<1>2. op \in guarded /\ RequireRole(op) = RequireRole(rpc)
  BY <1>1, ActorNames DEF guarded, admin, librarian, RequireRole
<1> QED
  BY <1>1, <1>2 DEF Called

LEMMA ServeInv ==
  ASSUME OutcomeInv, Serve
  PROVE  OutcomeInv'
<1>1. PICK e \in decisions(rpc, role) : /\ result' = e /\ effect(rpc, e)
                                        /\ acted' = (e = "ok" /\ rpc # "validateSession")
  BY DEF Serve
<1>2. /\ step = "calling" /\ step' = "calling" /\ op' = op /\ rpc' = rpc /\ cookie' = cookie
      /\ role' = role
  BY DEF Serve
<1>3. Called /\ op \in Operations /\ session \in {"live", "revoked"}
  BY <1>2 DEF OutcomeInv
<1>4. rpc \in Rpcs
  BY <1>3, RpcNames DEF Called, Operations
<1>5. /\ e \in Decided(rpc)
      /\ rpc = "refresh" /\ e = "credentials" => session # "live" \/ ~current
  <2>1. rpc \in Actors => role \in RequireRole(rpc)
    BY <1>3, ActorsCalled
  <2> QED
    BY <1>1, <1>4, <2>1, DecisionErrors
<1>6. /\ session' \in {"live", "revoked"} /\ current' \in BOOLEAN
      /\ session = "revoked" => session' = "revoked"
      /\ ~current => ~current'
      /\ rpc = "logout" /\ e = "ok" => session' = "revoked"
      /\ rpc = "refresh" /\ e = "credentials" /\ ~current => session' = "revoked"
  BY <1>1, EffectKeeps
<1>7. (rpc' = "logout" /\ result' = "ok") \/ (rpc' = "refresh" /\ result' = "credentials")
        => session' = "revoked"
  BY <1>1, <1>2, <1>3, <1>5, <1>6
<1>8. acted' \in BOOLEAN /\ (rpc = "validateSession" => ~acted')
      /\ (rpc # "validateSession" => (acted' <=> e = "ok"))
  BY <1>1
<1>9. Called'
  BY <1>1, <1>2, <1>3, <1>5, <1>7, <1>8 DEF Called
<1>10. CookieInv'
  BY <1>2, <1>6 DEF OutcomeInv, CookieInv
<1> QED
  BY <1>2, <1>3, <1>6, <1>8, <1>9, <1>10 DEF OutcomeInv

LEMMA ServeEarlyInv ==
  ASSUME OutcomeInv, ServeEarly
  PROVE  OutcomeInv'
<1>1. /\ step = "streaming" /\ result' \in decisions("upload", role) \ {"ok"} /\ step' = step
      /\ rpc' = rpc /\ role' = role
      /\ op' = op /\ acted' = acted /\ session' = session /\ current' = current /\ cookie' = cookie
  BY DEF ServeEarly, browser
<1>2. op = "upload" /\ rpc = "upload" /\ ~acted /\ op \in Operations
  BY <1>1 DEF OutcomeInv
<1>3. result' \in Decided("upload") /\ result' # "ok" /\ result' # Nothing
  <2>1. "upload" \in Rpcs /\ "upload" \in Actors
    BY RpcNames, ActorNames
  <2>2. role \in RequireRole("upload")
    BY <1>1, <1>2, <2>1, ActorsCalled DEF OutcomeInv
  <2>3. result' \in Decided("upload")
    BY <1>1, <2>1, <2>2, DecisionErrors
  <2> QED
    BY <1>1, <2>1, <2>3, DecidedNames
<1>4. Called
  BY <1>1 DEF OutcomeInv
<1>5. Called'
  BY <1>1, <1>2, <1>3, <1>4 DEF Called
<1> QED
  BY <1>1, <1>2, <1>3, <1>5 DEF OutcomeInv, CookieInv

(* A service that works late, or that ends a session, changes only what    *)
(* the browser holds.                                                      *)
LEMMA BehindInv ==
  ASSUME OutcomeInv, Revoke \/ \E call \in late : ServeLate(call)
  PROVE  OutcomeInv'
<1>1. /\ step' = step /\ op' = op /\ rpc' = rpc /\ result' = result /\ why' = why
      /\ status' = status /\ acted' = acted /\ cookie' = cookie /\ role' = role
  BY DEF Revoke, ServeLate
<1>2. /\ session' \in {"live", "revoked"} /\ current' \in BOOLEAN
      /\ session = "revoked" => session' = "revoked"
      /\ ~current => ~current'
  <2>1. CASE Revoke
    BY <2>1 DEF Revoke, OutcomeInv
  <2>2. CASE \E call \in late : ServeLate(call)
    <3>1. PICK r, e : effect(r, e)
      BY <2>2 DEF ServeLate
    <3> QED
      BY <3>1, EffectKeeps
  <2> QED
    BY <2>1, <2>2
<1>3. Called => Called'
  BY <1>1, <1>2 DEF Called
<1>4. Told => Told'
  BY <1>1 DEF Told
<1> QED
  BY <1>1, <1>2, <1>3, <1>4 DEF OutcomeInv, CookieInv

(* The client returns e: what the service decided, translated, or a        *)
(* failure of the transport.                                               *)
Returned(e, reason) ==
  \/ result # Nothing /\ e = Reply(rpc, result) /\ reason = result
  \/ \E c \in transportCodes : e = clientError(rpc)[c] /\ reason = "transport"

LEMMA AuthenticatedInv ==
  ASSUME OutcomeInv, step = "calling", NEW e, NEW reason, Returned(e, reason),
         rpc = "validateSession", Authenticated(e, reason), UNCHANGED << op, took, acted, tries >>
  PROVE  OutcomeInv'
<1>1. Called /\ op \in Operations
  BY DEF OutcomeInv
<1>2. /\ ~acted /\ op' = op /\ acted' = acted
      /\ session' = session /\ current' = current /\ cookie' = cookie
  BY <1>1 DEF Called, Authenticated, browser
<1>3. \/ e = "ok"
      \/ e = "ErrInvalidCredentials" /\ reason = "credentials"
      \/ e = "ErrUnavailable" /\ reason \in Dependency
  <2>1. CASE \E c \in transportCodes : e = clientError(rpc)[c] /\ reason = "transport"
    BY <2>1, TransportNames, Replies_validateSession DEF Dependency
  <2>2. CASE result # Nothing /\ e = Reply(rpc, result) /\ reason = result
    <3>1. result \in {"canceled", "deadline", "other", "credentials", "ok"}
      BY <1>1, <2>2, ServerErrors DEF Called, Decided
    <3> QED
      BY <2>2, <3>1, Replies_validateSession DEF Dependency
  <2> QED
    BY <2>1, <2>2 DEF Returned
<1>4. \/ step' = "handler" /\ role' \in RequireRole(op)
      \/ step' = "done" /\ status' = 403 /\ why' = "role"
      \/ step' = "done" /\ status' = 401 /\ why' = "credentials"
      \/ step' = "done" /\ status' = 503 /\ why' \in Dependency
  BY <1>3 DEF Authenticated
<1>5. step' = "done" => Told'
  <2>1. {"role", "credentials"} \subseteq Refusals
    <3>1. "validateSession" \in Rpcs /\ "credentials" \in Decided("validateSession")
      BY RpcNames, ServerErrors DEF Decided
    <3> QED
      BY <3>1, EdgeRefusals, ServiceRefusals DEF dependencyErrors
  <2> QED
    BY <1>2, <1>4, <2>1 DEF Told, Dependency
<1>6. step' \in {"handler", "done"}
  BY <1>4
<1> QED
  BY <1>1, <1>2, <1>4, <1>5, <1>6 DEF OutcomeInv, CookieInv

LEMMA QueryInv ==
  ASSUME OutcomeInv, step \in {"calling", "streaming"}, NEW e, fallsBack(e), Query(e),
         UNCHANGED << op, took, acted, tries >>
  PROVE  OutcomeInv'
<1>1. /\ rpc = "answer" /\ rpc' = "search" /\ result' = Nothing /\ step' = step /\ op' = op /\ role' = role
      /\ acted' = acted /\ session' = session /\ current' = current /\ cookie' = cookie
  BY DEF fallsBack, Query, browser
<1>2. step = "calling" /\ op = "answer" /\ op \in Operations
      /\ (op \in guarded => role \in RequireRole(op))
  BY <1>1 DEF OutcomeInv, Called
<1>3. Called'
  BY <1>1, <1>2 DEF Called, Nothing
<1> QED
  BY <1>1, <1>2, <1>3 DEF OutcomeInv, CookieInv

LEMMA RespondInv ==
  ASSUME OutcomeInv, step \in {"calling", "streaming"}, NEW e, NEW reason, Returned(e, reason),
         rpc # "validateSession", Respond(e, reason), UNCHANGED << op, took, acted, tries >>
  PROVE  OutcomeInv'
<1>1. Called /\ op \in Operations
  BY DEF OutcomeInv
<1>2. op \in Operations \ {"me"} /\ (rpc = op \/ (op = "answer" /\ rpc = "search"))
  BY <1>1 DEF Called
<1>3. rpc \in Rpcs
  BY <1>2, RpcNames DEF Operations
<1>4. /\ step' = "done" /\ why' = reason /\ status' = respond(op, e) /\ op' = op /\ acted' = acted
      /\ cookie' = IF setsCookie(e) THEN "held" ELSE IF clearsCookie(e) THEN Nothing ELSE cookie
      /\ current' = (current \/ setsCookie(e))
      /\ session' = IF op = "login" /\ e = "ok" THEN "live" ELSE session
  BY DEF Respond
<1>5. Told'
  <2>1. CASE \E c \in transportCodes : e = clientError(rpc)[c] /\ reason = "transport"
    <3>1. respond(op, e) = 503
      <4>1. \A c \in transportCodes : respond(op, clientError(rpc)[c]) = 503
        BY <1>2, StatusFits
      <4> QED
        BY <2>1, <4>1
    <3>2. status' = 503 /\ why' = "transport"
      BY <1>4, <2>1, <3>1
    <3> QED
      BY <3>2 DEF Told, Dependency
  <2>2. CASE result # Nothing /\ e = Reply(rpc, result) /\ reason = result
    <3>1. result \in Decided(rpc) /\ (acted <=> result = "ok")
      BY <1>1, <2>2 DEF Called
    <3>2. Fits(result, status')
      <4>1. Fits(result, respond(op, Reply(rpc, result)))
        BY <1>2, <3>1, StatusFits
      <4> QED
        BY <1>4, <2>2, <4>1
    <3>3. /\ result \notin {"transport", "requestID", "brokenBody"}
          /\ result = "roleSelection" => op = "login"
      BY <1>2, <1>3, <3>1, DecidedNames
    <3>4. why' = result /\ acted' = acted
      BY <1>4, <2>2
    <3>5. CASE result \in {"ok", "roleSelection"}
      BY <1>4, <3>1, <3>2, <3>3, <3>4, <3>5 DEF Told, Fits, Dependency
    <3>6. CASE result \in dependencyErrors
      BY <3>2, <3>4, <3>6 DEF Told, Fits, Dependency, dependencyErrors
    <3>7. CASE result \notin dependencyErrors \cup {"ok", "roleSelection"}
      <4>1. result \in Refusals
        BY <1>3, <3>1, <3>7, ServiceRefusals
      <4> QED
        BY <3>1, <3>2, <3>3, <3>4, <3>7, <4>1 DEF Told, Fits, Dependency, dependencyErrors
    <3> QED
      BY <3>5, <3>6, <3>7
  <2> QED
    BY <2>1, <2>2 DEF Returned
<1>6. clearsCookie(e) => session = "revoked"
  <2>1. DOMAIN Logout = {"ok", "ErrInvalidCredentials"}
    BY DEF Logout
  <2>2. CASE op = "logout" /\ e \in DOMAIN Logout
    <3>1. rpc = "logout"
      BY <1>2, <2>2
    <3>2. ~(\E c \in transportCodes : e = clientError(rpc)[c])
      BY <2>1, <2>2, <3>1, TransportNames, Replies_logout
    <3>3. result # Nothing /\ e = Reply(rpc, result)
      BY <3>2 DEF Returned
    <3>4. result \in {"canceled", "deadline", "other", "ok"}
      BY <1>1, <3>1, <3>3, ServerErrors DEF Called, Decided
    <3>5. result = "ok"
      BY <2>1, <2>2, <3>1, <3>3, <3>4, Replies_logout
    <3> QED
      BY <1>1, <3>1, <3>5 DEF Called
  <2>3. CASE op = "refresh" /\ e = "ErrInvalidCredentials"
    <3>1. rpc = "refresh"
      BY <1>2, <2>3
    <3>2. ~(\E c \in transportCodes : e = clientError(rpc)[c])
      BY <2>3, <3>1, TransportNames, Replies_refresh
    <3>3. result # Nothing /\ e = Reply(rpc, result)
      BY <3>2 DEF Returned
    <3>4. result \in {"canceled", "deadline", "other", "credentials", "ok"}
      BY <1>1, <3>1, <3>3, ServerErrors DEF Called, Decided
    <3>5. result = "credentials"
      BY <2>3, <3>1, <3>3, <3>4, Replies_refresh
    <3> QED
      BY <1>1, <3>1, <3>5 DEF Called
  <2> QED
    BY <2>2, <2>3 DEF clearsCookie
<1>7. CookieInv'
  <2>1. CASE setsCookie(e)
    BY <1>4, <2>1 DEF CookieInv, Nothing
  <2>2. CASE ~setsCookie(e)
    <3>1. ~(op = "login" /\ e = "ok")
      BY <2>2 DEF setsCookie
    <3>2. session' = session /\ (current' <=> current)
      BY <1>4, <2>2, <3>1
    <3>3. cookie' = Nothing => clearsCookie(e) \/ cookie = Nothing
      BY <1>4, <2>2
    <3>4. CookieInv
      BY DEF OutcomeInv
    <3> QED
      BY <1>6, <3>2, <3>3, <3>4 DEF CookieInv
  <2> QED
    BY <2>1, <2>2
<1>8. session' \in {"live", "revoked"} /\ current' \in BOOLEAN /\ acted' \in BOOLEAN
  BY <1>4 DEF OutcomeInv
<1> QED
  BY <1>1, <1>4, <1>5, <1>7, <1>8 DEF OutcomeInv

LEMMA ReturnsToHandler ==
  ASSUME OutcomeInv, Deliver \/ TransportFails
  PROVE  OutcomeInv'
<1>1. step \in {"calling", "streaming"}
  BY DEF Deliver, TransportFails
<1>2. \E e, reason : Returned(e, reason) /\ Continue(e, reason)
  <2>1. CASE Deliver
    <3>1. result # Nothing /\ Continue(Reply(rpc, result), result)
      BY <2>1 DEF Deliver, Reply
    <3>2. Returned(Reply(rpc, result), result)
      BY <3>1 DEF Returned
    <3> QED
      BY <3>1, <3>2
  <2>2. CASE TransportFails
    <3>1. PICK c \in transportCodes : Continue(clientError(rpc)[c], "transport")
      BY <2>2 DEF TransportFails
    <3>2. Returned(clientError(rpc)[c], "transport")
      BY DEF Returned
    <3> QED
      BY <3>1, <3>2
  <2> QED
    BY <2>1, <2>2
<1>3. PICK e, reason : Returned(e, reason) /\ Continue(e, reason)
  BY <1>2
<1>4. UNCHANGED << op, took, acted, tries >>
  BY <1>3 DEF Continue
<1>5. CASE rpc = "validateSession" /\ Authenticated(e, reason)
  <2>1. step = "calling"
    BY <1>1, <1>5 DEF OutcomeInv
  <2> QED
    BY <1>3, <1>4, <1>5, <2>1, AuthenticatedInv
<1>6. CASE fallsBack(e) /\ Query(e)
  BY <1>1, <1>4, <1>6, QueryInv
<1>7. CASE rpc # "validateSession" /\ Respond(e, reason)
  BY <1>1, <1>3, <1>4, <1>7, RespondInv
<1> QED
  BY <1>3, <1>5, <1>6, <1>7 DEF Continue

(* For any number of requests: a success is only reported when the service  *)
(* reported it, a request is only blamed for what is wrong with it and then *)
(* took no effect, the service is blamed exactly when it, Edge or the way   *)
(* between them failed or an upload's body broke off, which took no effect  *)
(* either, and the refresh cookie is only taken away when its token no      *)
(* longer refreshes.                                                        *)
THEOREM BrowserToldTheTruth == RequestSpec => []OutcomesTruthful
<1>1. RequestInit => OutcomeInv
  BY OutcomeInit
<1>2. OutcomeInv /\ [RequestNext]_rvars => OutcomeInv'
  <2> SUFFICES ASSUME OutcomeInv, [RequestNext]_rvars PROVE OutcomeInv'
    OBVIOUS
  <2>1. CASE UNCHANGED rvars
    <3>1. /\ step' = step /\ op' = op /\ rpc' = rpc /\ result' = result /\ why' = why
          /\ status' = status /\ acted' = acted /\ cookie' = cookie /\ session' = session
          /\ current' = current /\ role' = role
      BY <2>1 DEF rvars
    <3> QED
      BY <3>1 DEF OutcomeInv, Called, Told, CookieInv
  <2>2. CASE \E o \in Operations : Send(o)
    BY <2>2, SendInv
  <2>3. CASE \/ RequestIDFails \/ BrowserMutationGuard \/ RateLimited \/ TokenRejected
             \/ Refuse \/ AnswerRefused \/ BodyFails
    BY <2>3, EdgeAnswersInv
  <2>4. CASE Authenticator \/ CallService \/ StartUpload
    BY <2>4, CallsInv
  <2>5. CASE Public \/ Me \/ StreamClosed
    BY <2>5, PublicInv, MeInv, ClosedInv
  <2>6. CASE Serve \/ ServeEarly
    BY <2>6, ServeInv, ServeEarlyInv
  <2>7. CASE Revoke \/ \E call \in late : ServeLate(call)
    BY <2>7, BehindInv
  <2>8. CASE Deliver \/ TransportFails
    BY <2>8, ReturnsToHandler
  <2> QED
    BY <2>1, <2>2, <2>3, <2>4, <2>5, <2>6, <2>7, <2>8 DEF RequestNext
<1>3. OutcomeInv => OutcomesTruthful
  BY DEF OutcomeInv, OutcomesTruthful, Told, CookieInv
<1> QED
  BY <1>1, <1>2, <1>3, PTL DEF RequestSpec
=============================================================================
