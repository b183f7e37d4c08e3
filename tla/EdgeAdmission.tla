---------------------------- MODULE EdgeAdmission ----------------------------
(***************************************************************************)
(* The layers of the Edge API around a handler: RequestLogger, Recovery, a *)
(* fixed-window rate limit (by address or by principal, the same rule),    *)
(* and the bounded concurrency of the queries.  Each limiter holds its     *)
(* mutex for its whole decision; the semaphore, each write of a handler    *)
(* and the unwinding of a panic are steps of their own.                    *)
(*                                                                         *)
(* Time is relative: an entry keeps the age of its window.                 *)
(***************************************************************************)
EXTENDS Integers, Sequences, FiniteSets

CONSTANTS Requests, Keys,
          RateLimit, RateWindow, RateMaxKeys,   \* of one rate limit
          Concurrency                           \* of BoundedConcurrency

ASSUME AdmissionAssumption ==
  /\ RateLimit \in Nat \ {0} /\ RateWindow \in Nat \ {0} /\ RateMaxKeys \in Nat \ {0}
  /\ Concurrency \in Nat \ {0}

VARIABLES entries,   \* the windows of the limiter, by key
          recent,    \* the ages of the admissions younger than a window, by key
          tokens,    \* tokens of the semaphore in use
          req        \* the requests under way or done

avars == << entries, recent, tokens, req >>

(* A response: how far the request came, whether the writer of Recovery    *)
(* counts it as committed, the code chi's writer recorded, the status and  *)
(* the bodies that went to the browser, and the completion record.         *)
NoRequest == [step |-> "idle", committed |-> FALSE, code |-> 0, wire |-> 0, body |-> {}, logged |-> << >>]

AdmissionInit ==
  /\ entries = << >> /\ recent = [k \in Keys |-> << >>]
  /\ tokens = 0 /\ req = [r \in Requests |-> NoRequest]

(* A list of ages a moment later, without the first ones that reached the  *)
(* length of a window: admissions are appended, so the oldest come first.  *)
Later(ages) ==
  LET gone == Cardinality({i \in DOMAIN ages : ages[i] + 1 >= RateWindow})
  IN [i \in 1..(Len(ages) - gone) |-> ages[i + gone] + 1]

(* Time passes: windows age, and admissions older than a window no longer  *)
(* count.                                                                  *)
Tick ==
  /\ entries' = [k \in DOMAIN entries |->
                   [entries[k] EXCEPT !.age = IF @ < RateWindow THEN @ + 1 ELSE @]]
  /\ recent' = [k \in Keys |-> Later(recent[k])]
  /\ UNCHANGED << tokens, req >>

(* Fault: a full table makes room by dropping windows that still run. *)
roomForAnyone(k) ==
  IF k \notin DOMAIN entries /\ Cardinality(DOMAIN entries) >= RateMaxKeys THEN << >> ELSE entries

(* The entries after a new key has made room for itself: only windows that *)
(* ended are dropped.                                                      *)
room(k) ==
  IF k \notin DOMAIN entries /\ Cardinality(DOMAIN entries) >= RateMaxKeys
  THEN [j \in {j \in DOMAIN entries : entries[j].age < RateWindow} |-> entries[j]]
  ELSE entries

(* The writer of chi: the first final status stands. *)
written(q, code) == IF q.wire = 0 THEN [q EXCEPT !.wire = code, !.code = code] ELSE q

outcome(status) == IF status >= 500 THEN "server_error" ELSE IF status >= 400 THEN "client_error" ELSE "success"

(* The handler returned: net/http sends 200 if nothing was sent, and the   *)
(* completion record has the status of the writer, or 200.                 *)
RequestLogger(q) ==
  LET status == IF q.code = 0 THEN 200 ELSE q.code
  IN [q EXCEPT !.step = "done", !.wire = IF @ = 0 THEN 200 ELSE @,
               !.logged = << status, outcome(status) >>]

writeRateLimited(q) == RequestLogger([written(q, 429) EXCEPT !.body = {"limit"}])

(* The entry of key k after one more request: of a new window, or counted  *)
(* in the one that runs.                                                   *)
counted(kept, k) ==
  IF k \notin DOMAIN kept \/ kept[k].age >= RateWindow
  THEN [age |-> 0, count |-> 1]
  ELSE [kept[k] EXCEPT !.count = @ + 1]

(* A count beyond the limit is all the same. *)
capped(entry) == [entry EXCEPT !.count = IF @ > RateLimit THEN RateLimit + 1 ELSE @]

(* FixedWindowRateLimit and PrincipalRateLimiter.Allow. *)
Allow(r, k) ==
  /\ req[r].step = "idle"
  /\ LET kept  == room(k)
         full  == k \notin DOMAIN kept /\ Cardinality(DOMAIN kept) >= RateMaxKeys
         entry == counted(kept, k)
         admit == ~full /\ entry.count =< RateLimit
     IN /\ entries' = IF full THEN kept
                      ELSE [j \in DOMAIN kept \cup {k} |-> IF j = k THEN capped(entry) ELSE kept[j]]
        /\ recent' = IF admit THEN [recent EXCEPT ![k] = Append(@, 0)] ELSE recent
        /\ req' = [req EXCEPT ![r] = IF admit THEN [@ EXCEPT !.step = "admitted"] ELSE writeRateLimited(@)]
  /\ UNCHANGED tokens

BoundedConcurrency(r) ==
  /\ req[r].step = "admitted"
  /\ IF tokens < Concurrency
     THEN tokens' = tokens + 1 /\ req' = [req EXCEPT ![r].step = "handling"]
     ELSE req' = [req EXCEPT ![r] = writeRateLimited(@)] /\ UNCHANGED tokens
  /\ UNCHANGED << entries, recent >>

(* What a handler does with its writer. *)
Writes(r, q) ==
  /\ req[r].step = "handling"
  /\ req' = [req EXCEPT ![r] = q]
  /\ UNCHANGED << entries, recent, tokens >>

(* A final status commits the response; an informational one does not. *)
WriteHeader(r) == Writes(r, [written(req[r], 200) EXCEPT !.committed = TRUE])

Write(r) == Writes(r, [written(req[r], 200) EXCEPT !.committed = TRUE, !.body = @ \cup {"handler"}])

(* Flush sends the header without recording its code. *)
Flush(r) == Writes(r, [req[r] EXCEPT !.committed = TRUE, !.wire = IF @ = 0 THEN 200 ELSE @])

HandlerReturns(r) ==
  /\ req[r].step = "handling"
  /\ tokens' = tokens - 1
  /\ req' = [req EXCEPT ![r] = RequestLogger(@)]
  /\ UNCHANGED << entries, recent >>

(* The response stops where it is; the completion record gets the status   *)
(* that a flush sent.                                                      *)
abortRecoveredResponse(q) ==
  [q EXCEPT !.step = "done", !.logged = << IF q.code = 0 THEN q.wire ELSE q.code, "aborted" >>]

(* A panic releases the token and unwinds to Recovery, which answers 500   *)
(* unless the response is committed or the handler meant to abort it.      *)
Recovery(r, abort) ==
  /\ req[r].step = "handling"
  /\ tokens' = tokens - 1
  /\ req' = [req EXCEPT ![r] =
       IF abort \/ @.committed
       THEN abortRecoveredResponse(@)
       ELSE LET q == written(@, 500)
            IN [q EXCEPT !.step = "done", !.body = @ \cup {"error"}, !.logged = << q.code, "server_error" >>]]
  /\ UNCHANGED << entries, recent >>

(* The next request of a browser. *)
NextRequest(r) ==
  /\ req[r].step = "done"
  /\ req' = [req EXCEPT ![r] = NoRequest]
  /\ UNCHANGED << entries, recent, tokens >>

AdmissionNext ==
  \/ Tick
  \/ \E r \in Requests :
       \/ \E k \in Keys : Allow(r, k)
       \/ BoundedConcurrency(r) \/ WriteHeader(r) \/ Write(r) \/ Flush(r) \/ HandlerReturns(r)
       \/ \E abort \in BOOLEAN : Recovery(r, abort)
       \/ NextRequest(r)

AdmissionSpec == AdmissionInit /\ [][AdmissionNext]_avars

-----------------------------------------------------------------------------
(* The limits hold whatever the arrivals, refusals and panics: within the  *)
(* length of a window a key is admitted at most twice its limit (the end   *)
(* of one window and the start of the next), also when its entry had to    *)
(* make room, and the semaphore counts the handlers that run.  A response  *)
(* is whole: an error body never follows what a handler sent, and the      *)
(* completion record has the status the browser got.                       *)
AdmissionExact ==
  /\ \A k \in Keys : Len(recent[k]) =< 2 * RateLimit
  /\ \A k \in DOMAIN entries : entries[k].age < RateWindow =>
       Cardinality({i \in DOMAIN recent[k] : recent[k][i] =< entries[k].age}) =< RateLimit
  /\ Cardinality(DOMAIN entries) =< RateMaxKeys
  /\ tokens = Cardinality({r \in Requests : req[r].step = "handling"}) /\ tokens =< Concurrency
  /\ \A r \in Requests : req[r].step = "done" =>
       /\ Cardinality(req[r].body) =< 1
       /\ req[r].logged[1] = req[r].wire
       /\ req[r].wire = 500 => req[r].body = {"error"}
=============================================================================
