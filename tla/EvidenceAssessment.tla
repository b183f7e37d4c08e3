-------------------------- MODULE EvidenceAssessment --------------------------
(***************************************************************************)
(* The assessment of a search's candidates: every passage is judged once,  *)
(* by the summary_assessment_cache that all searches share, by the         *)
(* provider while the search's budget of attempts lasts, or locally.       *)
(* Queries run beside each other and meet in the cache only.              *)
(***************************************************************************)
EXTENDS EvidenceAssessor, FiniteSetsExt

CONSTANTS Queries,                \* calls of Search, one each
          Questions,               \* [topics, guards, embedding, cacheable]
          CandidateLists,          \* passages of the candidates, best first
          EmptyPassage,            \* a passage of blanks
          Limit,                   \* SearchQuery.Limit
          AssessmentCallLimit,     \* attempts one search may spend
          RetryAttempts,           \* RetryPolicy.Attempts
          NegativeReach,           \* NegativeMinimumCosine, as a distance
          NegativeCandidateLimit,
          MaximumEntries,
          CleanupBatch,
          HitBound                 \* hit_count is told up to here

ASSUME AssessmentAssumption ==
  /\ Limit \in Nat \ {0} /\ AssessmentCallLimit \in Nat /\ RetryAttempts \in Nat
  /\ NegativeReach \in Nat /\ NegativeCandidateLimit \in Nat \ {0}
  /\ MaximumEntries \in Nat \ {0} /\ CleanupBatch \in Nat \ {0} /\ HitBound \in Nat
  /\ Questions # {} /\ \A q \in Questions : q.embedding \in Nat
  /\ \A list \in CandidateLists : list \in Seq(Range(list))

VARIABLES rows,      \* the cache, last accessed last
          search,    \* the state of each search
          said       \* history: the provider's judgements

assessmentVars == << rows, search, said >>

AssessedPassages == (UNION {Range(list) : list \in CandidateLists}) \ {EmptyPassage}

Fresh(question, list) ==
  [at |-> "next", question |-> question, todo |-> list, given |-> list, kept |-> << >>,
   remaining |-> AssessmentCallLimit, reserved |-> 0, made |-> 0, calls |-> 0,
   providerFailed |-> FALSE, judgement |-> "none", memo |-> [p \in AssessedPassages |-> "none"]]

NoQuestion == CHOOSE q \in Questions : TRUE

AssessmentInit ==
  /\ rows = << >> /\ said = {}
  /\ search = [s \in Queries |-> [Fresh(NoQuestion, << >>) EXCEPT !.at = "idle"]]

Becomes(s, state) == search' = [search EXCEPT ![s] = state]

StartAssessment(s) ==
  /\ search[s].at = "idle"
  /\ \E q \in Questions, list \in CandidateLists : Becomes(s, Fresh(q, list))
  /\ UNCHANGED << rows, said >>

-----------------------------------------------------------------------------
(* searchAcceptedEvidence: one candidate after the other.                  *)

Passage(s) == Head(search[s].todo)

(* The candidate is done with: kept, or left out. *)
Settled(state, judgement) ==
  [state EXCEPT !.at = "next", !.todo = Tail(@), !.judgement = "none", !.made = 0,
                !.memo[Head(state.todo)] = judgement,
                !.kept = IF judgement = "relevant" THEN Append(@, Head(state.todo)) ELSE @]

Skipped(state) == [state EXCEPT !.todo = Tail(@)]

Finished(s) == search[s].todo = << >> \/ Len(search[s].kept) >= Limit

NextCandidate(s) ==
  /\ search[s].at = "next"
  /\ Becomes(s, IF Finished(s) THEN [search[s] EXCEPT !.at = "done"]
                ELSE IF Passage(s) = EmptyPassage THEN Skipped(search[s])
                ELSE IF search[s].memo[Passage(s)] # "none"
                     THEN Settled(search[s], search[s].memo[Passage(s)])
                ELSE [search[s] EXCEPT !.at = IF search[s].question.cacheable THEN "lookup"
                                                                              ELSE "reserve"])
  /\ UNCHANGED << rows, said >>

-----------------------------------------------------------------------------
(* The cache.                                                              *)

Row(question, passage, relevant, hits) ==
  [question |-> question, passage |-> passage, relevant |-> relevant, fresh |-> TRUE, hits |-> hits]

Distance(q, r) == IF q.embedding > r.embedding THEN q.embedding - r.embedding
                                               ELSE r.embedding - q.embedding

(* The tokens that are compared are the question's own, so this is the     *)
(* distance; topics and guards are compared by the query below.            *)
NegativeCompatible(q, r) == Distance(q, r) <= NegativeReach

Exact(s) == {i \in DOMAIN rows : /\ rows[i].question = search[s].question
                                 /\ rows[i].passage = Passage(s) /\ rows[i].fresh}

LastAccessed(places) ==
  {i \in places : Cardinality({j \in places : j > i}) < NegativeCandidateLimit}

(* Fault: questions about different numbers, years or versions are alike. *)
NegativeCandidatesOfTopic(s) ==
  LastAccessed({i \in DOMAIN rows :
                  /\ rows[i].passage = Passage(s) /\ rows[i].fresh /\ ~ rows[i].relevant
                  /\ rows[i].question.topics = search[s].question.topics})

NegativeCandidates(s) ==
  LastAccessed({i \in DOMAIN rows :
                  /\ rows[i].passage = Passage(s) /\ rows[i].fresh /\ ~ rows[i].relevant
                  /\ rows[i].question.topics = search[s].question.topics
                  /\ rows[i].question.guards = search[s].question.guards})

NegativeHits(s) ==
  {i \in NegativeCandidates(s) : NegativeCompatible(search[s].question, rows[i].question)}

Hit(s) == IF Exact(s) # {} THEN Max(Exact(s))
          ELSE IF NegativeHits(s) # {} THEN Max(NegativeHits(s)) ELSE 0

(* What a list holds at some places, in their order. *)
Kept(list, places) ==
  [n \in 1..Cardinality(places) |->
     list[CHOOSE i \in places : Cardinality({j \in places : j < i}) = n - 1]]

Touched(i) ==
  Append(Kept(rows, DOMAIN rows \ {i}), [rows[i] EXCEPT !.hits = Min({@ + 1, HitBound})])

Lookup(s) ==
  /\ search[s].at = "lookup"
  /\ IF Hit(s) = 0
     THEN Becomes(s, [search[s] EXCEPT !.at = "reserve"]) /\ UNCHANGED rows
     ELSE /\ Becomes(s, Settled(search[s], IF rows[Hit(s)].relevant THEN "relevant"
                                                                    ELSE "irrelevant"))
          /\ rows' = Touched(Hit(s))
  /\ UNCHANGED said

LookupFails(s) ==
  /\ search[s].at = "lookup"
  /\ Becomes(s, [search[s] EXCEPT !.at = "reserve"])
  /\ UNCHANGED << rows, said >>

(* An upsert keeps the hits of the row; the rows hit least make room. *)
Upserted(s) ==
  LET old == {i \in DOMAIN rows : rows[i].question = search[s].question /\ rows[i].passage = Passage(s)}
      row == Row(search[s].question, Passage(s), search[s].judgement = "relevant",
                 IF old = {} THEN 0 ELSE rows[Max(old)].hits)
      next == Append(Kept(rows, DOMAIN rows \ old), row)
      better(i) == {j \in DOMAIN next : \/ next[j].hits > next[i].hits
                                        \/ next[j].hits = next[i].hits /\ j > i}
      keep == {i \in DOMAIN next : Cardinality(better(i)) < MaximumEntries}
  IN Kept(next, keep)

Store(s) ==
  /\ search[s].at = "store"
  /\ rows' \in {Upserted(s), rows}
  /\ Becomes(s, Settled(search[s], search[s].judgement))
  /\ UNCHANGED said

Expire ==
  /\ \E i \in DOMAIN rows : rows[i].fresh /\ rows' = [rows EXCEPT ![i].fresh = FALSE]
  /\ UNCHANGED << search, said >>

DeleteExpiredAssessmentCache ==
  /\ LET stale == {i \in DOMAIN rows : ~ rows[i].fresh}
     IN \E expired \in kSubset(Min({CleanupBatch, Cardinality(stale)}), stale) :
          /\ expired # {}
          /\ rows' = Kept(rows, DOMAIN rows \ expired)
  /\ UNCHANGED << search, said >>

-----------------------------------------------------------------------------
(* The provider.                                                           *)

MaximumAttemptsPerAssessment == 1 + RetryAttempts

(* Fault: what was not spent is not given back. *)
NothingReturned(state, made) == [state EXCEPT !.reserved = 0, !.calls = @ + made, !.made = made]

Returned(state, made) ==
  [state EXCEPT !.reserved = 0, !.calls = @ + made, !.made = made,
                !.remaining = @ + state.reserved - made]

Reserve(s) ==
  /\ search[s].at = "reserve"
  /\ LET useProvider == ~ search[s].providerFailed /\ search[s].remaining > 0
         attempts == Min({search[s].remaining, MaximumAttemptsPerAssessment})
     IN Becomes(s, IF useProvider
                   THEN [search[s] EXCEPT !.at = "attempt", !.remaining = @ - attempts,
                                          !.reserved = attempts, !.made = 0]
                   ELSE Settled(search[s], "relevant"))
  /\ UNCHANGED << rows, said >>

(* The provider failed: the passage, and every later one that the cache    *)
(* does not know, counts as relevant.                                      *)
LocalAssessment(s, made) ==
  Settled([Returned(search[s], made) EXCEPT !.providerFailed = TRUE], "relevant")

(* The search's context has ended, wherever the code looks at it. *)
Abandoned == [Fresh(NoQuestion, << >>) EXCEPT !.at = "failed"]

ProviderFailed(s, made) == Becomes(s, LocalAssessment(s, made)) \/ Becomes(s, Abandoned)

Judged(s, made, judgement) ==
  IF search[s].question.cacheable
  THEN [Returned(search[s], made) EXCEPT !.at = "store", !.judgement = judgement]
  ELSE Settled(Returned(search[s], made), judgement)

MayRetry(s, attempt) ==
  /\ attempt.retryable /\ retryDelay(attempt)
  /\ search[s].made + 1 < search[s].reserved /\ search[s].made < RetryAttempts

Assess(s) ==
  /\ search[s].at = "attempt"
  /\ \E attempt \in Attempts :
       LET made == search[s].made + (IF attempt.recorded THEN 1 ELSE 0)
       IN /\ IF attempt.result # "failed" THEN Becomes(s, Judged(s, made, attempt.result))
             ELSE IF MayRetry(s, attempt)
                  THEN Becomes(s, [search[s] EXCEPT !.at = "wait", !.made = made])
             ELSE ProviderFailed(s, made)
          /\ said' = IF attempt.result = "failed" THEN said
                     ELSE said \cup {<< search[s].question, Passage(s), attempt.result >>}
  /\ UNCHANGED rows

(* The delay passes, or the assessment's deadline comes first. *)
WaitForRetry(s) ==
  /\ search[s].at = "wait"
  /\ \/ Becomes(s, [search[s] EXCEPT !.at = "attempt"])
     \/ ProviderFailed(s, search[s].made)
  /\ UNCHANGED << rows, said >>

(* The context is looked at before and after every assessment. *)
SearchCancelled(s) ==
  /\ search[s].at = "next"
  /\ Becomes(s, Abandoned)
  /\ UNCHANGED << rows, said >>

-----------------------------------------------------------------------------
AssessmentStep(s) ==
  NextCandidate(s) \/ Lookup(s) \/ LookupFails(s) \/ Reserve(s) \/ Assess(s) \/ WaitForRetry(s)
  \/ Store(s)

AssessmentNext ==
  \/ \E s \in Queries : StartAssessment(s) \/ AssessmentStep(s) \/ SearchCancelled(s)
  \/ Expire \/ DeleteExpiredAssessmentCache

AssessmentFairness == \A s \in Queries : WF_assessmentVars(AssessmentStep(s))

AssessmentSpec == AssessmentInit /\ [][AssessmentNext]_assessmentVars /\ AssessmentFairness

-----------------------------------------------------------------------------
(* A judgement the search may use: the provider said so about this         *)
(* passage, asked this question or one that differs in wording only.       *)
Grounded(question, passage) ==
  \E fact \in said : /\ fact[2] = passage /\ fact[3] = "irrelevant"
                     /\ \/ fact[1] = question
                        \/ /\ fact[1].topics = question.topics /\ fact[1].guards = question.guards
                           /\ Distance(fact[1], question) <= NegativeReach

(* The places of the list that the search has gone through, and the ones   *)
(* among them it has to show.                                              *)
Considered(state) == 1..(Len(state.given) - Len(state.todo))

Shown(state) ==
  {i \in Considered(state) : /\ state.given[i] # EmptyPassage
                             /\ state.memo[state.given[i]] # "irrelevant"}

(***************************************************************************)
(* Only the provider's word hides a passage, however the provider fails,   *)
(* runs out of attempts or is asked by two searches at once: what a search *)
(* leaves out was judged irrelevant for that passage and that question or  *)
(* one like it, everything else it considered is returned in order, up to  *)
(* the limit, and a local guess is never cached as a judgement.            *)
(***************************************************************************)
OnlyProviderHides ==
  /\ \A i \in DOMAIN rows :
       << rows[i].question, rows[i].passage,
          IF rows[i].relevant THEN "relevant" ELSE "irrelevant" >> \in said
  /\ \A s \in Queries :
       /\ \A p \in AssessedPassages :
            search[s].memo[p] = "irrelevant" => Grounded(search[s].question, p)
       /\ search[s].at = "done" =>
            /\ search[s].todo = << >> \/ Len(search[s].kept) = Limit
            /\ search[s].kept = Kept(search[s].given, Shown(search[s]))

(* A search spends at most its budget of physical attempts on the provider *)
(* and gets back every attempt it reserved and did not make.               *)
WithinBudget(state) ==
  /\ state.remaining + state.reserved + state.calls = AssessmentCallLimit
  /\ state.calls =< AssessmentCallLimit

(***************************************************************************)
(* The budget of attempts is kept, and every search returns.               *)
(***************************************************************************)
AssessmentBounded ==
  /\ [](\A s \in Queries : WithinBudget(search[s]))
  /\ <>[](\A s \in Queries : search[s].at \in {"idle", "done", "failed"})
=============================================================================
