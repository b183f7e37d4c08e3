--------------------------- MODULE EvidenceAssessor ---------------------------
(***************************************************************************)
(* What one attempt at the chat-completions provider of Retrieval comes to *)
(* for a reply: a judgement, or a failure that may be retried or not.      *)
(***************************************************************************)
EXTENDS Naturals, Sequences, SequencesExt

CONSTANTS MaximumBackoff,   \* the longest wait the provider may ask for
          StrictJSON        \* SummaryOutputModeStrictJSON

ASSUME AssessorAssumption == MaximumBackoff \in Nat /\ StrictJSON \in BOOLEAN

(* An attempt is recorded once its request exists, whatever comes of it. *)
Attempt(result, retryable, recorded, after) ==
  [result |-> result, retryable |-> retryable, recorded |-> recorded, after |-> after]

Judgement(result) == Attempt(result, FALSE, TRUE, 0)

invalidResponse == Attempt("failed", FALSE, TRUE, 0)

-----------------------------------------------------------------------------
(* The error object of a reply.  A code that is absent or unsafe is 0, one *)
(* that is not a number is 1.                                              *)

transientProviderStatus(code) == code = 408 \/ code = 429 \/ code >= 500

transientProviderError(type, code) ==
  \/ transientProviderStatus(code)
  \/ type \in {"rate_limit_exceeded", "rate_limited", "overloaded", "service_unavailable",
               "temporarily_unavailable", "timeout", "server_error", "internal_error"}

FirstCode(codes) == LET given == SelectSeq(codes, LAMBDA c : c # 0)
                    IN IF given = << >> THEN 0 ELSE Head(given)

classifyProviderError(error) ==
  LET type == IF error.metadata.type # "" THEN error.metadata.type ELSE error.type
      code == FirstCode(<< error.code, error.metadata.providerCode, error.metadata.code >>)
  IN transientProviderError(type, code) \/ transientProviderStatus(error.status)

-----------------------------------------------------------------------------
(* The candidate.  A summary is a sequence of sentences, each a "fact",    *)
(* "meta" talk about the passage or "unsafe" text.                         *)

looksLikeMetaSummary(summary) == \E i \in DOMAIN summary : summary[i] = "meta"

looksLikeUnsafePlainTextSummary(summary) == \E i \in DOMAIN summary : summary[i] = "unsafe"

(* The meta sentences in front are dropped; one behind a fact spoils it. *)
sanitizeCandidateSummary(summary) ==
  LET first == SelectInSeq(summary, LAMBDA sentence : sentence # "meta")
      rest == IF first = 0 THEN << >> ELSE SubSeq(summary, first, Len(summary))
  IN IF looksLikeMetaSummary(rest) THEN << >> ELSE rest

parsePlainTextCandidateAssessment(summary) ==
  IF \/ StrictJSON \/ summary = << >>
     \/ looksLikeMetaSummary(summary) \/ looksLikeUnsafePlainTextSummary(summary)
  THEN invalidResponse
  ELSE Judgement("relevant")

parseCandidateAssessment(candidate) ==
  IF ~ candidate.json THEN parsePlainTextCandidateAssessment(candidate.summary)
  ELSE IF ~ candidate.wellFormed THEN invalidResponse
  ELSE IF candidate.relevant
       THEN IF sanitizeCandidateSummary(candidate.summary) = << >> THEN invalidResponse
                                                                  ELSE Judgement("relevant")
       ELSE IF candidate.summary = << >> THEN Judgement("irrelevant") ELSE invalidResponse

-----------------------------------------------------------------------------
retryableStatus(code) == code = 429 \/ code >= 500

(***************************************************************************)
(* A reply goes as far as the first check it fails: the limiter, the       *)
(* request, the transport, the status, the body, the error object, the     *)
(* number of choices, the candidate's size and encoding, its content.      *)
(***************************************************************************)
assessAttempt(reply) ==
  CASE reply.kind \in {"throttled", "unsent"} -> Attempt("failed", FALSE, FALSE, 0)
    [] reply.kind = "transport" -> Attempt("failed", TRUE, TRUE, 0)
    [] reply.kind = "status" -> Attempt("failed", retryableStatus(reply.code), TRUE, reply.after)
    [] reply.kind = "unreadable" -> invalidResponse
    [] reply.kind = "error" ->
         Attempt("failed", classifyProviderError(reply.error), TRUE, reply.after)
    [] reply.kind = "choices" -> Attempt("failed", reply.count = 0, TRUE, 0)
    [] reply.kind = "unusable" -> invalidResponse
    [] reply.kind = "candidate" -> parseCandidateAssessment(reply.candidate)

(* A delay the provider asks for counts, if the service is willing to wait. *)
retryDelay(attempt) == attempt.after <= MaximumBackoff

-----------------------------------------------------------------------------
(* Replies of every kind, as the service may meet them.                    *)

NoMetadata == [type |-> "", code |-> 0, providerCode |-> 0]

Error(type, code, status, metadata) ==
  [type |-> type, code |-> code, status |-> status, metadata |-> metadata]

Candidate(json, wellFormed, relevant, summary) ==
  [json |-> json, wellFormed |-> wellFormed, relevant |-> relevant, summary |-> summary]

Errors ==
  {Error("overloaded", 0, 0, NoMetadata), Error("invalid_request", 400, 0, NoMetadata),
   Error("overloaded", 1, 0, [NoMetadata EXCEPT !.type = "invalid_request"]),
   Error("", 0, 408, NoMetadata), Error("", 0, 0, [NoMetadata EXCEPT !.providerCode = 503]),
   Error("", 1, 0, [NoMetadata EXCEPT !.providerCode = 503])}

Candidates ==
  {Candidate(json, wellFormed, relevant, summary) :
     json \in BOOLEAN, wellFormed \in BOOLEAN, relevant \in BOOLEAN,
     summary \in {<< >>, << "fact" >>, << "meta", "fact" >>, << "fact", "meta" >>, << "unsafe" >>}}

Replies ==
  [kind : {"throttled", "unsent", "transport", "unreadable", "unusable"}]
  \cup [kind : {"status"}, code : {400, 408, 429, 503}, after : {0, MaximumBackoff + 1}]
  \cup [kind : {"error"}, error : Errors, after : {0, MaximumBackoff + 1}]
  \cup [kind : {"choices"}, count : {0, 2}]
  \cup [kind : {"candidate"}, candidate : Candidates]

(* What an attempt may come to. *)
Attempts == {assessAttempt(reply) : reply \in Replies}
=============================================================================
