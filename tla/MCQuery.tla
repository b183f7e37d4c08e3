------------------------------ MODULE MCQuery ------------------------------
(***************************************************************************)
(* The path of a question: Answer's requests, the search and the           *)
(* assessment in Retrieval, and the limiter in front of the providers,     *)
(* checked side by side: a behaviour moves one of them.                    *)
(***************************************************************************)
EXTENDS MCAnswerService, RequestLimiter, EvidenceAssessment, RetrievalSearch

VARIABLE part   \* the one that moves

queryVars == << vars, limiterVars, assessmentVars, searchVars, part >>

Parts == {"answer", "limiter", "assessment", "search"}

QueryInit ==
  /\ part \in Parts
  /\ Init /\ LimiterInit /\ AssessmentInit /\ SearchInit
  /\ part # "limiter" => checksContext
  /\ part # "search" => active["b1"] = "g1"

(* Requests are alike, so they are named in an order of what they ask. *)
Rank == CHOOSE f \in [Searches -> 1..Cardinality(Searches)] : \A s, t \in Searches : f[s] = f[t] => s = t

NamedInOrder ==
  \A p \in {<< "r1", "r2" >>, << "r2", "r3" >>, << "r1", "r3" >>} :
    (\A i \in 1..2 : pc'[p[i]] # "new") => Rank[req'[p[1]]] =< Rank[req'[p[2]]]

QueryNext ==
  \/ /\ part = "answer" /\ Next /\ NamedInOrder
     /\ UNCHANGED << limiterVars, assessmentVars, searchVars, part >>
  \/ /\ part = "limiter" /\ LimiterNext
     /\ UNCHANGED << vars, assessmentVars, searchVars, part >>
  \/ /\ part = "assessment" /\ AssessmentNext
     /\ UNCHANGED << vars, limiterVars, searchVars, part >>
  \/ /\ part = "search" /\ SearchNext
     /\ UNCHANGED << vars, limiterVars, assessmentVars, part >>

(* Nothing that is fair can move in the parts that stand still. *)
QuerySpec ==
  /\ QueryInit /\ [][QueryNext]_queryVars
  /\ \A r \in Requests : WF_vars(Proceed(r))
  /\ LimiterFairness /\ AssessmentFairness

-----------------------------------------------------------------------------
(* A question, the same in other words, about another number, and one      *)
(* whose embedding cannot be compared.                                     *)
Posed(guards, embedding, cacheable) ==
  [topics |-> "t", guards |-> guards, embedding |-> embedding, cacheable |-> cacheable]

PosedQuestions ==
  {Posed("none", 0, TRUE), Posed("none", 1, TRUE), Posed("18", 0, TRUE), Posed("none", 0, FALSE)}

(* A blank passage, one that two chunks share, and another. *)
RankedPassages == {<< "blank", "p", "p", "q" >>}

(* A book with a new generation beside the old, and a second book, one of  *)
(* whose chunks scores too low to be shown.                                *)
JobBooks == [g1 |-> "b1", g2 |-> "b1", h1 |-> "b2"]
ChunkJobs == [e1 |-> "g1", e2 |-> "g1", e3 |-> "g2", e4 |-> "h1", e5 |-> "h1"]
ChunkScores == [e1 |-> 9, e2 |-> 4, e3 |-> 8, e4 |-> 7, e5 |-> 1]
LexicalScores == [e1 |-> 0, e2 |-> 3, e3 |-> 5, e4 |-> 2, e5 |-> 0]
SummaryScores == [g1 |-> 6, g2 |-> 5, h1 |-> 8]
=============================================================================
