---------------------------- MODULE RetrievalSearch ----------------------------
(***************************************************************************)
(* A search of Retrieval, while books are reindexed, withdrawn and cleaned *)
(* up beneath it: three retrievers read vector points and evidence rows in *)
(* pages and ask PostgreSQL which of their jobs are active, their          *)
(* candidates are fused, and the accepted ones are grouped by document.    *)
(* How candidates are accepted is the module EvidenceAssessment's.         *)
(***************************************************************************)
EXTENDS Naturals, Sequences, SequencesExt, FiniteSetsExt

CONSTANTS Jobs, BookOf,               \* index jobs, and their books
          NoJob,
          Evidence, JobOf,            \* chunks, and the job that wrote them
          Score, LexicalScore,        \* how a chunk answers the question; 0: no match
          DocumentScore,              \* how the summary vector of a job does
          MinimumSearchScore,         \* the store's threshold
          MinimumVisibleScore,
          QueryLimit, CandidatePageMultiplier, DocumentEvidenceLimit,
          RankFusionK,
          Scale,                      \* fused scores are told in units of 1/Scale
          MaximumChanges              \* bound on changes of the corpus

Books == {BookOf[j] : j \in Jobs}

ASSUME RetrievalSearchAssumption ==
  /\ NoJob \notin Jobs /\ QueryLimit \in Nat \ {0} /\ CandidatePageMultiplier \in Nat \ {0}
  /\ \A e \in Evidence : JobOf[e] \in Jobs
  /\ RankFusionK \in Nat \ {0} /\ Scale \in Nat \ {0}

VARIABLES active,       \* the active indexed job of each book, or NoJob
          inStore,       \* the jobs with points in the vector store
          changes,
          phase,
          chunk, document, lexical,   \* the retrievers
          candidates,   \* what fusion made of them
          results, documents,
          shown,        \* history: the jobs active at some moment of the search
          started       \* history: changes when the search began

corpusVars == << active, inStore, changes >>
retrieverVars == << chunk, document, lexical >>
searchVars == << corpusVars, phase, retrieverVars, candidates, results, documents, shown, started >>

Retriever == [at |-> "read", offset |-> 0, page |-> << >>, more |-> FALSE, found |-> {}]
DocumentRetriever == [at |-> "read", page |-> << >>, found |-> << >>]

Active == {active[b] : b \in Books} \ {NoJob}

(* Every book has an active job, and every job its points: one reindexing  *)
(* is under way.                                                           *)
SearchInit ==
  /\ active \in [Books -> Jobs] /\ \A b \in Books : BookOf[active[b]] = b
  /\ inStore = Jobs /\ changes = 0
  /\ phase = "idle"
  /\ chunk = Retriever /\ lexical = Retriever /\ document = DocumentRetriever
  /\ candidates = << >> /\ results = << >> /\ documents = << >>
  /\ shown = {} /\ started = 0

-----------------------------------------------------------------------------
(* The corpus: what indexing, reindexing, deletion and cleanup do to it.   *)

Changed ==
  /\ changes < MaximumChanges /\ changes' = changes + 1
  /\ shown' = shown \cup ({active'[b] : b \in Books} \ {NoJob})
  /\ UNCHANGED << phase, retrieverVars, candidates, results, documents, started >>

ActivateGeneration(j) ==
  /\ j \in inStore \ Active
  /\ active' = [active EXCEPT ![BookOf[j]] = j]
  /\ UNCHANGED inStore /\ Changed

WithdrawBook(b) ==
  /\ active[b] # NoJob
  /\ active' = [active EXCEPT ![b] = NoJob]
  /\ UNCHANGED inStore /\ Changed

CleanGeneration(j) ==
  /\ j \in inStore \ Active
  /\ inStore' = inStore \ {j}
  /\ UNCHANGED active /\ Changed

WritePoints(j) ==
  /\ j \notin inStore
  /\ inStore' = inStore \cup {j}
  /\ UNCHANGED active /\ Changed

-----------------------------------------------------------------------------
(* The stores.                                                             *)

Best(values, score) == SetToSortSeq(values, LAMBDA v, w : score[v] > score[w])

Page(list, limit, offset) == SubSeq(list, offset + 1, Min({offset + limit, Len(list)}))

Points == {e \in Evidence : JobOf[e] \in inStore /\ Score[e] >= MinimumSearchScore}

searchEvidence(limit, offset) == Page(Best(Points, Score), limit, offset)

searchEvidenceBatch(j) ==
  Page(Best({e \in Points : JobOf[e] = j}, Score), DocumentEvidenceLimit, 0)

DocumentPoints(limit) ==
  Page(Best({j \in inStore : DocumentScore[j] >= MinimumSearchScore}, DocumentScore), limit, 0)

SearchLexical(limit, offset) ==
  Page(Best({e \in Evidence : JobOf[e] \in Active /\ LexicalScore[e] > 0}, LexicalScore),
       limit, offset)

(* Fault: the jobs of the candidates are not looked up. *)
FilterNothing(values) == values

FilterIndexed(values) == {e \in values : JobOf[e] \in Active}

FilterIndexedDocuments(list) == SelectSeq(list, LAMBDA d : d.job \in Active)

filterEvidenceByMinimumScore(list) ==
  SelectSeq(list, LAMBDA e : Score[e] >= MinimumVisibleScore)

-----------------------------------------------------------------------------
(* The plan and the retrievers, which run beside each other.               *)

searchCandidateBudget == QueryLimit * CandidatePageMultiplier * CandidatePageMultiplier

searchPageLimit == Min({QueryLimit * CandidatePageMultiplier, searchCandidateBudget})

searchCandidateLimit(offset) == Min({searchPageLimit, searchCandidateBudget - offset})

StartSearch ==
  /\ phase = "idle" /\ phase' = "retrieve"
  /\ shown' = Active /\ started' = changes
  /\ UNCHANGED << corpusVars, retrieverVars, candidates, results, documents >>

Retrieving ==
  /\ phase = "retrieve"
  /\ UNCHANGED << corpusVars, phase, candidates, results, documents, shown, started >>

(* A page was read: the last one if it is short. *)
PageRead(retriever, page, visible) ==
  [retriever EXCEPT !.at = "filter", !.page = visible,
                    !.more = Len(page) = searchCandidateLimit(retriever.offset)]

PageFiltered(retriever) ==
  LET next == retriever.offset + searchPageLimit
      further == retriever.more /\ next < searchCandidateBudget
  IN [retriever EXCEPT !.at = IF further THEN "read" ELSE "done",
                       !.offset = IF further THEN next ELSE @,
                       !.page = << >>, !.more = FALSE,
                       !.found = @ \cup FilterIndexed(Range(retriever.page))]

ReadChunks ==
  /\ Retrieving /\ chunk.at = "read"
  /\ LET page == searchEvidence(searchCandidateLimit(chunk.offset), chunk.offset)
     IN chunk' = PageRead(chunk, page, filterEvidenceByMinimumScore(page))
  /\ UNCHANGED << document, lexical >>

FilterChunks ==
  /\ Retrieving /\ chunk.at = "filter"
  /\ chunk' = PageFiltered(chunk)
  /\ UNCHANGED << document, lexical >>

ReadLexical ==
  /\ Retrieving /\ lexical.at = "read"
  /\ LET page == SearchLexical(searchCandidateLimit(lexical.offset), lexical.offset)
     IN lexical' = PageRead(lexical, page, page)
  /\ UNCHANGED << chunk, document >>

FilterLexical ==
  /\ Retrieving /\ lexical.at = "filter"
  /\ lexical' = PageFiltered(lexical)
  /\ UNCHANGED << chunk, document >>

ReadDocuments ==
  /\ Retrieving /\ document.at = "read"
  /\ LET jobs == DocumentPoints(QueryLimit)
     IN document' = [document EXCEPT !.at = "hydrate",
                                     !.page = [i \in DOMAIN jobs |-> [job |-> jobs[i], evidence |-> {}]]]
  /\ UNCHANGED << chunk, lexical >>

(* A second request reads the chunks of the documents; one without any is  *)
(* left out.                                                               *)
HydrateDocuments ==
  /\ Retrieving /\ document.at = "hydrate"
  /\ LET hydrated == [i \in DOMAIN document.page |->
                        [document.page[i] EXCEPT !.evidence = Range(searchEvidenceBatch(document.page[i].job))]]
         page == SelectSeq(hydrated, LAMBDA d : d.evidence # {})
     IN document' = [document EXCEPT !.at = IF page = << >> THEN "done" ELSE "filter", !.page = page]
  /\ UNCHANGED << chunk, lexical >>

FilterDocuments ==
  /\ Retrieving /\ document.at = "filter"
  /\ document' = [document EXCEPT !.at = "evidence", !.page = FilterIndexedDocuments(document.page)]
  /\ UNCHANGED << chunk, lexical >>

(* One query for each document that has evidence above the minimum. *)
FilterDocumentEvidence ==
  /\ Retrieving /\ document.at = "evidence"
  /\ document' =
       IF document.page = << >> THEN [document EXCEPT !.at = "done"]
       ELSE LET visible == {e \in Head(document.page).evidence : Score[e] >= MinimumVisibleScore}
            IN [document EXCEPT !.page = Tail(@),
                                !.found = Append(@, [Head(document.page) EXCEPT
                                                       !.evidence = FilterIndexed(visible)])]
  /\ UNCHANGED << chunk, lexical >>

(* One retriever fails, or the search's context ends. *)
SearchFails ==
  /\ phase = "retrieve" \/ phase = "fused"
  /\ phase' = "failed"
  /\ UNCHANGED << corpusVars, retrieverVars, candidates, results, documents, shown, started >>

-----------------------------------------------------------------------------
(* reciprocalRankFusion                                                    *)

Share(rank) == Scale \div (RankFusionK + rank + 1)

(* The rank of e in a list ordered by score, from 0. *)
RankIn(e, list) == SelectInSeq(list, LAMBDA v : v = e) - 1

(* The evidence of a document ranks after the chunks, by document and by   *)
(* its place there.                                                        *)
DocumentShares(e) ==
  LET mine == {i \in DOMAIN document.found : e \in document.found[i].evidence}
  IN MapThenSumSet(LAMBDA i : Share(Cardinality(chunk.found) + (i - 1)
                                    + RankIn(e, Best(document.found[i].evidence, Score))), mine)

Fused(e) ==
  (IF e \in chunk.found THEN Share(RankIn(e, Best(chunk.found, Score))) ELSE 0)
  + DocumentShares(e)
  + (IF e \in lexical.found THEN Share(RankIn(e, Best(lexical.found, LexicalScore))) ELSE 0)

InDocuments == UNION {document.found[i].evidence : i \in DOMAIN document.found}

(* The best score among the copies of a candidate. *)
OwnScore(e) ==
  Max((IF e \in chunk.found \cup InDocuments THEN {Score[e]} ELSE {})
      \cup (IF e \in lexical.found THEN {LexicalScore[e]} ELSE {}))

Fuse ==
  LET merged == chunk.found \cup InDocuments \cup lexical.found
  IN SetToSortSeq(merged, LAMBDA v, w : \/ Fused(v) > Fused(w)
                                        \/ Fused(v) = Fused(w) /\ OwnScore(v) > OwnScore(w))

FuseCandidates ==
  /\ phase = "retrieve" /\ \A r \in {chunk.at, document.at, lexical.at} : r = "done"
  /\ phase' = "fused" /\ candidates' = Fuse
  /\ UNCHANGED << corpusVars, retrieverVars, results, documents, shown, started >>

-----------------------------------------------------------------------------
(* What is returned.                                                       *)

DocumentScoreOf(j, accepted) ==
  Max({OwnScore(e) : e \in {x \in Range(accepted) : JobOf[x] = j}}
      \cup (IF \E i \in DOMAIN document.found : document.found[i].job = j
            THEN {DocumentScore[j]} ELSE {}))

FirstOf(j, accepted) == SelectInSeq(accepted, LAMBDA e : JobOf[e] = j)

(* The documents of the accepted evidence, best first, and in the order    *)
(* their evidence came among equals.                                       *)
documentsFromEvidence(accepted) ==
  LET jobs == SetToSortSeq({JobOf[e] : e \in Range(accepted)}, LAMBDA i, j :
                 \/ DocumentScoreOf(i, accepted) > DocumentScoreOf(j, accepted)
                 \/ /\ DocumentScoreOf(i, accepted) = DocumentScoreOf(j, accepted)
                    /\ FirstOf(i, accepted) < FirstOf(j, accepted))
  IN [i \in DOMAIN jobs |->
        [job |-> jobs[i], evidence |-> SelectSeq(accepted, LAMBDA e : JobOf[e] = jobs[i])]]

trimDocuments(list) == Page(list, QueryLimit, 0)

Answer ==
  /\ phase = "fused" /\ phase' = "done"
  /\ \E rejected \in SUBSET Range(candidates) :
       LET accepted == Page(SelectSeq(candidates, LAMBDA e : e \notin rejected), QueryLimit, 0)
       IN results' = accepted /\ documents' = trimDocuments(documentsFromEvidence(accepted))
  /\ UNCHANGED << corpusVars, retrieverVars, candidates, shown, started >>

-----------------------------------------------------------------------------
RetrieverStep ==
  ReadChunks \/ FilterChunks \/ ReadLexical \/ FilterLexical \/ ReadDocuments
  \/ HydrateDocuments \/ FilterDocuments \/ FilterDocumentEvidence

SearchNext ==
  \/ StartSearch \/ RetrieverStep \/ FuseCandidates \/ Answer \/ SearchFails
  \/ \E j \in Jobs : ActivateGeneration(j) \/ CleanGeneration(j) \/ WritePoints(j)
  \/ \E b \in Books : WithdrawBook(b)

SearchSpec == SearchInit /\ [][SearchNext]_searchVars

-----------------------------------------------------------------------------
Undisturbed == changes = started

(***************************************************************************)
(* A search never returns a chunk of a generation that was not active at   *)
(* any moment of it, although points of other generations lie in the store *)
(* and books change between its pages; it returns no chunk twice and no    *)
(* more than asked for, and its documents hold exactly its evidence, each  *)
(* chunk under its own generation.  Where the corpus stays as it is and    *)
(* the store holds no more points than the budget, no active chunk that    *)
(* scores high enough is missed.                                           *)
(***************************************************************************)
SearchAnswersVisible ==
  /\ phase = "done" =>
       /\ \A i \in DOMAIN results : JobOf[results[i]] \in shown
       /\ IsInjective(results) /\ Len(results) <= QueryLimit
       /\ Range(results) = UNION {Range(documents[i].evidence) : i \in DOMAIN documents}
       /\ \A i \in DOMAIN documents : \A e \in Range(documents[i].evidence) :
            JobOf[e] = documents[i].job
  /\ phase = "fused" /\ Undisturbed /\ Cardinality(Points) <= searchCandidateBudget =>
       {e \in Points : JobOf[e] \in Active /\ Score[e] >= MinimumVisibleScore}
          \subseteq Range(candidates)
=============================================================================
