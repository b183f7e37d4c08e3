----------------------------- MODULE Deployment -----------------------------
(***************************************************************************)
(* A deployment: the environment of one group of processes is edited, its  *)
(* processes start, each through a loader of its own, and are stopped      *)
(* again.  What the processes of one group agree on, and how the deadlines *)
(* of callers and callees nest, is a question about all the loaders.       *)
(***************************************************************************)
EXTENDS Settings, FiniteSets

Ingestion == INSTANCE IngestionConfig
Retrieval == INSTANCE RetrievalConfig
Online    == INSTANCE OnlineConfig

CONSTANT MaximumEdits    \* how many settings an environment sets

VARIABLES group, env
dvars == << group, env >>

(* The groups of processes that share an environment, and the settings     *)
(* that an environment of the group may set.                               *)
tables ==
  [local    |-> Ingestion!localWorkerTable,  aws      |-> Ingestion!awsWorkerTable,
   layout   |-> Ingestion!layoutTable,       search   |-> Retrieval!serverTable @@ [summaryTimeout |-> Retrieval!optionalDuration(1)],
   indexing |-> Retrieval!workerTable @@ Retrieval!lambdaTable,
   edge     |-> Online!edgeTable,            answer   |-> Online!answerTable,
   catalog  |-> Online!catalogTable,         identity |-> Online!identityTable]

NoGroup == "none"

DeploymentInit == group = NoGroup /\ env = << >>

StartGroup(g) ==
  /\ group = NoGroup
  /\ group' = g
  /\ UNCHANGED env

(* A setting of the group is set to a value at or next to a bound, and the *)
(* processes of the group restart.                                         *)
EditSetting(s) ==
  /\ Cardinality(DOMAIN env) < MaximumEdits
  /\ s \notin DOMAIN env
  /\ \E v \in Edges(tables[group], s) : env' = (s :> v) @@ env
  /\ UNCHANGED group

StopGroup ==
  /\ group # NoGroup
  /\ group' = NoGroup
  /\ env' = << >>

DeploymentNext ==
  \/ \E g \in DOMAIN tables : StartGroup(g)
  \/ group # NoGroup /\ \E s \in DOMAIN tables[group] : EditSetting(s)
  \/ StopGroup

DeploymentSpec == DeploymentInit /\ [][DeploymentNext]_dvars

-----------------------------------------------------------------------------
(* One configuration has the values of another on the settings they share. *)
SameShared(c, d) == \A s \in DOMAIN c \cap DOMAIN d : c[s] = d[s]

Follows(c, d) == c # Refused => d # Refused /\ SameShared(c, d)

(* An environment the ingestion worker starts with is one its dispatcher   *)
(* and its cleaner start with too, with the same retry delays (which are   *)
(* arguments of the retry queues both declare), leases, bucket and         *)
(* selection deadline; the serverless adapters accept what the indexing    *)
(* worker accepts.                                                         *)
ProcessesAgree ==
  /\ \A b \in Ingestion!Backends : group = b =>
       /\ Follows(Ingestion!LoadWorker(b, env), Ingestion!LoadDispatcher(b, env))
       /\ Follows(Ingestion!LoadWorker(b, env), Ingestion!LoadCleanup(b, env))
  /\ group = "indexing" =>
       LET indexing   == Retrieval!LoadWorker(env)
           serverless == Retrieval!LoadLambdaRuntimePolicy(env)
       IN indexing # Refused /\ serverless # Refused => SameShared(indexing, serverless)

-----------------------------------------------------------------------------
(* The deployment with no setting edited. *)
edge     == Online!LoadEdge(<< >>)
answer   == Online!LoadAnswer(<< >>)
catalog  == Online!LoadCatalog(<< >>)
identity == Online!LoadIdentity(<< >>)
search   == Retrieval!LoadServer(<< >>)
indexer  == Retrieval!LoadWorker(<< >>)
lambda   == Retrieval!LoadLambdaRuntimePolicy(<< >>)
worker   == Ingestion!LoadWorker("local", << >>)

EveryProcessStarts ==
  /\ Refused \notin {edge, answer, catalog, identity, search, indexer, lambda}
  /\ \A b \in Ingestion!Backends : Refused \notin {Ingestion!LoadWorker(b, << >>), Ingestion!LoadDispatcher(b, << >>),
                                                  Ingestion!LoadCleanup(b, << >>)}
  /\ Refused \notin {Ingestion!LoadLayout(<< >>), Retrieval!LoadCleanupJobPolicy(<< >>)}

(* Every call between two processes: how long the callee gives itself, and *)
(* how long its caller waits.  One answer retrieves and then generates.    *)
calls ==
  [upload       |-> << catalog.grpcUploadTimeout, edge.catalogUploadTimeout >>,
   uploadRoute  |-> << edge.catalogUploadTimeout, edge.bookUploadDeadline >>,
   list         |-> << catalog.grpcListTimeout, edge.catalogListTimeout >>,
   listRoute    |-> << edge.catalogListTimeout, edge.booksListTimeout >>,
   lifecycle    |-> << catalog.grpcLifecycleTimeout, edge.booksLifecycleTimeout >>,
   preview      |-> << catalog.previewTimeout, edge.catalogPreviewDeadline >>,
   identityCall |-> << identity.operationTimeout, edge.identityRPCDeadline >>,
   answerCall   |-> << answer.requestTimeout, edge.answerDeadline >>,
   searchCall   |-> << search.searchTimeout, edge.retrievalSearchDeadline >>,
   retrieve     |-> << search.searchTimeout, answer.retrievalTimeout >>,
   generate     |-> << answer.retrievalTimeout + answer.generatorTimeout, answer.requestTimeout >>]

(* Batch of both outboxes: LIMIT 32 of the claim. *)
outboxBatch == 32

(* Every lease, or age after which work counts as given up, and how long   *)
(* the work it covers may take.                                            *)
leases ==
  [job             |-> << worker.processingTimeout + worker.persistenceTimeout, worker.jobLease >>,
   invocation      |-> << indexer.invocationTimeout, indexer.finalizationLease >>,
   staleBatch      |-> << indexer.invocationTimeout, indexer.staleBatchAge >>,
   lambdaRun       |-> << Retrieval!LoadLambdaProcessingTimeout(<< >>).processingTimeout, lambda.finalizationLease >>,
   lambdaBatch     |-> << Retrieval!LoadLambdaProcessingTimeout(<< >>).processingTimeout, lambda.lambdaStaleBatchAge >>,
   original        |-> << catalog.grpcUploadTimeout, catalog.orphanGracePeriod >>,
   publication     |-> << catalog.outboxPublishTimeout, catalog.outboxLease >>,
   catalogBatch    |-> << outboxBatch * catalog.outboxPublishTimeout, catalog.outboxLease >>,
   ingestionEvent  |-> << worker.rabbitPublishTimeout, worker.outboxLease >>,
   ingestionBatch  |-> << outboxBatch * worker.rabbitPublishTimeout, worker.outboxLease >>,
   mail            |-> << identity.smtpOperationTimeout, identity.emailClaimTTL >>,
   mailBatch       |-> << identity.emailClaimBatchSize * identity.smtpOperationTimeout, identity.emailClaimTTL >>]

(* Every value one process lets through, and the bound of the next.        *)
limits ==
  {<< edge.queryMaxQuestionLength, answer.maximumQuestionCharacters >>, << edge.queryMaxQuestionLength, search.maximumQuestionCharacters >>,
   << edge.queryMaxTags, answer.maximumFilterTags >>, << edge.queryMaxTags, search.maximumFilterTags >>,
   << edge.queryMaxTagLength, answer.maximumTagCharacters >>, << edge.queryMaxTagLength, search.maximumTagCharacters >>,
   << edge.queryMaxAuthorLength, answer.maximumAuthorCharacters >>, << edge.queryMaxAuthorLength, search.maximumAuthorCharacters >>,
   << edge.queryMaxLimit, answer.maximumResultLimit >>, << answer.maximumResultLimit, search.maximumResultLimit >>,
   << edge.booksPageMaxSize, catalog.listPageMaxSize >>, << catalog.listPageTokenMaxSize, edge.booksPageTokenMaxSize >>,
   << worker.artifactChunksPerShard, indexer.manifestMaxShardChunks >>, << worker.maximumChunks, indexer.manifestMaxTotalChunks >>,
   << worker.maximumPages, indexer.manifestMaxPages >>, << worker.artifactMaximumShardBytes, indexer.manifestMaxShardCompressed >>,
   << edge.refreshCookieMaxAge, identity.sessionTTL >>}

Exceeds(pair) == pair[1] > pair[2]

(* The calls whose caller gives up first.  A deadline travels with a call, *)
(* so the callee is cut short by its caller, and its own is out of effect. *)
CutShort == {"list", "lifecycle", "identityCall", "generate"}

(* The leases that may end inside the work: the last row of a full batch   *)
(* of slow publications is published after its lease, and may be published *)
(* by another dispatcher too (CatalogOutbox, IngestionJob, IdentityAccount *)
(* have such leases).                                                      *)
Outlived == {"catalogBatch", "ingestionBatch", "mailBatch"}

(* As deployed: callers outwait their callees, leases outlast their work   *)
(* and each process takes what the one before it lets through, except      *)
(* where the defaults are known to be the other way round.                 *)
DefaultsFit ==
  /\ EveryProcessStarts
  /\ {c \in DOMAIN calls : Exceeds(calls[c])} = CutShort
  /\ {l \in DOMAIN leases : Exceeds(leases[l])} = Outlived
  /\ ~ \E l \in limits : Exceeds(l)

(* The longest a worker of the code may still write artifacts. *)
longestRun == Ingestion!workerTimings.processingTimeout.hi + Ingestion!workerTimings.persistenceTimeout.hi

(* In every environment a process accepts: the cleaner waits longer for an *)
(* orphan than a run of any worker lasts, and Edge keeps the connection    *)
(* writable while an answer runs out of time and the search it falls back  *)
(* to does too, after the authenticator's call where the headroom covers   *)
(* its deadline (the loader does not compare these two).                   *)
WaitsCovered ==
  /\ \A b \in Ingestion!Backends : group = b =>
       LET cleaner == Ingestion!LoadCleanup(b, env)
       IN cleaner # Refused => cleaner.orphanGracePeriod > longestRun
  /\ group = "edge" =>
       LET c       == Online!LoadEdge(env)
           queries == c.answerDeadline + c.retrievalSearchDeadline
       IN c # Refused => /\ Online!httpWriteTimeout(c) > queries
                         /\ c.identityRPCDeadline =< c.httpWriteTimeoutHeadroom
                            => Online!httpWriteTimeout(c) >= c.identityRPCDeadline + queries

(* The processes of one environment fit together: those that share tables, *)
(* queues and buckets read the same values; what waits for another lasts   *)
(* longer in every accepted environment where the loaders see to it, and   *)
(* with the defaults everywhere but in CutShort and Outlived.              *)
SettingsAgree ==
  /\ ProcessesAgree
  /\ WaitsCovered
  /\ group # NoGroup /\ env = << >> => DefaultsFit
=============================================================================
