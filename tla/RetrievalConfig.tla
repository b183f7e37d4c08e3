-------------------------- MODULE RetrievalConfig --------------------------
(***************************************************************************)
(* Configuration of the retrieval processes: the search server, the        *)
(* indexing worker, the serverless adapters and the cleanup job.  Sizes of *)
(* the manifest limits are in MiB, the other sizes in KiB; scores and      *)
(* cosines are in thousandths.                                             *)
(***************************************************************************)
EXTENDS Settings

positiveInteger(fallback)                    == Range_(1, Unlimited, fallback)
nonNegativeInteger(fallback)                 == Range_(0, Unlimited, fallback)
boundedPositiveInteger(fallback, maximum)    == Range_(1, maximum, fallback)
boundedPositiveInt64(fallback, maximum)      == Range_(1, maximum, fallback)
boundedNonNegativeInteger(fallback, maximum) == Range_(0, maximum, fallback)
optionalDuration(fallback)                   == Range_(1, Unlimited, fallback)
boundedPositiveDuration(fallback, minimum, maximum) == Range_(minimum, maximum, fallback)
nonNegativeDuration(fallback, maximum)       == Range_(0, maximum, fallback)
boundedFloat(fallback)                       == Range_(1, 1000, fallback)
boundedDuration(minimum, maximum, fallback)  == Range_(minimum, maximum, fallback)
optionalBool                                 == Flag

(* Texts with a form of their own. *)
readSecretFile             == Valid
privateServiceURL          == Valid
evidenceAssessorOutputMode == Valid

LoadRunAs == [uid |-> positiveInteger(65532), gid |-> positiveInteger(65532)]

-----------------------------------------------------------------------------
(* Search server. *)

(* The policy of the evidence assessor; assessor = 1 when a provider URL   *)
(* is configured, assessorValid when its other values pass.                *)
assessorTable ==
  [assessor |-> Flag, assessorValid |-> Range_(0, 1, 1), outputMode |-> evidenceAssessorOutputMode,
   maxOutputTokens |-> boundedPositiveInteger(64, 256),
   maxCalls |-> boundedNonNegativeInteger(100, 1000),
   retryAttempts |-> boundedNonNegativeInteger(1, 3),
   retryInitialBackoff |-> boundedPositiveDuration(Second, 10, Minute),
   retryMaximumBackoff |-> boundedPositiveDuration(10 * Second, 10, Minute),
   requestsPerMinute |-> nonNegativeInteger(15),
   maxInputRunes |-> boundedPositiveInteger(4096, 32768),
   maxResponseKiB |-> boundedPositiveInteger(64, 1024),
   maxSummaryKiB |-> boundedPositiveInteger(16, 256),
   cacheTTL |-> nonNegativeDuration(0, Day),
   cacheMaxEntries |-> boundedNonNegativeInteger(0, 1000000), cacheKey |-> Flag,
   cacheNegativeReuse |-> optionalBool, cacheNegativeMinimumCosine |-> boundedFloat(985),
   cacheNegativeCandidateLimit |-> boundedPositiveInteger(32, 256),
   cacheCleanupInterval |-> boundedPositiveDuration(15 * Minute, Minute, Day),
   cacheCleanupTimeout |-> boundedPositiveDuration(30 * Second, Second, 5 * Minute),
   cacheCleanupBatchSize |-> boundedPositiveInteger(256, 4096)]

searchTable ==
  [addresses |-> Valid, secrets |-> readSecretFile, serviceURLs |-> privateServiceURL,
   finalizationLease |-> optionalDuration(15 * Minute),
   searchTimeout |-> optionalDuration(4 * Minute),
   maximumQuestionCharacters |-> boundedPositiveInteger(2000, 2^20),
   maximumFilterTags |-> boundedPositiveInteger(20, 256),
   maximumTagCharacters |-> boundedPositiveInteger(64, 2^20),
   maximumAuthorCharacters |-> boundedPositiveInteger(256, 2^20),
   defaultResultLimit |-> boundedPositiveInteger(5, 256),
   maximumResultLimit |-> boundedPositiveInteger(20, 256),
   candidatePageMultiplier |-> boundedPositiveInteger(2, 16),
   reciprocalRankFusionK |-> boundedPositiveInteger(60, 1000),
   minimumSearchScore |-> boundedFloat(600)]

(* The settings of the embedding and vector services that the server and   *)
(* the worker share.                                                       *)
engineTable ==
  [teiRequestsPerSecond |-> nonNegativeInteger(0), teiMaxResponseKiB |-> boundedPositiveInteger(8192, 32768),
   teiBatchSize |-> boundedPositiveInteger(8, 256), teiLogRawResponse |-> optionalBool,
   teiLogRawResponseMaxKiB |-> boundedNonNegativeInteger(4, 64),
   qdrantMaxResponseKiB |-> boundedPositiveInteger(4096, 32768),
   qdrantBatchResponseKiB |-> boundedPositiveInteger(8192, 32768),
   qdrantDocumentEvidenceLimit |-> boundedPositiveInteger(3, 32)]

readinessTable ==
  [readyProbeTimeout |-> optionalDuration(2 * Second), readyReadHeaderTimeout |-> optionalDuration(2 * Second),
   readyIdleTimeout |-> optionalDuration(30 * Second), readyShutdownTimeout |-> optionalDuration(3 * Second)]

serverTable == searchTable @@ assessorTable @@ engineTable @@ readinessTable @@ LoadRunAs

engineFits(c) == /\ c.qdrantBatchResponseKiB >= c.qdrantMaxResponseKiB
                 /\ c.teiLogRawResponseMaxKiB =< c.teiMaxResponseKiB

(* The assessor's default deadline follows the search deadline: three      *)
(* minutes, or a second less than a shorter search, or the least duration. *)
summaryTimeoutDefault(searchTimeout) ==
  LET d == IF 3 * Minute >= searchTimeout THEN searchTimeout - Second ELSE 3 * Minute
  IN IF d =< 0 THEN 1 ELSE d

serverChecks(c) == /\ c.defaultResultLimit =< c.maximumResultLimit
                   /\ c.summaryTimeout > 0 /\ c.summaryTimeout < c.searchTimeout
                   /\ c.dependencyTimeout > 0
                   /\ c.retryInitialBackoff =< c.retryMaximumBackoff
                   /\ c.cacheTTL > 0 => c.cacheMaxEntries > 0 /\ c.cacheKey = 1
                   /\ c.assessor = 1 => c.assessorValid = 1
                   /\ engineFits(c)

LoadServer(env) ==
  LET c == read(serverTable, env)
      v(s, fallback) == IF s \in DOMAIN env THEN env[s] ELSE fallback
      d == [summaryTimeout |-> v("summaryTimeout", summaryTimeoutDefault(c.searchTimeout)),
            dependencyTimeout |-> v("dependencyTimeout", c.searchTimeout)] @@ c
  IN IF InBounds(serverTable, d) /\ serverChecks(d) THEN d ELSE Refused

-----------------------------------------------------------------------------
(* Worker, serverless adapters, cleanup job. *)

manifestTable ==
  [maximumFilterTags |-> boundedPositiveInteger(20, 256),
   manifestMaxPages |-> boundedPositiveInteger(1000, 10000),
   manifestMaxShards |-> boundedPositiveInteger(2048, 8192),
   manifestMaxShardCompressed |-> boundedPositiveInt64(32, 128),
   manifestMaxShardExpanded |-> boundedPositiveInt64(64, 256),
   manifestMaxShardChunks |-> boundedPositiveInteger(256, 4096),
   manifestMaxTotalChunks |-> boundedPositiveInteger(50000, 200000),
   manifestMaxExpanded |-> boundedPositiveInt64(2048, 8192)]

manifestFits(c) == /\ c.manifestMaxShardCompressed =< c.manifestMaxShardExpanded
                   /\ c.manifestMaxShardExpanded =< c.manifestMaxExpanded
                   /\ c.manifestMaxShardChunks =< c.manifestMaxTotalChunks

workerTimings ==
  [concurrency |-> Range_(1, 16, 1), invocationTimeout |-> boundedDuration(10 * Second, 13 * Minute, 3 * Minute),
   dbPingTimeout |-> optionalDuration(5 * Second), workerDependencyTimeout |-> optionalDuration(90 * Second),
   collectionTimeout |-> optionalDuration(10 * Second), finalizationLease |-> optionalDuration(15 * Minute),
   readinessInitialDelay |-> optionalDuration(Second), readinessMaxDelay |-> optionalDuration(10 * Second),
   readinessMaxAttempts |-> positiveInteger(90), readinessProbeTimeout |-> optionalDuration(2 * Second),
   reconnectInitialBackoff |-> optionalDuration(Second), reconnectMaxBackoff |-> optionalDuration(30 * Second),
   dispatchInterval |-> optionalDuration(500), cleanupInterval |-> optionalDuration(15 * Minute),
   cleanupTimeout |-> optionalDuration(30 * Second), cleanupBatchSize |-> boundedPositiveInteger(64, 1024),
   maxRetryAttempts |-> boundedPositiveInteger(4, 32), staleBatchAge |-> optionalDuration(15 * Minute),
   failureRecordTimeout |-> optionalDuration(10 * Second), publishTimeout |-> optionalDuration(10 * Second),
   rabbitDialTimeout |-> optionalDuration(5 * Second), rabbitHeartbeat |-> optionalDuration(10 * Second),
   readReadHeaderTimeout |-> optionalDuration(2 * Second), readIdleTimeout |-> optionalDuration(30 * Second),
   readShutdownTimeout |-> optionalDuration(3 * Second)]

workerTable ==
  [processingMode |-> Valid, secrets |-> readSecretFile, minioInsecure |-> Flag, endpoints |-> privateServiceURL,
   minimumSearchScore |-> boundedFloat(600)]
  @@ workerTimings @@ manifestTable @@ engineTable @@ LoadRunAs

workerChecks(c) == /\ c.readinessInitialDelay =< c.readinessMaxDelay
                   /\ c.reconnectInitialBackoff =< c.reconnectMaxBackoff
                   /\ manifestFits(c)
                   /\ engineFits(c)

LoadWorker(env) == Loaded(workerTable, workerChecks, env)

lambdaTable ==
  [lambdaDependencyTimeout |-> optionalDuration(90 * Second), lambdaCollectionTimeout |-> optionalDuration(10 * Second),
   finalizationLease |-> optionalDuration(15 * Minute), lambdaStaleBatchAge |-> optionalDuration(15 * Minute),
   lambdaCleanupBatchSize |-> boundedPositiveInteger(64, 1024),
   lambdaFailureRecordTimeout |-> optionalDuration(10 * Second),
   lambdaDialTimeout |-> optionalDuration(5 * Second), lambdaHeartbeat |-> optionalDuration(10 * Second),
   endpointResolveTimeout |-> optionalDuration(3 * Second)] @@ manifestTable

LoadLambdaRuntimePolicy(env) == Loaded(lambdaTable, manifestFits, env)

LoadLambdaProcessingTimeout(env) ==
  Loaded([processingTimeout |-> boundedDuration(Minute, 13 * Minute + 30 * Second, 13 * Minute + 30 * Second)],
         LAMBDA c : TRUE, env)

LoadCleanupJobPolicy(env) ==
  Loaded([jobDependencyTimeout |-> optionalDuration(90 * Second), jobBatchSize |-> boundedPositiveInteger(64, 1024)],
         LAMBDA c : TRUE, env)
=============================================================================
