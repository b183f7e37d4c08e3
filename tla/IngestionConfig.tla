-------------------------- MODULE IngestionConfig --------------------------
(***************************************************************************)
(* Configuration of the ingestion processes: the worker, the dispatcher of *)
(* its outbox and the cleaner of its artifacts read one environment, each  *)
(* through a loader of its own, for the local and for the AWS backend; the *)
(* layout worker reads another part of it.  Sizes are in MiB.              *)
(***************************************************************************)
EXTENDS Settings

boundedInt(fallback, maximum)        == Range_(1, maximum, fallback)
fixedInt(supported)                  == Range_(supported, supported, supported)
boundedInt64(fallback, maximum)      == Range_(1, maximum, fallback)
boundedDuration(minimum, maximum, fallback) == Range_(minimum, maximum, fallback)
strictBool                           == Flag

(* Texts with a form of their own: a secret file or entry, an endpoint     *)
(* without a scheme, a private listen address, a required name.            *)
readSecret             == Valid
readAWSSecret          == Valid
validateAWSPostgresDSN == Valid
validateAWSRabbitURI   == Valid
validateEndpoint       == Valid
privateAddress         == Valid
required               == Valid

Backends == {"local", "aws"}

-----------------------------------------------------------------------------
(* Tables of the settings, by what they are about. *)

chunkPolicyValues ==
  [chunkMaximumTokens |-> fixedInt(512), chunkOverlapTokens |-> fixedInt(120),
   chunkTargetPages   |-> fixedInt(2),   chunkMaximumPages  |-> fixedInt(3)]

(* Connections and buckets: bucket 1 and bucket 2 stand for two names.     *)
localStorage ==
  [secrets |-> readSecret, endpoint |-> validateEndpoint, minioInsecure |-> strictBool,
   caFile |-> Flag, sourceBucket |-> Range_(1, 2, 1), artifactBucket |-> Range_(1, 2, 2),
   tokenizerFile |-> required, metricsAddress |-> privateAddress]

awsConnection ==
  [secrets |-> readAWSSecret, databaseURI |-> validateAWSPostgresDSN, region |-> required,
   awsLoadTimeout |-> boundedDuration(Second, Minute, 10 * Second),
   awsSecretRequestTimeout |-> boundedDuration(Second, Minute, 5 * Second)]

awsStorage ==
  awsConnection
  @@ [brokerURI |-> validateAWSRabbitURI, kmsKey |-> required,
      sourceBucket |-> Range_(1, 2, 1), artifactBucket |-> Range_(1, 2, 2),
      tokenizerFile |-> required, metricsAddress |-> privateAddress]

workerLimits ==
  [workConcurrency |-> boundedInt(1, 16), maximumAttempts |-> boundedInt(4, 10),
   maximumChunks |-> fixedInt(50000), maximumPages |-> boundedInt64(1000, 1000),
   epubMaximumEntries |-> boundedInt(2048, 8192),
   epubMaximumSpineItems |-> boundedInt64(500, 5000),
   epubMaximumEntryBytes |-> boundedInt64(32, 256),
   epubMaximumExpandedBytes |-> boundedInt64(256, 2048),
   epubMaximumTextBytes |-> boundedInt64(128, 1024),
   maximumSource |-> fixedInt(25), maximumExtracted |-> boundedInt64(128, 1024),
   maximumPage |-> boundedInt64(2, 32), maximumManifest |-> boundedInt64(1, 1),
   artifactChunksPerShard |-> boundedInt(256, 1024),
   artifactVersionCleanupPasses |-> boundedInt(256, 4096),
   artifactMaximumShardBytes |-> boundedInt64(4, 32),
   maximumTemporary |-> boundedInt64(1024, 10240)]

workerMemory ==
  [memoryLimit |-> boundedInt64(2048, 65536),
   parserMemory |-> Range_(1536, 8192, 1536),
   parserRuntimeHeadroom |-> boundedInt64(256, 4096)]

workerTimings ==
  [processingTimeout |-> boundedDuration(Minute, 13 * Minute + 30 * Second, 12 * Minute + 30 * Second),
   persistenceTimeout |-> boundedDuration(Second, Minute, 10 * Second),
   artifactAbortTimeout |-> boundedDuration(Second, Minute, 10 * Second),
   jobLease |-> boundedDuration(Minute, 30 * Minute, 13 * Minute),
   subsequentRetryDelay |-> boundedDuration(Second, 10 * Minute, 2 * Minute),
   readinessProbeTimeout |-> boundedDuration(Second, Minute, 5 * Second),
   readinessRefreshInterval |-> boundedDuration(2 * Second, Minute, 5 * Second),
   metricsReadHeaderTimeout |-> boundedDuration(5 * Second, Minute, 10 * Second),
   metricsShutdownTimeout |-> boundedDuration(5 * Second, Minute, 10 * Second)]

(* The timings of the outbox and of the broker connection. *)
dispatchTimings ==
  [outboxInterval |-> boundedDuration(100, Minute, Second),
   rabbitDialTimeout |-> boundedDuration(Second, Minute, 5 * Second),
   rabbitHeartbeat |-> boundedDuration(Second, Minute, 10 * Second),
   rabbitPublishTimeout |-> boundedDuration(Second, Minute, 10 * Second),
   outboxLease |-> boundedDuration(Second, 5 * Minute, 30 * Second),
   firstRetryDelay |-> boundedDuration(Second, 10 * Minute, 5 * Second),
   secondRetryDelay |-> boundedDuration(Second, 10 * Minute, 30 * Second)]

outboxTimings ==
  [retryDispatchDelay |-> boundedDuration(Second, Minute, Second),
   outboxRetryBaseDelay |-> boundedDuration(Second, Minute, Second),
   outboxRetryMaxDelay |-> boundedDuration(Second, 10 * Minute, 5 * Minute),
   selectionWaitTimeout |-> boundedDuration(Second, Day, 15 * Minute)]

cleanupTimings ==
  [cleanupInterval |-> boundedDuration(Minute, Day, 15 * Minute),
   orphanGracePeriod |-> boundedDuration(15 * Minute, 7 * Day, Hour)]

runAs == [uid |-> boundedInt(65532, 2^30), gid |-> boundedInt(65532, 2^30)]

(* Mode 1..3: disabled, observation, enforcement; the debug directory and  *)
(* the temporary directory are texts with a form of their own.             *)
selectionPolicy ==
  [selectionMode |-> Range_(1, 3, 3), selectionMaximumRanges |-> fixedInt(256),
   selectionMinimumSignals |-> fixedInt(2), selectionMaximumExcludedRatio |-> fixedInt(25),
   temporaryDirectory |-> Valid, debugDirectory |-> Valid]

-----------------------------------------------------------------------------
(* Checks of one value against another. *)

bucketsDiffer(c) == c.sourceBucket # c.artifactBucket
caFileFits(c)    == ~ (c.minioInsecure = 1 /\ c.caFile = 1)

epubPolicyFits(c) == /\ c.epubMaximumExpandedBytes >= c.epubMaximumEntryBytes
                     /\ c.epubMaximumTextBytes =< c.epubMaximumExpandedBytes

memoryFits(c) ==
  c.workConcurrency * c.parserMemory + c.parserRuntimeHeadroom =< c.memoryLimit

leaseOutlivesProcessing(c) == c.jobLease >= c.processingTimeout + 30 * Second

workerChecks(c) == /\ bucketsDiffer(c)
                   /\ c.maximumTemporary >= c.maximumSource
                   /\ epubPolicyFits(c)
                   /\ memoryFits(c)
                   /\ leaseOutlivesProcessing(c)

-----------------------------------------------------------------------------
(* The loaders. *)

localWorkerTable ==
  localStorage @@ workerLimits @@ chunkPolicyValues @@ workerMemory @@ workerTimings
  @@ dispatchTimings @@ outboxTimings @@ cleanupTimings @@ selectionPolicy @@ runAs

loadLocal(env) ==
  Loaded(localWorkerTable, LAMBDA c : caFileFits(c) /\ workerChecks(c), env)

(* The AWS loader has its own defaults for two sizes and no selection      *)
(* policy: it leaves the mode empty.                                       *)
awsWorkerLimits ==
  [workerLimits EXCEPT !.maximumExtracted = boundedInt64(64, 1024),
                       !.maximumTemporary = boundedInt64(2048, 10240)]
  @@ chunkPolicyValues @@ workerMemory

awsWorkerTable ==
  awsStorage @@ awsWorkerLimits @@ workerTimings @@ dispatchTimings @@ outboxTimings
  @@ cleanupTimings @@ runAs

loadAWS(env) == Loaded(awsWorkerTable, workerChecks, env)

dispatcherTable ==
  [secrets |-> readSecret] @@ dispatchTimings @@ outboxTimings @@ chunkPolicyValues @@ runAs

loadLocalDispatcher(env) == Loaded(dispatcherTable, LAMBDA c : TRUE, env)

loadAWSDispatcher(env) ==
  Loaded([s \in DOMAIN awsConnection \ {"databaseURI"} |-> awsConnection[s]] @@ dispatcherTable,
         LAMBDA c : TRUE, env)

cleanerTable ==
  [artifactVersionCleanupPasses |-> boundedInt(256, 4096)]
  @@ cleanupTimings @@ outboxTimings @@ chunkPolicyValues

loadLocalCleanup(env) ==
  Loaded([cleanupSecrets |-> readSecret, endpoint |-> validateEndpoint,
          minioInsecure |-> strictBool, caFile |-> Flag,
          artifactBucket |-> Range_(1, 2, 2)] @@ cleanerTable, caFileFits, env)

loadAWSCleanup(env) ==
  Loaded([kmsKey |-> required, artifactBucket |-> Range_(1, 2, 2)] @@ awsConnection @@ cleanerTable,
         LAMBDA c : TRUE, env)

(* Load, LoadDispatcher, LoadCleanup: local unless the backend says aws.   *)
LoadWorker(backend, env)     == IF backend = "local" THEN loadLocal(env) ELSE loadAWS(env)
LoadDispatcher(backend, env) == IF backend = "local" THEN loadLocalDispatcher(env) ELSE loadAWSDispatcher(env)
LoadCleanup(backend, env)    == IF backend = "local" THEN loadLocalCleanup(env) ELSE loadAWSCleanup(env)

(* Layout worker; item text in KiB, compared with the page limit in MiB.   *)
layoutTable ==
  [secrets |-> readSecret, endpoint |-> validateEndpoint, minioInsecure |-> strictBool,
   modelSHA256 |-> Valid,
   maximumAttempts |-> boundedInt(4, 10), layoutConcurrency |-> boundedInt(1, 8),
   layoutMemoryLimit |-> boundedInt64(2048, 65536), parserMemory |-> Range_(1536, 8192, 1536),
   parserRuntimeHeadroom |-> boundedInt64(256, 4096),
   selectionMinimumSignals |-> fixedInt(2), selectionMaximumRanges |-> fixedInt(256),
   selectionMaximumExcludedRatio |-> fixedInt(25),
   maximumSource |-> fixedInt(25), maximumExtracted |-> fixedInt(128), maximumPages |-> fixedInt(1000),
   maximumPage |-> boundedInt64(2, 32), maximumItemsPerLocation |-> boundedInt(2048, 4096),
   maximumItemTextKiB |-> boundedInt64(64, 1024), maximumXMLTokens |-> boundedInt(2000000, 10000000),
   maximumXMLDepth |-> boundedInt(32, 128),
   epubMaximumEntries |-> boundedInt(2048, 8192), epubMaximumSpineItems |-> boundedInt64(500, 5000),
   epubMaximumEntryBytes |-> boundedInt64(32, 256), epubMaximumExpandedBytes |-> boundedInt64(256, 2048),
   epubMaximumTextBytes |-> boundedInt64(128, 1024),
   parserTimeout |-> boundedDuration(Minute, 10 * Minute, 10 * Minute),
   subsequentRetryDelay |-> boundedDuration(Second, 10 * Minute, 2 * Minute)]
  @@ [s \in {"rabbitDialTimeout", "rabbitHeartbeat", "rabbitPublishTimeout",
             "firstRetryDelay", "secondRetryDelay"} |-> dispatchTimings[s]] @@ runAs

LoadLayout(env) ==
  Loaded(layoutTable,
         LAMBDA c : /\ c.layoutConcurrency * c.parserMemory + c.parserRuntimeHeadroom =< c.layoutMemoryLimit
                    /\ c.maximumItemTextKiB =< 1024 * c.maximumPage
                    /\ epubPolicyFits(c), env)
=============================================================================
