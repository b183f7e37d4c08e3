---------------------------- MODULE OnlineConfig ----------------------------
(***************************************************************************)
(* Configuration of the services that answer requests: Edge, Answer,       *)
(* Catalog and Identity.  Sizes are in KiB, scores in thousandths.         *)
(***************************************************************************)
EXTENDS Settings

positiveInt(fallback)      == Range_(1, Unlimited, fallback)
positiveDuration(fallback) == Range_(1, Unlimited, fallback)

(* Texts with a form of their own. *)
readSecret            == Valid
parseCIDRs            == Valid
processIdentity       == Valid
validListenAddress    == Valid
validServiceAddress   == Valid
validProviderURL      == Valid
validateMinIOEndpoint == Valid
privateMetricsAddress == Valid
readSecretBytes       == Valid

-----------------------------------------------------------------------------
(* Edge. *)

(* Limits of the request limiters, by route: requests, window, keys.  The  *)
(* limiter of the answers has no key bound of its own.                     *)
edgeRoutes ==
  [queryRateLimit |-> positiveInt(30), queryRateWindow |-> positiveDuration(Minute), queryRateMaxKeys |-> positiveInt(10000),
   registerRateLimit |-> positiveInt(20), registerRateWindow |-> positiveDuration(Hour), registerRateMaxKeys |-> positiveInt(10000),
   verifyEmailRateLimit |-> positiveInt(30), verifyEmailRateWindow |-> positiveDuration(Hour), verifyEmailRateMaxKeys |-> positiveInt(10000),
   loginRateLimit |-> positiveInt(30), loginRateWindow |-> positiveDuration(Minute), loginRateMaxKeys |-> positiveInt(10000),
   resendRateLimit |-> positiveInt(5), resendRateWindow |-> positiveDuration(Hour), resendRateMaxKeys |-> positiveInt(10000)]

edgeResetRoutes ==
  [resetRequestRateLimit |-> positiveInt(5), resetRequestRateWindow |-> positiveDuration(Hour), resetRequestRateMaxKeys |-> positiveInt(10000),
   resetVerifyRateLimit |-> positiveInt(5), resetVerifyRateWindow |-> positiveDuration(Hour), resetVerifyRateMaxKeys |-> positiveInt(10000),
   resetCompleteRateLimit |-> positiveInt(5), resetCompleteRateWindow |-> positiveDuration(Hour), resetCompleteRateMaxKeys |-> positiveInt(10000),
   setupAdminRateLimit |-> positiveInt(5), setupAdminRateWindow |-> positiveDuration(15 * Minute), setupAdminRateMaxKeys |-> positiveInt(1000),
   bookUploadRateLimit |-> positiveInt(20), bookUploadRateWindow |-> positiveDuration(Hour), bookUploadRateMaxKeys |-> positiveInt(10000),
   answerRateLimit |-> positiveInt(10), answerRateWindow |-> positiveDuration(3 * Minute)]

edgeQuery ==
  [queryConcurrency |-> positiveInt(8), queryConcurrencyRetryAfter |-> positiveDuration(Minute),
   queryMaxQuestionLength |-> positiveInt(2000), queryMaxTags |-> positiveInt(20),
   queryMaxTagLength |-> positiveInt(64), queryMaxAuthorLength |-> positiveInt(256),
   queryDefaultLimit |-> positiveInt(5), queryMaxLimit |-> positiveInt(20),
   pendingPageDefaultSize |-> positiveInt(25), pendingPageMaxSize |-> positiveInt(100),
   booksPageMaxSize |-> positiveInt(100), booksPageTokenMaxSize |-> positiveInt(512),
   minimumEvidenceScore |-> Range_(1, 1000, 600), refreshCookieMaxAge |-> positiveDuration(30 * (Day \div Second))]

edgeHTTP ==
  [bookUploadDeadline |-> positiveDuration(2 * Minute + 10 * Second),
   bookMetadataMaxKiB |-> positiveInt(4), jsonBodyMaxKiB |-> positiveInt(16),
   httpReadTimeout |-> positiveDuration(10 * Second), httpReadHeaderTimeout |-> positiveDuration(5 * Second),
   httpWriteTimeoutHeadroom |-> positiveDuration(5 * Second), httpMinimumWriteTimeout |-> positiveDuration(30 * Second),
   httpIdleTimeout |-> positiveDuration(Minute), httpShutdownTimeout |-> positiveDuration(15 * Second),
   httpMaxHeaderKiB |-> positiveInt(1024)]

edgeUpstream ==
  [identityRPCDeadline |-> positiveDuration(3 * Second), catalogReadinessTimeout |-> positiveDuration(2 * Second),
   catalogUploadTimeout |-> positiveDuration(2 * Minute), catalogListTimeout |-> positiveDuration(3 * Second),
   retrievalReadinessTimeout |-> positiveDuration(2 * Second), booksListTimeout |-> positiveDuration(6 * Second),
   booksLifecycleTimeout |-> positiveDuration(5 * Second),
   answerDeadline |-> Range_(1, 5 * Minute, 5 * Minute),
   retrievalSearchDeadline |-> Range_(1, 5 * Minute, 4 * Minute),
   catalogPreviewDeadline |-> Range_(1, 30 * Second, 6 * Second)]

edgeStreams ==
  [sseHeartbeatInterval |-> positiveDuration(15 * Second), sseRevalidateInterval |-> positiveDuration(15 * Second),
   sseMaximumDuration |-> positiveDuration(5 * Minute), sseWriteTimeout |-> positiveDuration(5 * Second),
   pendingReconnectInitialBackoff |-> positiveDuration(Second), pendingReconnectMaxBackoff |-> positiveDuration(30 * Second),
   statusReconnectInitialBackoff |-> positiveDuration(Second), statusReconnectMaxBackoff |-> positiveDuration(30 * Second),
   statusDialTimeout |-> positiveDuration(5 * Second), statusHeartbeatTimeout |-> positiveDuration(10 * Second),
   statusPrefetch |-> positiveInt(20), statusQueueMaxLengthKiB |-> positiveInt(65536),
   statusHubCapacity |-> positiveInt(200), statusSessionCapacity |-> positiveInt(1),
   statusIPCapacity |-> positiveInt(10), statusPendingEventCapacity |-> positiveInt(64),
   pendingHubCapacity |-> positiveInt(200), pendingSessionCapacity |-> positiveInt(1), pendingIPCapacity |-> positiveInt(10)]

(* The origin: enforced = 1 needs an absolute origin, and https unless     *)
(* insecure cookies are allowed (originScheme 1 is http, 2 https).         *)
edgeOrigin == [enforceOrigin |-> Flag, originPresent |-> Range_(0, 1, 1),
               originScheme |-> Range_(1, 2, 2), insecureCookie |-> Flag]

edgeTable == [keys |-> readSecret, addresses |-> Valid, runAs |-> processIdentity, trustedProxies |-> parseCIDRs,
              retrievalReadinessRequired |-> Range_(0, 1, 1)]
             @@ edgeRoutes @@ edgeResetRoutes @@ edgeQuery @@ edgeHTTP @@ edgeUpstream @@ edgeStreams @@ edgeOrigin

edgeChecks(c) == /\ c.catalogPreviewDeadline < c.retrievalSearchDeadline
                 /\ c.queryDefaultLimit =< c.queryMaxLimit
                 /\ c.pendingPageDefaultSize =< c.pendingPageMaxSize
                 /\ c.enforceOrigin = 1 => /\ c.originPresent = 1
                                           /\ c.originScheme = 2 \/ c.insecureCookie = 1

LoadEdge(env) == Loaded(edgeTable, edgeChecks, env)

(* Fault: the write timeout covers the longer of the two calls only. *)
httpWriteTimeoutOfLonger(c) ==
  LET longer == IF c.answerDeadline > c.retrievalSearchDeadline THEN c.answerDeadline
                ELSE c.retrievalSearchDeadline
  IN IF longer + c.httpWriteTimeoutHeadroom < c.httpMinimumWriteTimeout
     THEN c.httpMinimumWriteTimeout ELSE longer + c.httpWriteTimeoutHeadroom

(* The write timeout of the server: both calls of a query and headroom.    *)
httpWriteTimeout(c) ==
  LET timeout == c.answerDeadline + c.retrievalSearchDeadline + c.httpWriteTimeoutHeadroom
  IN IF timeout < c.httpMinimumWriteTimeout THEN c.httpMinimumWriteTimeout ELSE timeout

-----------------------------------------------------------------------------
(* Answer. *)

positiveInteger(fallback, maximum)    == Range_(1, maximum, fallback)
duration(fallback, minimum, maximum)  == Range_(minimum, maximum, fallback)
nonNegativeInteger(fallback, maximum) == Range_(0, maximum, fallback)
nonNegativeDuration(fallback, maximum) == Range_(0, maximum, fallback)
cacheCosine(fallback)                 == Range_(1, 1000, fallback)

(* Requests per minute to the provider: free models are held to 15.        *)
providerRequestsPerMinute(freeModel) == Range_(0, Unlimited, IF freeModel THEN 15 ELSE 0)

answerLimits ==
  [maximumQuestionCharacters |-> positiveInteger(2000, 2^20), maximumFilterTags |-> positiveInteger(20, 256),
   maximumTagCharacters |-> positiveInteger(64, 2^20), maximumAuthorCharacters |-> positiveInteger(256, 2^20),
   maximumResultLimit |-> positiveInteger(20, 256), maximumEvidence |-> positiveInteger(8, 64),
   maximumContextKiB |-> positiveInteger(32, 1024), maximumEvidenceKiB |-> positiveInteger(8, 1024),
   maximumSegments |-> positiveInteger(8, 64), maximumAnswerKiB |-> positiveInteger(8, 1024),
   maximumSummaryRunes |-> positiveInteger(512, 2^20), maximumCitations |-> positiveInteger(8, 64),
   maximumOutputTokens |-> positiveInteger(768, 8192), generatorConcurrency |-> positiveInteger(4, 64),
   maxRequestKiB |-> positiveInteger(128, 1024), maxResponseKiB |-> positiveInteger(128, 1024),
   maxCandidateKiB |-> positiveInteger(32, 256), requestsPerMinute |-> providerRequestsPerMinute(FALSE),
   cacheCapacity |-> nonNegativeInteger(0, 10000), cacheTTL |-> nonNegativeDuration(0, Day),
   cacheMinimumCosine |-> cacheCosine(950)]

answerTimings ==
  [requestTimeout |-> duration(5 * Minute, 100, 5 * Minute),
   retrievalTimeout |-> duration(4 * Minute + 45 * Second, 100, 5 * Minute),
   generatorTimeout |-> duration(4 * Minute + 30 * Second, 100, 5 * Minute),
   providerHTTPTimeout |-> nonNegativeDuration(0, 5 * Minute),
   readinessProbeTimeout |-> duration(2 * Second, 100, Minute), readinessPollInterval |-> duration(2 * Second, 100, Minute),
   shutdownTimeout |-> duration(3 * Second, 100, Minute), metricsReadTimeout |-> duration(3 * Second, 100, Minute),
   metricsReadHeaderTimeout |-> duration(2 * Second, 100, Minute), metricsMaxHeaderKiB |-> positiveInteger(16, 1024),
   metricsWriteTimeout |-> duration(5 * Second, 100, Minute), metricsIdleTimeout |-> duration(30 * Second, Second, 5 * Minute)]

answerTable == [listen |-> validListenAddress, retrieval |-> validServiceAddress, provider |-> validProviderURL,
                files |-> Valid, runAs |-> Valid]
               @@ answerLimits @@ answerTimings

answerChecks(c) == /\ c.maxCandidateKiB =< c.maxResponseKiB
                   /\ (c.cacheCapacity = 0) = (c.cacheTTL = 0)
                   /\ c.providerHTTPTimeout > 0 => c.providerHTTPTimeout =< c.generatorTimeout
                   /\ c.maximumEvidenceKiB =< c.maximumContextKiB
                   /\ c.retrievalTimeout < c.requestTimeout
                   /\ c.generatorTimeout < c.requestTimeout

LoadAnswer(env) == Loaded(answerTable, answerChecks, env)

-----------------------------------------------------------------------------
(* Catalog. *)

boundedInt(fallback, maximum) == Range_(1, maximum, fallback)
boundedDuration(minimum, maximum, fallback) == Range_(minimum, maximum, fallback)

catalogLimits ==
  [secrets |-> readSecret, tls |-> Valid, runAs |-> Valid, endpoint |-> validateMinIOEndpoint, minioInsecure |-> Flag, caFile |-> Flag,
   maxUploadKiB |-> Range_(25600, 25600, 25600), caMaxKiB |-> boundedInt(1024, 8192),
   maxPreviewKiB |-> boundedInt(1024, 1024), maxPreviewPages |-> boundedInt(3, 32),
   maxPreviewEPUBEntries |-> boundedInt(2048, 8192), uploadConcurrency |-> boundedInt(2, 16),
   previewConcurrency |-> boundedInt(2, 16), listPageDefaultSize |-> boundedInt(25, 100),
   listPageMaxSize |-> boundedInt(100, 1000), listPageTokenMaxSize |-> boundedInt(512, 4096),
   processingRetryLimit |-> boundedInt(5, 32), reconcileBatchSize |-> boundedInt(100, 1000),
   reconcileMaxObjects |-> boundedInt(1000, 10000), metricsAddress |-> privateMetricsAddress]

catalogTimings ==
  [previewTimeout |-> boundedDuration(Second, 30 * Second, 5 * Second),
   persistenceLookupTimeout |-> boundedDuration(100, Minute, 5 * Second),
   objectDeleteTimeout |-> boundedDuration(100, Minute, 5 * Second),
   outboxPollInterval |-> boundedDuration(100, Minute, Second), outboxDrainBudget |-> boundedDuration(50, 5 * Second, 250),
   outboxLease |-> boundedDuration(Second, 10 * Minute, 30 * Second),
   outboxRetryBaseDelay |-> boundedDuration(Second, Minute, Second),
   outboxRetryMaxDelay |-> boundedDuration(Second, 10 * Minute, 5 * Minute),
   outboxPublishTimeout |-> boundedDuration(Second, Minute, 5 * Second),
   outboxDialTimeout |-> boundedDuration(100, Minute, 5 * Second), outboxHeartbeat |-> boundedDuration(Second, Minute, 10 * Second),
   grpcUploadTimeout |-> boundedDuration(Second, 10 * Minute, 2 * Minute),
   grpcLifecycleTimeout |-> boundedDuration(Second, Minute, 10 * Second), grpcListTimeout |-> boundedDuration(100, Minute, 5 * Second),
   reconcileInterval |-> boundedDuration(Minute, Day, 15 * Minute), orphanGracePeriod |-> boundedDuration(5 * Minute, 7 * Day, Hour)]

catalogServing ==
  [dbPingTimeout |-> boundedDuration(Second, Minute, 5 * Second), healthProbeTimeout |-> boundedDuration(100, Minute, 2 * Second),
   healthUpdateInterval |-> boundedDuration(100, Minute, Second), backlogPollInterval |-> boundedDuration(Second, Hour, Minute),
   backlogProbeTimeout |-> boundedDuration(100, Minute, 2 * Second),
   metricsReadHeaderTimeout |-> boundedDuration(Second, Minute, 5 * Second), metricsReadTimeout |-> boundedDuration(Second, Minute, 10 * Second),
   metricsWriteTimeout |-> boundedDuration(Second, Minute, 10 * Second), metricsIdleTimeout |-> boundedDuration(Second, 5 * Minute, 30 * Second),
   gracefulStopTimeout |-> boundedDuration(Second, Minute, 10 * Second), metricsShutdownTimeout |-> boundedDuration(Second, Minute, 10 * Second),
   readinessProbeTimeout |-> boundedDuration(100, Minute, 2 * Second),
   processingReconnectInitialBackoff |-> boundedDuration(100, Minute, Second),
   processingReconnectMaxBackoff |-> boundedDuration(Second, 10 * Minute, 30 * Second),
   processingDialTimeout |-> boundedDuration(100, Minute, 5 * Second), processingHeartbeat |-> boundedDuration(Second, Minute, 10 * Second),
   processingHandleTimeout |-> boundedDuration(100, Minute, 10 * Second),
   processingRetryDelayStep |-> boundedDuration(10, 10 * Second, 250), processingRetryPublishTimeout |-> boundedDuration(100, Minute, 5 * Second)]

catalogTable == catalogLimits @@ catalogTimings @@ catalogServing

catalogChecks(c) == /\ ~ (c.minioInsecure = 1 /\ c.caFile = 1)
                    /\ c.listPageDefaultSize =< c.listPageMaxSize
                    /\ c.reconcileBatchSize =< c.reconcileMaxObjects

LoadCatalog(env) == Loaded(catalogTable, catalogChecks, env)

-----------------------------------------------------------------------------
(* Identity; durations longer than a day are in seconds. *)

durationOptional(fallback) == Range_(1, Unlimited, fallback)

identityLifetimes ==
  [verificationTTL |-> durationOptional(30 * Minute), verificationRetention |-> durationOptional(Day),
   verificationResendCooldown |-> durationOptional(10 * Minute), resetCodeTTL |-> durationOptional(10 * Minute),
   resetGrantTTL |-> durationOptional(10 * Minute), rejectedRetention |-> durationOptional(90 * 24 * 3600),
   accessTokenTTL |-> durationOptional(15 * Minute), sessionTTL |-> durationOptional(30 * 24 * 3600)]

identityWorkers ==
  [emailDeliverInterval |-> durationOptional(5 * Second), emailClaimTTL |-> durationOptional(Minute),
   emailRetryBaseInterval |-> durationOptional(Minute), emailRetryMaxInterval |-> durationOptional(Hour),
   emailClaimBatchSize |-> positiveInt(25), emailRetryMaxAttempts |-> positiveInt(10),
   sessionCleanupTimeout |-> durationOptional(5 * Second), sessionCleanupInterval |-> durationOptional(Hour),
   stateCleanupTimeout |-> durationOptional(30 * Second), stateCleanupInterval |-> durationOptional(Hour)]

identityTable ==
  [secrets |-> readSecretBytes, tls |-> Valid, runAs |-> Valid, bcryptConcurrency |-> Range_(1, 64, 4),
   smtpOperationTimeout |-> durationOptional(10 * Second), dbPingTimeout |-> durationOptional(5 * Second),
   healthProbeTimeout |-> durationOptional(2 * Second), healthPollInterval |-> durationOptional(2 * Second),
   gracefulStopTimeout |-> durationOptional(10 * Second), operationTimeout |-> durationOptional(5 * Second)]
  @@ identityLifetimes @@ identityWorkers

LoadIdentity(env) == Loaded(identityTable, LAMBDA c : TRUE, env)
=============================================================================
