SPECIFICATION Spec
CONSTANTS
  MaximumTokens = 2
  AttemptLimit = 2
  RetryMaxAttempts = 2
  ClaimBatchSize = 2
  MaximumSetups = 2
  Workers = {w1, w2}
  Streams = {s1}
  MaxSubscribers = 1
  Users = {u1}
  Refreshes = {r1, r2}
  Logins = {l1}
  Resets = {c1}
  Slots = 1
  CodeAttempts = 2
  MaximumSessions = 2
  MaximumRefreshTokens = 3
  MaximumGrants = 2
INVARIANTS NothingUntold CredentialsSafe
PROPERTIES DecisionsFinal RevokedFinal MailSettles
CHECK_DEADLOCK FALSE
