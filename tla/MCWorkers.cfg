\* MaxVersion: two reindexings.  Two handlers, three deliveries in flight (a late
\* completion, its successor and the deletion meet) and two answers of the layout
\* worker; one fault each (an upload: one fault or a second answer).
\* Every bounded counter may run out, so the system may stop.
SPECIFICATION WorkersSpec
CONSTANTS
    w1 = w1
    w2 = w2
    s1 = s1
    s2 = s2
    s3 = s3
    d1 = d1
    d2 = d2
    Workers = {w1, w2}
    Shards = {d1}
    MaxVersion = 3
    MaxRetry = 1
    Deletion = TRUE
    Duplicates = 1
    MaxFaults = 1
    Slots = {s1, s2, s3}
    MaxAttempts = 2
    MaxDeliveries = 2
    Lease = 2
    Wait = 2
    RetryDelay <- ShortDelays
    Selection = TRUE
    MaxCompletions = 2
SYMMETRY Alike
CHECK_DEADLOCK FALSE
INVARIANTS LeaseExclusive ArtifactsKeptOrGone IndexSound
PROPERTY SelectionFirst
