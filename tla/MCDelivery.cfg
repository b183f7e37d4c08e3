SPECIFICATION DeliverySpec
CONSTANTS
    Aggregates = {"book"}
    Dispatchers = {"first", "second"}
    ClaimLimit = 1
    MaximumEvents = 3
    Uploads = {1, 2}
    UploadSlots = 2
    BatchSize = 1
    MaxObjects = 2
    MaximumFaults = 1
    Facts = {"f", "g"}
    RetryLimit = 2
    MaximumBreaks = 1
CHECK_DEADLOCK FALSE
INVARIANTS UploadKeepsObject
PROPERTIES OrderedAtLeastOnce OrphansCollected EventsSettle
