SPECIFICATION LiveSpec
CONSTANTS
    s1 = s1
    s2 = s2
    Slots = {s1, s2}
    MaxAttempts = 3
    MaxDeliveries = 5
    Lease = 2
    Wait = 2
    RetryDelay <- GrowingDelays
    Selection = FALSE
    Deletion = TRUE
    MaxCompletions = 0
    MaxFaults = 2
CHECK_DEADLOCK FALSE
INVARIANTS RetryKeptUnlessOvertaken
PROPERTY IngestionSettles
