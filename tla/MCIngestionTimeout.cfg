SPECIFICATION Spec
CONSTANTS
    s1 = s1
    s2 = s2
    Slots = {s1, s2}
    MaxAttempts = 3
    MaxDeliveries = 5
    Lease = 2
    Wait = 2
    RetryDelay <- ShortDelays
    Selection = TRUE
    Deletion = FALSE
    MaxCompletions = 1
    MaxFaults = 0
SYMMETRY Symmetry
CHECK_DEADLOCK FALSE
INVARIANTS UploadNeverRejected
