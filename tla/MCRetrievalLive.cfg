SPECIFICATION LiveSpec
CONSTANTS
    w1 = w1
    w2 = w2
    s1 = s1
    s2 = s2
    Workers = {w1, w2}
    Shards = {s1}
    MaxVersion = 2
    MaxRetry = 1
    Deletion = TRUE
    Duplicates = 1
    MaxFaults = 1
INVARIANTS OneOutcome DeletedBookHoldsNothing
PROPERTIES StaysSearchable RetrievalSettles
CHECK_DEADLOCK FALSE
