SPECIFICATION FairSpec
CONSTANTS
    b1 = b1
    b2 = b2
    t1 = t1
    t2 = t2
    k1 = k1
    k2 = k2
    i1 = i1
    Books = {b1, b2}
    Streams = {t1, t2}
    Sessions = {k1, k2}
    IPs = {i1}
    MaxSubscribers = 2
    MaxSubscribersPerSession = 1
    MaxSubscribersPerIP = 2
    MaxPendingEvents = 1
    MaxPublications = 2
    MaxFaults = 1
INVARIANTS NoLostWakeup NothingMissed LimitsExact
PROPERTY StreamsCurrentOrOver
