\* MaximumEdits: the loaders compare at most two values that are not at their
\* defaults.  Attempts: a request and its repeat.  The counters of Catalog and
\* the requests of a browser are bounded, so the system may stop.
SPECIFICATION ServicesSpec
CONSTANTS
    b1 = b1
    c1 = c1
    c2 = c2
    e1 = e1
    e2 = e2
    e3 = e3
    k1 = k1
    k2 = k2
    q1 = q1
    q2 = q2
    Books = {b1}
    Commands = {c1, c2}
    EventIds = {e1, e2, e3}
    Manifests = {"m1"}
    Categories = {"unsupported_document", "resource_limit_exceeded", "embedding_unavailable"}
    Details = {"", "d"}
    MaxLifecycle = 3
    MaximumEdits = 2
    Attempts = 2
    Requests = {q1, q2}
    Keys = {k1, k2}
    RateLimit = 2
    RateWindow = 2
    RateMaxKeys = 1
    Concurrency = 1
SYMMETRY Symmetry
CHECK_DEADLOCK FALSE
INVARIANTS StatusVersionsOrdered DeletionConverges BookAccounted EdgeAcceptsStatus SettingsAgree OutcomesTruthful AdmissionExact
PROPERTIES DeletionIrreversible FirstOutcomeStands
