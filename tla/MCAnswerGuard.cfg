SPECIFICATION Spec
CONSTANTS
    p1 = p1
    p2 = p2
    u1 = u1
    None = None
    Requests = {r1, r2}
    Searches <- Symbolic
    Capacity = 2
    TTL = 1
    GeneratorConcurrency = 2
    MaxClock = 0
INVARIANTS GuardsRespected
CHECK_DEADLOCK FALSE
