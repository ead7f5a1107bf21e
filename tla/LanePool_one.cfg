SPECIFICATION Spec
CONSTANTS
    r1 = r1
    r2 = r2
    r3 = r3
    o1 = o1
    Requests = {r1, r2, r3}
    Origins = {o1}
    OriginOf <- OneServer
    Connections = 2
    MaxAttempts = 2
    MaxChanges = 1
    Unchallenged = FALSE
    First = first
    None = none
SYMMETRY Alike
INVARIANTS OneRequestPerLane PoolBound BeliefGrounded TurnsUntilAccepted SharedRefusal RefusalsAreEarned
PROPERTY KeepsTheGate
