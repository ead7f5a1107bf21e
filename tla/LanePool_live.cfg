SPECIFICATION FairSpec
CONSTANTS
    r1 = r1
    r2 = r2
    r3 = r3
    o1 = o1
    Requests = {r1, r2, r3}
    Origins = {o1}
    OriginOf <- OneServer
    Connections = 2
    MaxAttempts = 1
    MaxChanges = 0
    Unchallenged = TRUE
    First = first
    None = none

PROPERTY EveryRequestEnds
