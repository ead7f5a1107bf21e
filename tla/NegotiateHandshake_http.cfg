SPECIFICATION FairSpec
CONSTANTS
    c1 = c1
    c2 = c2
    Connections = {c1, c2}
    Setups <- AllSetups
    MaxAttempts = 3
    MaxLegs = 4
    MaxRequests = 2
    None = none
INVARIANTS
    ReportIsTrue GoodCredentialGetsIn RunsOnce
PROPERTY EveryHandshakeEnds
