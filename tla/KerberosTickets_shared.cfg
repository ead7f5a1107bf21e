SPECIFICATION FairSpec
CONSTANTS
    g1 = g1
    g2 = g2
    g3 = g3
    alice = alice
    mail = mail
    search = search
    None = None
    Handshakes = {g1, g2, g3}
    Accounts = {alice}
    Services = {mail, search}
    AccountOf <- OneAccount
    ServiceOf <- TwoServers
    Kdcs <- TwoKdcs
    RetryAfter = 1
    KeepFor = 2
    Margin = 1
    Life = 3
    MaxTime = 1
INVARIANTS
    AskOnce
    OneAsks
    DeadStaysDead
    LastAnsweredFirst
PROPERTY EveryHandshakeEnds
