SPECIFICATION FairSpec
CONSTANTS
    a1 = a1
    a2 = a2
    s1 = s1
    u1 = u1
    Addresses = {a1, a2}
    Services = {s1}
    Plain = {u1}
    MaxRedirects = 3
    MaxAttempts = 2
    Alternatives <- FewAlternatives
    Directory = directory
    MaxBuilt = 2
    MaxSessions = 3
    None = none
INVARIANTS
    EveryPlaceAndNoOther MailboxesAreTheirOwn
PROPERTY EverySearchEnds
