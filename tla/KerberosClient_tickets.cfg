SPECIFICATION Spec
CONSTANTS
    north = north
    south = south
    west = west
    Realms = {north, south, west}
    Service = service
    OtherService = other
    MaxReferrals = 2
    Setups <- AllSetups
    None = none
INVARIANTS
    TicketsAreRight GoodAccountGetsTicket FewMessages
