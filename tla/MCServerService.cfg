SPECIFICATION Spec
CONSTANTS
    c1 = c1
    c2 = c2
    k1 = k1
    k2 = k2
    Calls = {c1, c2}
    Ids = {k1, k2}
    ReadAs <- MCReadAs
    NoCall = NoCall
    EventsCap = 2
    MaxEvents = 1
PROPERTIES
    ImplementsService
    EveryRequestReturns
    RouterKeepsRouting
