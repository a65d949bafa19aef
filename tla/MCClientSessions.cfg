SPECIFICATION Spec
CONSTANTS
    s1 = s1
    s2 = s2
    k1 = k1
    k2 = k2
    Sessions = {s1, s2}
    NoSession = NoSession
    Stallable = {s1, s2}
    MaxFrames <- OneThenNone
    Calls <- MCCalls
    Ids = {k1}
    ReadAs <- MCReadAs
    NoCall = NoCall
    EventsCap = 1
    MaxEvents = 3
VIEW EventsView
INVARIANTS
    WriteExclusive
    EventsWithoutGaps
PROPERTIES
    GoneIsSwept
    RouterFreeUnlessStalled
