SPECIFICATION Spec
CONSTANTS
    s1 = s1
    s2 = s2
    k1 = k1
    k2 = k2
    Sessions = {s1}
    NoSession = NoSession
    Stallable = {}
    MaxFrames <- OneEach
    Calls <- MCCalls
    Ids = {k1}
    ReadAs <- MCReadAs
    NoCall = NoCall
    EventsCap = 1
    MaxEvents = 0
PROPERTIES
    WsRequestSettles
