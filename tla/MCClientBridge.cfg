SPECIFICATION SafetySpec
CONSTANTS
    s1 = s1
    s2 = s2
    k1 = k1
    k2 = k2
    Sessions = {s1, s2}
    NoSession = NoSession
    Stallable = {}
    MaxFrames <- TwoThenOne
    Calls <- MCCalls
    Ids = {k1, k2}
    ReadAs <- MCReadAs
    NoCall = NoCall
    EventsCap = 1
    MaxEvents = 0
VIEW SafetyView
INVARIANTS
    TypeOK
    OwnersConnected
    EntriesAwaited
    OneAnswerPerFrame
