SPECIFICATION Spec
CONSTANTS
    c1 = c1
    c2 = c2
    c3 = c3
    k1 = k1
    k2 = k2
    Calls = {c1, c2, c3}
    Ids = {k1, k2}
    ReadAs <- MCReadAs
    NoCall = NoCall
    EventsCap = 2
    MaxEvents = 0
SYMMETRY CallSymmetry
INVARIANTS
    TypeOK
    SendNeverBlocks
    NoLeakedEntry
    AnswersMatch
    LostOnlyBehindOrphan
