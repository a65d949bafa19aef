SPECIFICATION Spec
CONSTANTS
    Radix = 128
    NaN = NaN
    OpcodeNamespaceMin = 32
    OpcodeNamespaceMax = 47
    OpcodeRequestMin = 1
    OpcodeRequestMax = 13
    OpcodeEventMin = 14
    OpcodeEventMax = 16
    Messages <- MCMessages
    Cuts <- MCCuts
    Results <- MCResults
    Events <- MCEvents
INVARIANTS
    ReachesItsEngine
    RequestsSurvive
    PartsRefused
    AnswersFound
    ErrorsNeverReadAsDone
    AnswersUnderstood
