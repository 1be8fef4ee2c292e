SPECIFICATION FairSpec
CONSTANTS
    Configs <- MCConfigs
    Tickets <- MCTickets
    Inputs <- MCInputs
    SuiteLists <- MCSuiteLists
    MaxPostHandshake = 1
INVARIANTS
    DoneIsAuthenticated
    AnswerFitsLastHello
    EarlyDataOutcome
    SentWithinLayout
PROPERTIES
    HandshakeCompletes
CHECK_DEADLOCK FALSE
