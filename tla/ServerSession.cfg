SPECIFICATION FairSpec
CONSTANTS
    Configs <- MCConfigs
    Hellos <- MCHellos
    Inputs <- MCInputs
    MaxEarlyData = 2
    MaxPostHandshake = 1
    AlpnsByBytes <- MCAlpns
INVARIANTS
    DoneIsAuthenticated
    HeldOnlyWhileUsed
    EarlyDataOnTicketTerms
    AnswersBestOffer
    SentWithinLayout
PROPERTIES
    HandshakeCompletes
CHECK_DEADLOCK FALSE
