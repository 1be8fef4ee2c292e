SPECIFICATION FairSpec
CONSTANTS
    Pairs <- MCPairs
    Tickets <- MCTickets
    MaxEarlyData = 2
    AlpnsByBytes <- MCAlpns
INVARIANTS
    Agreement
    KeysReadyInTime
    EarlyDataEndsTogether
PROPERTIES
    PairsComplete
CHECK_DEADLOCK FALSE
