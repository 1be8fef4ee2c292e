SPECIFICATION FairSpec
CONSTANTS
    Configs <- MCRetryConfigs
    Hellos <- MCHellos
    Inputs <- MCInputs
    MaxEarlyData = 2
    MaxPostHandshake = 1
    AlpnsByBytes <- MCAlpns
INVARIANTS
    HonestClientIsAnswered
CHECK_DEADLOCK FALSE
