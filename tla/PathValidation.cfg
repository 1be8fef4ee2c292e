SPECIFICATION ValidationSpec
CONSTANTS
    MAX_LEN = 4
    Worlds <- MCWorlds
    Bundles <- MCBundles
    MAX_TRUST_ANCHORS = 3
    BYTE_BITS = 1
    V6_GROUPS = 4
    MAX_EXTENSION_VALUES = 4
    MAX_ATTRIBUTES_PER_RDN = 2
    DIGESTS = 4
    FILTER_BITS = 3
INVARIANTS
    AcceptsTrustedPath
    RefusesOnlyUntrusted
    AcceptedChainIsValid
    ValidChainIsAccepted
    StoreFindsIssuer
PROPERTIES
    SearchEnds
CHECK_DEADLOCK FALSE
