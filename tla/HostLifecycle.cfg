SPECIFICATION Spec
CONSTANTS
    Byte = {"b"}
    BUF = 1
    MSS = 1
    OOO_MAX_RANGES = 1
    RTX = 1
    GRAIN = 1
    WMAX = 4
    TXQ = 1
    MAX_SYN_RETRIES = 1
    MAX_SYN_RCVD_RETRIES = 1
    MAX_RETRANSMITS = 0
    KEEPALIVE = TRUE
    KEEPALIVE_COUNT = 1
    USER_TIMEOUT = TRUE
    FIN_WAIT2_TIMEOUT = TRUE
    Iss = 3
    Irs = 3
    MaxWrite = 0
    MaxPeer = 2
    PeerControl = TRUE
    PeerText = TRUE
    StrayAcks = TRUE
    Windows = {1}
    SackBlocks = FALSE
    Credits = {1}
    MarksLoss = FALSE
    Probes = FALSE
    Opens = {"connect", "listen"}
    Pauses = FALSE
INVARIANTS
    TypeOK
    TimersMatchWork
    FinsMatchState
    CleanCloseIsComplete
PROPERTIES
    TransitionsAllowed
