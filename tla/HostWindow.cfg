SPECIFICATION Spec
CONSTANTS
    Byte = {"b"}
    BUF = 2
    MSS = 1
    OOO_MAX_RANGES = 1
    RTX = 2
    GRAIN = 1
    WMAX = 4
    TXQ = 1
    MAX_SYN_RETRIES = 0
    MAX_SYN_RCVD_RETRIES = 0
    MAX_RETRANSMITS = 1
    KEEPALIVE = FALSE
    KEEPALIVE_COUNT = 1
    USER_TIMEOUT = TRUE
    FIN_WAIT2_TIMEOUT = TRUE
    Iss = 3
    Irs = 3
    MaxWrite = 2
    MaxPeer = 1
    PeerControl = FALSE
    PeerText = FALSE
    StrayAcks = TRUE
    Windows = {0, 1}
    SackBlocks = FALSE
    Credits = {0, 1}
    MarksLoss = FALSE
    Probes = FALSE
    Opens = {"connect"}
    Pauses = FALSE
INVARIANTS
    SendHalfValid
    TimersMatchWork
    StuckDataIsTimed
