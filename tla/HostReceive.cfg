SPECIFICATION Spec
CONSTANTS
    Byte = {"b"}
    BUF = 2
    MSS = 1
    OOO_MAX_RANGES = 1
    RTX = 1
    GRAIN = 1
    WMAX = 4
    TXQ = 1
    MAX_SYN_RETRIES = 0
    MAX_SYN_RCVD_RETRIES = 0
    MAX_RETRANSMITS = 0
    KEEPALIVE = TRUE
    KEEPALIVE_COUNT = 1
    USER_TIMEOUT = FALSE
    FIN_WAIT2_TIMEOUT = TRUE
    Iss = 3
    Irs = 3
    MaxWrite = 0
    MaxPeer = 3
    PeerControl = FALSE
    PeerText = TRUE
    StrayAcks = FALSE
    Windows = {1}
    SackBlocks = FALSE
    Credits = {1}
    MarksLoss = FALSE
    Probes = FALSE
    Opens = {"connect"}
    Pauses = TRUE
INVARIANTS
    RecvHalfValid
    AckOwed
PROPERTIES
    PauseRespected
