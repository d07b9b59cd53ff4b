SPECIFICATION AloneSpec
CONSTANTS
    Byte = {"b"}
    BUF = 1
    MSS = 1
    OOO_MAX_RANGES = 1
    RTX = 1
    GRAIN = 1
    WMAX = 4
    TXQ = 1
    MAX_SYN_RETRIES = 0
    MAX_SYN_RCVD_RETRIES = 0
    MAX_RETRANSMITS = 1
    KEEPALIVE = TRUE
    KEEPALIVE_COUNT = 1
    USER_TIMEOUT = FALSE
    FIN_WAIT2_TIMEOUT = TRUE
    Iss = 3
    Irs = 3
    MaxWrite = 1
    MaxPeer = 1
    PeerControl = FALSE
    PeerText = FALSE
    StrayAcks = FALSE
    Windows = {0, 1}
    SackBlocks = FALSE
    Credits = {1}
    MarksLoss = FALSE
    Probes = FALSE
    Opens = {"connect", "listen"}
    Pauses = FALSE
PROPERTIES
    VanishedPeerIsNoticed
