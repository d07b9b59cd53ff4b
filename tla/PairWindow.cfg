SPECIFICATION Spec
CONSTANTS
    Byte = {1, 2, 3}
    BUF = 1
    MSS = 1
    OOO_MAX_RANGES = 1
    RTX = 2
    GRAIN = 1
    WMAX = 4
    TXQ = 4
    MAX_SYN_RETRIES = 0
    MAX_SYN_RCVD_RETRIES = 0
    MAX_RETRANSMITS = 1
    KEEPALIVE = FALSE
    KEEPALIVE_COUNT = 1
    USER_TIMEOUT = FALSE
    FIN_WAIT2_TIMEOUT = FALSE
    MaxWrite <- ThreeOneWay
    Passives = {{"B"}}
    Closers = {"A"}
    MaxOpens = 1
    Aborters = {}
    Marks = TRUE
INVARIANTS
    WindowHonoured
