SPECIFICATION LiveSpec
CONSTANTS
    Byte = {1, 2}
    BUF = 1
    MSS = 1
    OOO_MAX_RANGES = 1
    RTX = 2
    GRAIN = 1
    WMAX = 4
    TXQ = 4
    MAX_SYN_RETRIES = 2
    MAX_SYN_RCVD_RETRIES = 2
    MAX_RETRANSMITS = 2
    KEEPALIVE = FALSE
    KEEPALIVE_COUNT = 1
    USER_TIMEOUT = FALSE
    FIN_WAIT2_TIMEOUT = TRUE
    MaxWrite <- TwoEachWay
    Passives = {{"B"}}
    Closers = {"A", "B"}
    MaxOpens = 1
    Aborters = {}
    Marks = FALSE
    MaxLosses = 1
    CloseEarly = FALSE
PROPERTIES
    BothFinish
