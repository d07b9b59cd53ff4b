SPECIFICATION LiveSpec
CONSTANTS
    Byte = {1, 2}
    BUF = 2
    MSS = 1
    OOO_MAX_RANGES = 1
    RTX = 2
    GRAIN = 1
    WMAX = 4
    TXQ = 4
    MAX_SYN_RETRIES = 3
    MAX_SYN_RCVD_RETRIES = 3
    MAX_RETRANSMITS = 4
    KEEPALIVE = FALSE
    KEEPALIVE_COUNT = 1
    USER_TIMEOUT = FALSE
    FIN_WAIT2_TIMEOUT = TRUE
    MaxWrite <- OneWay
    Passives = {{"B"}, {}}
    Closers = {"A", "B"}
    MaxOpens = 1
    Aborters = {}
    Marks = FALSE
    MaxLosses = 3
    CloseEarly = FALSE
INVARIANTS
    CleanEndDelivered
PROPERTIES
    BothFinish
