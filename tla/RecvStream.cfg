SPECIFICATION Spec
CONSTANTS
    Byte = {"a", "b", "c", "d", "e", "f", "g"}
    BUF = 6
    MSS = 2
    OOO_MAX_RANGES = 2
    RTX = 1
    GRAIN = 2
    WMAX = 2
    Irs = 7
    Stream <- MCStream
    MaxSeg = 3
INVARIANTS
    TypeOK
    StreamIntegrity
    EofComplete
    ParkedValid
    RangesBounded
    EdgeBacked
    OfferKept
PROPERTIES
    NoReneging
