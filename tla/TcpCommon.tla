------------------------------ MODULE TcpCommon ------------------------------
(* Constants and small helpers shared by the modules of the project.       *)
EXTENDS Integers, Sequences, FiniteSets

CONSTANTS
    Byte,            \* what one unit of stream data may be
    BUF,             \* capacity of the send ring and of the receive ring
    MSS,             \* units a segment carries at most (local_mss)
    OOO_MAX_RANGES,  \* disjoint out-of-order ranges that can be tracked
    RTX,             \* records the retransmission queue can hold
    GRAIN,           \* bytes per unit of the window field (2^rcv_wscale)
    WMAX             \* largest value of the window field (u16::MAX)

ASSUME CapacityAssumption ==
    /\ BUF \in Nat \ {0}
    /\ MSS \in Nat \ {0}
    /\ OOO_MAX_RANGES \in Nat \ {0}
    /\ RTX \in Nat \ {0}
    /\ GRAIN \in Nat \ {0}
    /\ WMAX \in Nat \ {0}

Lesser(a, b) == IF a < b THEN a ELSE b
Greater(a, b) == IF a > b THEN a ELSE b
Bit(b) == IF b THEN 1 ELSE 0
=============================================================================
