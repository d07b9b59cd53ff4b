--------------------------- MODULE MCTcpPairLive ----------------------------
EXTENDS TcpPairLive
NoData == [x \in EndPoint |-> 0]
OneWay == [x \in EndPoint |-> IF x = "A" THEN 1 ELSE 0]
TwoEachWay == [x \in EndPoint |-> 2]
=============================================================================
