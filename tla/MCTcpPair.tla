----------------------------- MODULE MCTcpPair ------------------------------
EXTENDS TcpPair
NoData == [x \in EndPoint |-> 0]
TwoOneWay == [x \in EndPoint |-> IF x = "A" THEN 2 ELSE 0]
ThreeOneWay == [x \in EndPoint |-> IF x = "A" THEN 3 ELSE 0]
=============================================================================
