------------------------------ MODULE TcpPair -------------------------------
(***************************************************************************)
(* Two TCBs and the network between them.  The network is the set of all   *)
(* segments sent so far, from which any may arrive at any time, any number *)
(* of times: loss is never arriving, and reordering and duplication are    *)
(* free.  Deadlines pass at any time, so every timeout may be spurious.    *)
(* Each host moves staged packets to the network as part of its call.      *)
(*                                                                         *)
(* The k-th byte an application writes is k, so the streams can be told    *)
(* apart from any permutation of themselves.                               *)
(***************************************************************************)
EXTENDS Tcb

CONSTANTS
    MaxWrite,    \* endpoint -> bytes its application writes
    Passives,    \* which endpoints may listen() while the others connect(): a set of sets
    MaxOpens,    \* SYNs a listener accepts in a behaviour
    Closers,     \* endpoints whose application close()s
    Aborters,    \* endpoints whose application may abort()
    Marks        \* TRUE if RACK / NewReno may declare losses

EndPoint == {"A", "B"}
Peer(x) == IF x = "A" THEN "B" ELSE "A"

ASSUME TcpPairAssumption ==
    /\ MaxWrite \in [EndPoint -> Nat]
    /\ Passives \subseteq SUBSET EndPoint
    /\ Closers \subseteq EndPoint /\ Aborters \subseteq EndPoint
    /\ MaxOpens \in Nat /\ Marks \in BOOLEAN

VARIABLES
    tcb,       \* the TCBs
    net,       \* endpoint -> the segments sent to it
    written,   \* endpoint -> how many bytes send() accepted
    got,       \* endpoint -> the bytes recv() returned
    opens,     \* SYNs accepted by listeners
    gaveUp     \* an endpoint aborted or reached a retry limit

vars == <<tcb, net, written, got, opens, gaveUp>>

\* A connection accepted later has another initial sequence number.
Iss(x) == IF x = "A" THEN 1 ELSE 21
PassiveIss == 41 + 20 * opens

Becomes(x, d) ==
    /\ tcb' = [tcb EXCEPT ![x] = [d EXCEPT !.tx = <<>>]]
    /\ net' = [net EXCEPT ![Peer(x)] = @ \cup { d.tx[i] : i \in DOMAIN d.tx }]

Oracle(x) ==
    [cw : {RTX}, mark : IF Marks THEN {{}, Outstanding(tcb[x].s)} ELSE {{}},
     undo : {FALSE}, tlp : {FALSE}, reo : {FALSE}, oow : {TRUE}]

\* After the first call of each application: connect() or listen().
Opened(x, passive) ==
    IF x \in passive THEN Listen(NewTcb(Iss(x)), Iss(x)) ELSE Connect(NewTcb(Iss(x)), Iss(x))

Init ==
    /\ \E passive \in Passives :
         LET open == [x \in EndPoint |-> Opened(x, passive)]
         IN  /\ tcb = [x \in EndPoint |-> [open[x] EXCEPT !.tx = <<>>]]
             /\ net = [x \in EndPoint |-> { open[Peer(x)].tx[i] : i \in DOMAIN open[Peer(x)].tx }]
    /\ written = [x \in EndPoint |-> 0]
    /\ got = [x \in EndPoint |-> <<>>]
    /\ opens = 0
    /\ gaveUp = FALSE

Write(x) ==
    /\ SendRoom(tcb[x]) > 0 /\ written[x] < MaxWrite[x]
    /\ Becomes(x, Send(tcb[x], <<written[x] + 1>>))
    /\ written' = [written EXCEPT ![x] = @ + 1]
    /\ UNCHANGED <<got, opens, gaveUp>>

Read(x) ==
    /\ RecvBytes(tcb[x], 1) # <<>>
    /\ Becomes(x, Recv(tcb[x], 1))
    /\ got' = [got EXCEPT ![x] = @ \o RecvBytes(tcb[x], 1)]
    /\ UNCHANGED <<written, opens, gaveUp>>

\* The application closes when it has written all it wants to.
CloseCall(x) ==
    /\ x \in Closers /\ written[x] = MaxWrite[x]
    /\ tcb[x].k.state \in {"SynRcvd", "Established", "CloseWait"}
    /\ \E o \in Oracle(x) : Becomes(x, Close(tcb[x], Iss(x), o))
    /\ UNCHANGED <<written, got, opens, gaveUp>>

AbortCall(x) ==
    /\ x \in Aborters /\ tcb[x].k.state \notin {"Closed", "Listen"}
    /\ Becomes(x, Abort(tcb[x]))
    /\ gaveUp' = TRUE
    /\ UNCHANGED <<written, got, opens>>

CountAccept(x) ==
    opens' = opens + Bit(tcb[x].k.state = "Listen" /\ tcb'[x].k.state # "Listen")

Deliver(x, seg) ==
    /\ tcb[x].k.state # "Closed"
    /\ \E o \in Oracle(x) : Becomes(x, InjectSegment(tcb[x], seg, Iss(x), PassiveIss, o))
    /\ CountAccept(x) /\ opens' <= MaxOpens
    /\ UNCHANGED <<written, got, gaveUp>>

TickCall(x) ==
    /\ \E due \in SUBSET tcb[x].tm, o \in Oracle(x) :
         Becomes(x, Tick(tcb[x], due, Iss(x), o))
    /\ gaveUp' = (gaveUp \/ (tcb'[x].k.error /\ ~tcb[x].k.error)
                         \/ (tcb'[x].k.state = "Listen" /\ tcb[x].k.state # "Listen"))
    /\ UNCHANGED <<written, got, opens>>

Next ==
    \E x \in EndPoint :
        \/ Write(x)
        \/ Read(x)
        \/ CloseCall(x)
        \/ AbortCall(x)
        \/ \E seg \in net[x] : Deliver(x, seg)
        \/ TickCall(x)

Spec == Init /\ [][Next]_vars

-----------------------------------------------------------------------------
\* x and its peer are the two ends of one connection: each took the other's
\* SYN, and neither was torn down with an error.
Joined(x) ==
    LET p == Peer(x)
    IN  /\ tcb[x].r.irs = tcb[p].s.iss /\ tcb[p].r.irs = tcb[x].s.iss
        /\ ~tcb[x].k.error /\ ~tcb[p].k.error

\* Bytes x took from its peer in order: read by the application or waiting.
Received(x) == got[x] \o tcb[x].r.recv_ring

\* End to end, whatever the network does: what one application reads is what
\* the other wrote, in order, from the first byte, nothing twice.
StreamsIntact ==
    \A x \in EndPoint :
        /\ Len(Received(x)) <= written[Peer(x)]
        /\ \A i \in DOMAIN Received(x) : Received(x)[i] = i

\* recv() reports the end of the stream (ConnectionClosed) only when the other
\* application closed and this one has read every byte it wrote.
EofIsEndOfStream ==
    \A x \in EndPoint :
        RecvEnd(tcb[x]) /\ tcb[x].r.irs # 0 =>
            /\ written[Peer(x)] = MaxWrite[Peer(x)]
            /\ Len(got[x]) = written[Peer(x)]

\* What the sender takes for acknowledged and drops from its send ring, the
\* receiver has taken; what it takes for SACKed, the receiver holds.
AckedIsReceived ==
    \A x \in EndPoint : Joined(x) =>
        LET s == tcb[x].s
            r == tcb[Peer(x)].r
        IN  s.snd_una <= r.rcv_nxt /\ \A u \in s.sacked : u < r.rcv_nxt \/ u \in Held(r)

\* The sender never has more outstanding than the receiver has room for: no
\* text it sends is trimmed on arrival (a FIN needs no room).
WindowHonoured ==
    \A x \in EndPoint : Joined(x) =>
        LET s == tcb[x].s
            r == tcb[Peer(x)].r
        IN  s.snd_nxt - Bit(s.fin_sent) <= r.rcv_nxt + Free(r)

\* A side in FIN_WAIT_2 or TIME_WAIT, or closed cleanly, knows its own stream
\* arrived: the peer's TCB took every byte it wrote and the FIN after them,
\* whichever of the two FINs and of their ACKs came first.
CleanEndDelivered ==
    \A x \in EndPoint :
        /\ tcb[x].k.state \in {"FinWait2", "TimeWait", "Closed"}
        /\ Joined(x)
        => tcb[Peer(x)].r.eof /\ Len(Received(Peer(x))) = written[x]

\* Old duplicates, reordering and spurious timeouts never reset a connection:
\* an error needs an abort() or an exhausted retry budget somewhere.
NoSpuriousReset == (\E x \in EndPoint : tcb[x].k.error) => gaveUp
=============================================================================
