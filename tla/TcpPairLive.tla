---------------------------- MODULE TcpPairLive -----------------------------
(***************************************************************************)
(* Two TCBs whose network loses only a bounded number of segments, driven  *)
(* by hosts that do what the API asks of them.  A segment in transit is    *)
(* delivered or lost; segments may be reordered.  Applications write, read *)
(* and close as soon as they can, and deadlines are longer than that:      *)
(* time passes only when nothing else is left to do.  The delayed ACK, the *)
(* retransmission, handshake and persist timeouts (40 ms to seconds) pass  *)
(* before FIN_WAIT_2's and TIME_WAIT's 60 s.                               *)
(***************************************************************************)
EXTENDS TcpPair

CONSTANTS
    MaxLosses,      \* segments the network may lose
    CloseEarly      \* TRUE if a close() may come in SYN_RCVD

VARIABLES
    losses,   \* segments lost
    replied,  \* endpoints that used their reply to unacceptable segments
    beat      \* flips with every step but a loss

liveVars == <<vars, losses, replied, beat>>

ASSUME LiveAssumption == MaxLosses \in Nat /\ CloseEarly \in BOOLEAN

LiveInit == Init /\ losses = 0 /\ replied = {} /\ beat = 0

Beat == beat' = 1 - beat

CanWrite(x) == SendRoom(tcb[x]) > 0 /\ written[x] < MaxWrite[x]
CanRead(x) == RecvBytes(tcb[x], 1) # <<>>
CanClose(x) ==
    /\ x \in Closers /\ written[x] = MaxWrite[x]
    /\ \/ tcb[x].k.state \in {"Established", "CloseWait"}
       \/ tcb[x].k.state = "SynRcvd" /\ CloseEarly

AppStep(x) == Write(x) \/ Read(x) \/ (CanClose(x) /\ CloseCall(x))

\* No loss is declared but by the retransmission timeout.
Quiet(x) == CHOOSE o \in Oracle(x) : o.mark = {}

InTransit(x) == net[x] # {} /\ tcb[x].k.state # "Closed"

\* oow_allowed: one reply to an unacceptable segment per OOW_RATELIMIT_MS.
Taken(x, seg, reply) ==
    InjectSegment(tcb[x], seg, Iss(x), PassiveIss, [Quiet(x) EXCEPT !.oow = reply])
TakenFrom(x, seg, d, silent) ==
    /\ tcb' = [tcb EXCEPT ![x] = [d EXCEPT !.tx = <<>>]]
    /\ net' = [net EXCEPT ![x] = @ \ {seg},
                          ![Peer(x)] = @ \cup { d.tx[i] : i \in DOMAIN d.tx }]
    /\ replied' = IF d = silent THEN replied ELSE replied \cup {x}
Arrive(x, seg) ==
    /\ TakenFrom(x, seg, Taken(x, seg, x \notin replied), Taken(x, seg, FALSE))
    /\ CountAccept(x)
    /\ UNCHANGED <<written, got, gaveUp>>

Lose(x, seg) ==
    /\ losses < MaxLosses
    /\ losses' = losses + 1
    /\ net' = [net EXCEPT ![x] = @ \ {seg}]
    /\ UNCHANGED <<tcb, written, got, opens, gaveUp, replied, beat>>

\* Both hosts tick: with their short deadlines passed or, when those are done
\* and a tick has nothing to send, with all of them.
TickAt(x, due) == Tick(tcb[x], due, Iss(x), Quiet(x))
Short(x) == tcb[x].tm \ {"fin_wait2", "time_wait"}
Idle == \A x \in EndPoint : Short(x) = {} /\ TickAt(x, {}) = tcb[x]
Ticked(d) ==
    /\ tcb' = [x \in EndPoint |-> [d[x] EXCEPT !.tx = <<>>]]
    /\ net' = [x \in EndPoint |-> net[x] \cup { d[Peer(x)].tx[i] : i \in DOMAIN d[Peer(x)].tx }]
TimePasses ==
    /\ \A x \in EndPoint : ~InTransit(x) /\ ~CanWrite(x) /\ ~CanRead(x) /\ ~CanClose(x)
    /\ Ticked([x \in EndPoint |-> TickAt(x, IF Idle THEN tcb[x].tm ELSE Short(x))])
    /\ replied' = {}
    /\ UNCHANGED <<written, got, opens, gaveUp>>

LiveNext ==
    \/ \E x \in EndPoint : \E seg \in net[x] : Lose(x, seg)
    \/ /\ Beat /\ UNCHANGED losses
       /\ \/ \E x \in EndPoint : AppStep(x) /\ UNCHANGED replied
          \/ \E x \in EndPoint : \E seg \in net[x] : Arrive(x, seg)
          \/ TimePasses

LiveSpec == LiveInit /\ [][LiveNext]_liveVars /\ WF_beat(Beat)

-----------------------------------------------------------------------------
\* Losses within the retry budgets are overcome: both applications' streams
\* arrive whole and both TCBs end CLOSED without an error.
BothFinish ==
    <>(\A x \in EndPoint :
          /\ tcb[x].k.state = "Closed" /\ ~tcb[x].k.error
          /\ Len(Received(x)) = written[Peer(x)] /\ written[x] = MaxWrite[x])
=============================================================================
