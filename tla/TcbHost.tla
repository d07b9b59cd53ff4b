------------------------------ MODULE TcbHost -------------------------------
(***************************************************************************)
(* One TCB, the host that drives it and a peer that may send anything: the *)
(* host makes the public calls in any order, drains the egress ring when   *)
(* it likes and may pause it; the peer and the network produce segments of *)
(* every combination of flags the code tells apart, with sequence,         *)
(* acknowledgment and window fields in and around its windows.             *)
(*                                                                         *)
(* Of a packet waiting in the egress ring only its class is kept.          *)
(***************************************************************************)
EXTENDS Tcb

CONSTANTS
    Iss, Irs,        \* initial sequence numbers of the TCB and of the peer
    MaxWrite,        \* units the application writes in a connection
    MaxPeer,         \* highest offset from Irs the peer puts in SEG.SEQ
    PeerControl,     \* TRUE if the peer sends RSTs, FINs without ACK, and SYNs at any time
    PeerText,        \* TRUE if the peer's segments may carry text
    StrayAcks,       \* TRUE if the peer's ACKs may fall outside SND.UNA .. SND.NXT
    Windows,         \* the windows the peer advertises
    SackBlocks,      \* TRUE if the peer sends SACK blocks
    Credits,         \* what congestion control may admit
    MarksLoss,       \* TRUE if RACK / NewReno may declare losses
    Probes,          \* TRUE if tail-loss probes may be eligible
    Opens,           \* which opens the host makes: subset of {"connect", "listen"}
    Pauses           \* TRUE if the host pauses egress

ASSUME TcbHostAssumption ==
    /\ Iss \in Nat \ {0} /\ Irs \in Nat \ {0}
    /\ MaxWrite \in Nat /\ MaxPeer \in Nat
    /\ Windows \subseteq Nat /\ Credits \subseteq Nat
    /\ PeerControl \in BOOLEAN /\ PeerText \in BOOLEAN /\ StrayAcks \in BOOLEAN
    /\ SackBlocks \in BOOLEAN /\ MarksLoss \in BOOLEAN /\ Probes \in BOOLEAN /\ Pauses \in BOOLEAN

VARIABLE c    \* the TCB

vars == <<c>>

\* Of a staged packet, whether it is a SYN or a RST.
Packet == [flags : SUBSET {"SYN", "RST"}]
Class(p) == [flags |-> p.flags \cap {"SYN", "RST"}]

Becomes(d) == c' = [d EXCEPT !.tx = [i \in DOMAIN @ |-> Class(@[i])]]

\* What congestion control, RACK and the rate limiter may decide in a call.
\* A declared loss starts a recovery, in which no tail-loss probe is eligible.
Tlps == IF Probes THEN BOOLEAN ELSE {FALSE}
Output ==
    [cw : Credits, mark : {{}}, undo : {FALSE}, tlp : Tlps, reo : {FALSE}, oow : {TRUE}]
Silent ==
    [cw : Credits, mark : {{}}, undo : {FALSE}, tlp : {FALSE}, reo : {FALSE}, oow : {FALSE}]
Losses ==
    [cw : Credits, mark : {{DataUna(c.s)}, Outstanding(c.s)}, undo : {FALSE},
     tlp : {FALSE}, reo : BOOLEAN, oow : {TRUE}] \cup
    [cw : Credits, mark : {{}}, undo : {FALSE}, tlp : {FALSE}, reo : {TRUE}, oow : {TRUE}] \cup
    [cw : Credits, mark : {{}}, undo : {TRUE}, tlp : Tlps, reo : {FALSE}, oow : {TRUE}]
Recovery == IF MarksLoss /\ Outstanding(c.s) # {} THEN Losses ELSE {}

\* What the peer may send: anything around the edges of the windows.  A field
\* that no branch of the code reads for these flags has one value.
Seqs == Irs .. Irs + MaxPeer
SynSeqs == IF c.k.state \in {"Listen", "SynSent"} THEN {Irs} ELSE Seqs
Acks == c.s.snd_una - Bit(StrayAcks) .. c.s.snd_nxt + Bit(StrayAcks)
AcksIn(states) == IF c.k.state \in states THEN Acks ELSE {c.s.snd_nxt}
Resets ==
    [flags : {{"RST"}}, seq : Seqs, ack : {0}, wnd : {0}, data : {<<>>}, sack : {{}}] \cup
    [flags : {{"RST", "ACK"}}, seq : Seqs, ack : AcksIn({"SynSent"}), wnd : {0}, data : {<<>>}, sack : {{}}]
Unacked ==
    [flags : {{"FIN"}, {"SYN", "FIN"}}, seq : Seqs, ack : {0}, wnd : Windows,
     data : {<<>>}, sack : {{}}]
Syns ==
    [flags : {{"SYN"}}, seq : SynSeqs, ack : {0}, wnd : Windows, data : {<<>>}, sack : {{}}] \cup
    [flags : {{"SYN", "ACK"}}, seq : SynSeqs, ack : AcksIn({"SynSent", "SynRcvd"}),
     wnd : Windows, data : {<<>>}, sack : {{}}]
Texts ==
    [flags : {{"ACK"}, {"ACK", "FIN"}}, seq : Seqs, ack : Acks, wnd : Windows,
     data : {<<>>} \cup IF PeerText THEN { <<b>> : b \in Byte } ELSE {}, sack : {{}}]
Sacks ==
    [flags : {{"ACK"}}, seq : {c.r.rcv_nxt}, ack : c.s.snd_una .. c.s.snd_nxt, wnd : Windows,
     data : {<<>>}, sack : IF SackBlocks THEN { {u} : u \in Outstanding(c.s) } ELSE {}]

Segments ==
    Texts \cup Sacks
    \cup (IF PeerControl THEN Resets \cup Unacked ELSE {})
    \cup (IF PeerControl \/ c.k.state \notin Synchronized THEN Syns ELSE {})

Init == c = NewTcb(Iss)

OpenCall ==
    \/ "connect" \in Opens /\ c.k.state = "Closed" /\ Becomes(Connect(c, Iss))
    \/ "listen" \in Opens /\ c.k.state \in {"Closed", "TimeWait"} /\ Becomes(Listen(c, Iss))

Written == c.s.snd_una - c.s.iss + Len(c.s.send_ring)

SendCall(b) ==
    /\ c.k.state \in CanSend /\ Len(c.s.send_ring) < BUF
    /\ Written <= MaxWrite
    /\ Becomes(Send(c, <<b>>))

RecvCall ==
    /\ RecvBytes(c, 1) # <<>>
    /\ Becomes(Recv(c, 1))

CloseCall == \E o \in Output : c.k.state # "Closed" /\ Becomes(Close(c, Iss, o))

AbortCall == c.k.state # "Closed" /\ Becomes(Abort(c))

PauseCall ==
    \E o \in Output : Pauses /\ Becomes(SetEgressPaused(c, ~c.k.egress_paused, o))

ExtractCall == c.tx # <<>> /\ Becomes(Extract(c))

TickCall ==
    \E due \in SUBSET c.tm :
        \E o \in Output \cup (IF "rack" \in due THEN Recovery ELSE {}) :
            Becomes(Tick(c, due, Iss, o))

\* Losses are detected by an ACK of something outstanding or a duplicate ACK.
InjectCall ==
    \E seg \in Segments :
        \E o \in Output \cup Silent
                 \cup (IF seg.ack \in c.s.snd_una .. c.s.snd_nxt THEN Recovery ELSE {}) :
            c.k.state # "Closed" /\ Becomes(InjectSegment(c, seg, Iss, Iss, o))

Next ==
    \/ OpenCall
    \/ \E b \in Byte : SendCall(b)
    \/ RecvCall
    \/ CloseCall
    \/ AbortCall
    \/ PauseCall
    \/ ExtractCall
    \/ TickCall
    \/ InjectCall

Spec == Init /\ [][Next]_vars

-----------------------------------------------------------------------------
TypeOK ==
    /\ c.k \in Control
    /\ c.s \in SendState
    /\ c.r \in RecvState
    /\ c.w \in WindowState
    /\ c.tm \subseteq Timer
    /\ c.tx \in Seq(Packet)

\* debug_validate_invariants holds between any two calls.  Of the send half:
\* the scoreboard lies in what is outstanding, whatever was SACKed, marked
\* lost, retransmitted or acknowledged late.
SendHalfValid == SendValid(c)

\* Of the receive half: parked text lies in the window and past a gap, a FIN is
\* held only ahead of RCV.NXT and only until the stream ended, even when the
\* peer's segments disagree on where it ends.
RecvHalfValid == RecvValid(c)

\* Nothing outgrows its fixed storage, whatever is queued, parked or staged.
CapacityKept ==
    /\ Len(c.tx) <= TXQ
    /\ RtxRoom(c.s) >= 0
    /\ Len(c.s.send_ring) <= BUF /\ Len(c.r.recv_ring) <= BUF

\* A timer is armed exactly when its work exists: the RTO while sequence space
\* is unacknowledged (so debug_check_liveness holds, and the host is never
\* woken for nothing), persist only for data stuck with nothing in flight,
\* TIME_WAIT and FIN_WAIT_2 expiry in their states, the ACK deadline while an
\* ACK is owed, keepalive whenever the connection may fall idle, the user
\* timeout only while something is left to send, none in CLOSED and LISTEN.
\* Keepalive is never armed in TIME_WAIT: enter_time_wait disarms it and every
\* re-arming asks keepalive_applies.  The comment in run_timers
\* ("Segments the peer sent during TIME_WAIT may have re-armed keepalive",
\* timers.rs:16) allows for what the code rules out.
TimersMatchWork ==
    /\ "rto" \in c.tm <=> c.s.snd_una # c.s.snd_nxt
    /\ {"tlp", "rack"} \cap c.tm # {} => c.s.snd_una # c.s.snd_nxt
    /\ "persist" \in c.tm => UnsentBytes(c.s) > 0 /\ c.s.snd_una = c.s.snd_nxt
    /\ "time_wait" \in c.tm <=> c.k.state = "TimeWait"
    /\ "fin_wait2" \in c.tm <=> c.k.state = "FinWait2" /\ FIN_WAIT2_TIMEOUT
    /\ "ack" \in c.tm <=> c.k.pending_ack
    /\ "keepalive" \in c.tm => c.k.state \in KeepaliveApplies
    /\ KEEPALIVE /\ c.k.state \in {"Established", "CloseWait", "FinWait2"} => "keepalive" \in c.tm
    /\ "user" \in c.tm => HasSendWork(c.s) /\ c.k.state \in Sending
    /\ c.k.state \in {"Closed", "Listen"} => c.tm = {}

\* Received sequence space is acknowledged or an ACK of it is owed and timed,
\* even while the egress ring is full or paused.
AckOwed ==
    c.k.state \in Synchronized /\ c.r.last_ack_sent < c.r.rcv_nxt =>
        c.k.pending_ack /\ "ack" \in c.tm

\* The state says of the two FINs what happened to them: the peer's was
\* consumed, ours was acknowledged, exactly in the states that mean so,
\* whichever came first and whatever else the segment carried.
FinsMatchState ==
    c.k.state \in Synchronized =>
        /\ c.r.eof <=> c.k.state \in {"CloseWait", "LastAck", "Closing", "TimeWait"}
        /\ FinAcked(c.s) <=> c.k.state \in {"FinWait2", "TimeWait"}

\* A connection that is CLOSED without an error has the peer's whole stream
\* (close_clean: "its byte stream is complete"), so recv() may end with EOF.
CleanCloseIsComplete ==
    c.k.state = "Closed" /\ ~c.k.error /\ c.r.irs # 0 => c.r.eof

\* Our FIN follows everything the application queued before close().
FinAfterData ==
    c.s.fin_sent /\ c.s.snd_una # c.s.snd_nxt =>
        DataUna(c.s) + Len(c.s.send_ring) = c.s.fin_seq

\* debug_transition_allowed: a call moves the state machine only along its edges.
TransitionsAllowed == [][TransitionAllowed(c.k.state, c'.k.state)]_vars

\* While paused, the TCB stages only SYN and RST segments.
PauseRespected ==
    [][c.k.egress_paused /\ c'.k.egress_paused =>
         \A i \in Len(c.tx) + 1 .. Len(c'.tx) : c'.tx[i].flags # {}]_vars

\* A tick leaves data stuck with nothing in flight only with its persist timer
\* (debug_check_liveness: "data queued with nothing in flight and no persist timer").
StuckDataIsTimed ==
    \A due \in SUBSET c.tm, o \in Output :
        LET d == Tick(c, due, Iss, o)
        IN  /\ d.k.state \in CanSend
            /\ UnsentBytes(d.s) > 0 /\ d.s.snd_una = d.s.snd_nxt
            => "persist" \in d.tm
=============================================================================
