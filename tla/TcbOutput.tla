----------------------------- MODULE TcbOutput ------------------------------
(* Transmission: src/tcb/output.rs.                                        *)
EXTENDS TcbState

\* Mutant: output looks only at the ring.
EgressRoomPaused(c) == TXQ - Len(c.tx)

\* Segments that may still be staged: none while the host paused egress.
EgressRoom(c) == IF c.k.egress_paused THEN 0 ELSE TXQ - Len(c.tx)
EgressFull(c) == EgressRoom(c) = 0

\* Only a pure ACK and a bare FIN have room for SACK blocks: a data segment is
\* full-sized, and probes and control segments carry none.
Segment(c, flags, seq, ack, data, sack) ==
    [flags |-> flags, seq |-> seq, ack |-> ack, wnd |-> OutboundWindow(c.r, "SYN" \in flags),
     data |-> data, sack |-> sack]

\* A SYN or RST is exempt from the host's pause, never from a full ring.
Emits(c, flags) ==
    Len(c.tx) < TXQ /\ (c.k.egress_paused => flags \cap {"SYN", "RST"} # {})

EmitSegment(c, flags, seq, ack, sack) ==
    IF ~Emits(c, flags) THEN c
    ELSE [c EXCEPT !.tx = Append(@, Segment(c, flags, seq, ack, <<>>, sack)),
                   !.r = IF "ACK" \in flags /\ "RST" \notin flags
                         THEN NoteAckSent(@, "SYN" \in flags) ELSE @]

EmitSyn(c) == EmitSegment(c, {"SYN"}, c.s.iss, 0, {})
EmitSynAck(c) == EmitSegment(c, {"SYN", "ACK"}, c.s.iss, c.r.rcv_nxt, {})
EmitProbe(c, seq) == EmitSegment(c, {"ACK"}, seq, c.r.rcv_nxt, {})
EmitRstAck(c) == EmitSegment(c, {"RST", "ACK"}, c.s.snd_nxt, c.r.rcv_nxt, {})

\* A rate-limited RST to the sender of seg.
EmitRstTo(c, seg, o) ==
    IF o.oow THEN EmitSegment(c, {"RST"}, seg.ack, 0, {}) ELSE c

\* The ACK that was owed rides on a segment just staged.
AckDone(c) ==
    [c EXCEPT !.k.pending_ack = FALSE, !.k.delayed_ack_count = 0, !.tm = @ \ {"ack"}]

\* Mutant: an ACK that finds the ring full is forgotten.
SendPureAckForgets(c) ==
    IF EgressFull(c) THEN c
    ELSE AckDone(EmitSegment(c, {"ACK"}, c.s.snd_nxt, c.r.rcv_nxt, Held(c.r)))

SendPureAck(c) ==
    IF EgressFull(c) THEN [Arm(c, {"ack"}) EXCEPT !.k.pending_ack = TRUE]
    ELSE AckDone(EmitSegment(c, {"ACK"}, c.s.snd_nxt, c.r.rcv_nxt, Held(c.r)))

SendOowAck(c, o) == IF o.oow THEN SendPureAck(c) ELSE c

-----------------------------------------------------------------------------
FinOwed(c) == c.k.state \in {"FinWait1", "Closing", "LastAck"} /\ ~c.s.fin_sent

MaybeArmTlp(c, o) ==
    IF o.tlp /\ c.s.snd_una # c.s.snd_nxt /\ c.k.state \in Sending
    THEN Arm(c, {"tlp"}) ELSE Disarm(c, {"tlp"})

\* The records of s that start in us are staged, and s becomes the send half.
EmitRecords(c, s, us, o) ==
    LET Out(u) == Segment(c, IF FinOf(s, u) THEN {"ACK", "FIN"} ELSE {"ACK"},
                          u, c.r.rcv_nxt, TextOf(s, u),
                          IF TextOf(s, u) = <<>> THEN Held(c.r) ELSE {})
        q  == Ascending(us)
        c1 == AckDone(Arm([c EXCEPT !.s = s, !.r = NoteAckSent(@, FALSE),
                                    !.tx = @ \o [i \in DOMAIN q |-> Out(q[i])]],
                          {"rto"}))
    IN  IF us = {} THEN c
        ELSE IF s.snd_nxt # c.s.snd_nxt THEN MaybeArmTlp(c1, o) ELSE c1

\* One new data unit (and the FIN, if it is owed and the unit is the last).
EmitOneNew(c, o) ==
    LET s == EmitNew(c.s, 1, FinOwed(c) /\ UnsentBytes(c.s) = 1)
    IN  EmitRecords(c, s, {c.s.snd_nxt}, o)

\* Mutants: persist only for a closed window; persist not once close() was called.
UpdatePersistClosedWindow(c) ==
    IF UnsentBytes(c.s) > 0 /\ c.s.snd_una = c.s.snd_nxt /\ UsableWindow(c.s, c.w) = 0
    THEN Arm(c, {"persist"}) ELSE Disarm(c, {"persist"})
UpdatePersistBeforeClose(c) ==
    IF UnsentBytes(c.s) > 0 /\ c.s.snd_una = c.s.snd_nxt /\ c.k.state \in CanSend
    THEN Arm(c, {"persist"}) ELSE Disarm(c, {"persist"})

UpdatePersist(c) ==
    IF /\ UnsentBytes(c.s) > 0
       /\ c.s.snd_una = c.s.snd_nxt
       /\ c.k.state \in Sending
    THEN Arm(c, {"persist"}) ELSE Disarm(c, {"persist"})

\* The records retransmitted and those that are new in s.
EmitSent(c, s, resent, o) ==
    EmitRecords(c, s, resent \cup Heads(s, c.s.snd_nxt .. s.snd_nxt - 1), o)

MaybeSendData(c, o) ==
    IF c.k.state \notin Sending THEN c
    ELSE UpdatePersist(EmitSent(c, SendData(c.s, c.w, EgressRoom(c), o.cw, FinOwed(c)),
                                ToResend(c.s, EgressRoom(c), o.cw), o))

\* recv() freed space: announce a window that doubled and grew by two segments.
MaybeSendWindowUpdate(c) ==
    LET cur == CurrentWindow(c.r)
        new == OutboundWindow(c.r, FALSE)
    IN  IF c.k.state \in CanRecv /\ new >= cur + 2 * MSS /\ new >= 2 * cur
        THEN SendPureAck(c) ELSE c
=============================================================================
