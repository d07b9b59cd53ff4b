------------------------------ MODULE TcbInput ------------------------------
(* Inbound segments: src/tcb/input.rs and src/tcb/ack.rs.  Timestamps      *)
(* (PAWS), ECN and SYN cookies are not part of this module.                *)
EXTENDS TcbOutput

\* Mutant: an answer takes back one probe.
OnPeerAliveOneProbe(c) ==
    LET c1 == [c EXCEPT !.k.keepalive_probes = @ - 1]
    IN  IF KEEPALIVE /\ c.k.state \in KeepaliveApplies THEN Arm(c1, {"keepalive"}) ELSE c1

OnPeerAlive(c) ==
    LET c1 == [c EXCEPT !.k.keepalive_probes = 0]
    IN  IF KEEPALIVE /\ c.k.state \in KeepaliveApplies THEN Arm(c1, {"keepalive"}) ELSE c1

\* Mutant: keepalive stays armed.
EnterTimeWaitKeepsTimers(c) ==
    Arm(Disarm(WithState(c, "TimeWait"), {"fin_wait2", "user"}), {"time_wait"})

EnterTimeWait(c) ==
    Arm(Disarm(WithState(c, "TimeWait"), {"fin_wait2", "keepalive", "user"}), {"time_wait"})

-----------------------------------------------------------------------------
(* ACK processing: ack.rs *)

\* Mutant: the user timeout outlives the data it was for.
NoteProgressKeepsUser(c) ==
    IF USER_TIMEOUT /\ HasSendWork(c.s) THEN Arm(c, {"user"}) ELSE c

\* note_progress: the USER TIMEOUT runs while there is something to send.
NoteProgress(c) ==
    IF ~USER_TIMEOUT THEN c
    ELSE IF HasSendWork(c.s) THEN Arm(c, {"user"}) ELSE Disarm(c, {"user"})

\* Our FIN was acknowledged.
OnFinAcked(c) ==
    CASE c.k.state = "FinWait1" ->
            Arm(Disarm(WithState(c, "FinWait2"), {"user"}),
                IF FIN_WAIT2_TIMEOUT THEN {"fin_wait2"} ELSE {})
      [] c.k.state = "Closing" -> EnterTimeWait(c)
      [] c.k.state = "LastAck" -> CloseClean(c)
      [] OTHER -> c

NoticeFinAcked(c) == IF FinAcked(c.s) THEN OnFinAcked(c) ELSE c

\* The send half after SACK, cumulative ACK and loss detection.
AckedSend(s, seg, o) ==
    MarkLost(CumulativeAck(Sack(IF o.undo THEN UnmarkLost(s) ELSE s, seg.sack), seg.ack),
             o.mark)

\* Mutant: the RTO stays armed with nothing outstanding.
AckTimersKeepsRto(c, acked, o) ==
    LET c1 == IF o.reo THEN Arm(c, {"rack"}) ELSE Disarm(c, {"rack"})
    IN  MaybeArmTlp(IF acked > 0 THEN Arm(c1, {"rto"}) ELSE c1, o)

\* The retransmission timers after an ACK that acknowledged `acked` units.
AckTimers(c, acked, o) ==
    LET c1 == IF o.reo THEN Arm(c, {"rack"}) ELSE Disarm(c, {"rack"})
        c2 == IF c.s.snd_una = c.s.snd_nxt THEN Disarm(c1, {"rto", "tlp", "rack"})
              ELSE IF acked > 0 THEN Arm(c1, {"rto"}) ELSE c1
    IN  MaybeArmTlp(c2, o)

ProcessAck(c0, seg, o) ==
    LET c  == [c0 EXCEPT !.k.rtx_count = 0]
        c1 == [c EXCEPT !.s = AckedSend(@, seg, o),
                        !.w = UpdateSendWindow(@, seg.seq, seg.ack, seg.wnd,
                                               c.s.snd_una, c.r.rcv_nxt)]
        c2 == IF seg.ack > c.s.snd_una THEN NoteProgress(c1) ELSE c1
    IN  IF seg.ack < c.s.snd_una THEN c
        ELSE NoticeFinAcked(AckTimers(c2, seg.ack - c.s.snd_una, o))

-----------------------------------------------------------------------------
(* The handshake *)

AbsorbSyn(c, seg) ==
    [c EXCEPT !.r = [@ EXCEPT !.irs = seg.seq, !.rcv_nxt = seg.seq + 1,
                              !.rcv_adv_edge = seg.seq + 1, !.last_ack_sent = seg.seq + 1],
              !.w = [snd_wnd |-> seg.wnd, max_snd_wnd |-> seg.wnd,
                     snd_wl1 |-> seg.seq, snd_wl2 |-> seg.ack]]

SynSent(c) ==
    Arm([c EXCEPT !.s = [@ EXCEPT !.snd_nxt = c.s.iss + 1, !.syn_unacked = TRUE]], {"rto"})

\* A listener takes the SYN; passive_iss is the initial sequence number.
AcceptSyn(c, seg, passive_iss) ==
    SynSent(EmitSynAck(AbsorbSyn(Reset(c, "SynRcvd", c.k.is_listener, passive_iss), seg)))

OnListen(c, seg, passive_iss, o) ==
    IF Has(seg, "RST") THEN c
    ELSE IF Has(seg, "ACK") THEN (IF Has(seg, "SYN") THEN EmitRstTo(c, seg, o) ELSE c)
    ELSE IF ~Has(seg, "SYN") \/ Has(seg, "FIN") THEN c
    ELSE AcceptSyn(c, seg, passive_iss)

\* Our SYN is acknowledged: what both ways into ESTABLISHED share.
Establish(c, seg) ==
    OnPeerAlive(Disarm([c EXCEPT !.s = [@ EXCEPT !.snd_una = seg.ack, !.syn_unacked = FALSE],
                                 !.k = [@ EXCEPT !.rtx_count = 0, !.state = "Established"]],
                       {"rto"}))

CompleteActiveOpen(c, seg) == SendPureAck(Establish(AbsorbSyn(c, seg), seg))

\* Mutant: the SYN is not rewound to the initial sequence number.
SimultaneousOpenAdvanced(c, seg) ==
    LET c1 == AbsorbSyn(c, seg)
    IN  EmitSegment([c1 EXCEPT !.k.state = "SynRcvd"], {"SYN", "ACK"}, c.s.snd_nxt,
                    c1.r.rcv_nxt, {})

SimultaneousOpen(c, seg) ==
    LET c1 == AbsorbSyn(c, seg)
    IN  Arm(EmitSynAck([c1 EXCEPT !.k.state = "SynRcvd", !.k.syn_rcvd_retries = 0]), {"rto"})

OnSynSent(c, seg, o) ==
    LET ackOk == Has(seg, "ACK") /\ c.s.iss < seg.ack /\ seg.ack <= c.s.snd_nxt
    IN  IF Has(seg, "ACK") /\ ~ackOk
        THEN (IF Has(seg, "RST") THEN c ELSE EmitRstTo(c, seg, o))
        ELSE IF Has(seg, "RST") THEN (IF ackOk THEN AbortLocal(c) ELSE c)
        ELSE IF ~Has(seg, "SYN") THEN c
        ELSE IF ackOk THEN CompleteActiveOpen(c, seg)
        ELSE SimultaneousOpen(c, seg)

-----------------------------------------------------------------------------
(* Synchronized states *)

SegLen(seg) == Len(seg.data) + Bit(Has(seg, "FIN")) + Bit(Has(seg, "SYN"))

\* Text or a FIN that may be the peer's own retransmission is answered at once.
MayAnswerAtOnce(c, seg) ==
    /\ seg.data # <<>> \/ Has(seg, "FIN")
    /\ Has(seg, "ACK") /\ ~Has(seg, "SYN") /\ ~Has(seg, "RST")
    /\ AckAcceptable(c.s, c.w, seg.ack)

\* The reply to an unacceptable segment once its ACK field was looked at.
AnswerUnacceptable(c, seg, o) ==
    LET end == seg.seq + Len(seg.data)
        restartsTimeWait == /\ c.k.state = "TimeWait" /\ Has(seg, "FIN")
                            /\ end + 1 = c.r.rcv_nxt
        duplicateText == seg.data # <<>> /\ end <= c.r.rcv_nxt
        windowProbe == seg.seq >= c.r.rcv_nxt /\ Free(c.r) = 0
    IN  IF MayAnswerAtOnce(c, seg) /\ (restartsTimeWait \/ duplicateText \/ windowProbe)
        THEN SendPureAck(c) ELSE SendOowAck(c, o)

AnswerAndSend(c, seg, o) ==
    IF c.k.state = "Closed" THEN c ELSE MaybeSendData(AnswerUnacceptable(c, seg, o), o)

OnUnacceptable(c, seg, o) ==
    LET end     == seg.seq + Len(seg.data) + Bit(Has(seg, "FIN"))
        ackLive == /\ end >= c.r.last_ack_sent
                   /\ seg.seq <= c.r.rcv_nxt + Free(c.r)
    IN  IF Has(seg, "RST") THEN c
        ELSE IF Has(seg, "SYN") \/ ~Has(seg, "ACK") \/ ~AckAcceptable(c.s, c.w, seg.ack)
        THEN SendOowAck(c, o)
        ELSE IF ~ackLive THEN AnswerUnacceptable(c, seg, o)
        ELSE AnswerAndSend(ProcessAck(OnPeerAlive(c), seg, o), seg, o)

\* Mutant: a reset in FIN_WAIT_2 is taken for a clean close.
OnResetReceivedClean(c) ==
    IF c.k.state \in {"Established", "FinWait1", "CloseWait"} THEN AbortLocal(c) ELSE CloseClean(c)

OnResetReceived(c) ==
    IF c.k.state \in {"Established", "FinWait1", "FinWait2", "CloseWait"}
    THEN AbortLocal(c) ELSE CloseClean(c)

\* Mutant: FIN_WAIT_1 does not notice the peer's FIN.
AdvanceStateForgetsFinWait1(c) ==
    IF c.k.state = "Established" THEN WithState(c, "CloseWait")
    ELSE IF c.k.state = "FinWait2" THEN EnterTimeWait(c) ELSE c

\* Mutant: FIN_WAIT_1 goes to TIME_WAIT whether or not our FIN was acknowledged.
AdvanceStateSkipsClosing(c) ==
    IF c.k.state = "Established" THEN WithState(c, "CloseWait") ELSE EnterTimeWait(c)

AdvanceStateOnRemoteFin(c) ==
    IF c.k.state = "Established" THEN WithState(c, "CloseWait")
    ELSE IF c.k.state = "FinWait2" \/ FinAcked(c.s) THEN EnterTimeWait(c)
    ELSE WithState(c, "Closing")

ScheduleDelayedAck(c) ==
    LET c1 == [c EXCEPT !.k.pending_ack = TRUE, !.k.delayed_ack_count = @ + 1]
    IN  IF c1.k.delayed_ack_count >= 2 THEN SendPureAck(c1) ELSE Arm(c1, {"ack"})

TakeText(c, seg) ==
    IF c.k.state \in CanRecv THEN [c EXCEPT !.r = ReceiveSegment(@, seg)] ELSE c

NoticeEof(c, eof) == IF c.r.eof /\ ~eof THEN AdvanceStateOnRemoteFin(c) ELSE c

\* The acknowledgment that a segment calls for; c0 is the TCB before it.
AckText(c, c0, seg, o) ==
    IF c0.k.state \in CanRecv /\ ReceiveAckNow(c0.r, seg) THEN SendPureAck(c)
    ELSE IF c.r.rcv_nxt # c0.r.rcv_nxt THEN ScheduleDelayedAck(c)
    ELSE IF seg.data # <<>> \/ Has(seg, "FIN") THEN SendOowAck(c, o)
    ELSE c

\* Text and FIN, then the acknowledgment they call for, then output.
ReceiveText(c, seg, o) ==
    MaybeSendData(AckText(NoticeEof(TakeText(c, seg), c.r.eof), c, seg, o), o)

\* After the ACK field: a probe of our closed window is only answered.
TakeAcked(c, windowProbe, seg, o) ==
    IF c.k.state = "Closed" THEN c
    ELSE IF windowProbe THEN MaybeSendData(SendPureAck(c), o)
    ELSE ReceiveText(c, seg, o)

OnSynchronized(c, seg, o) ==
    LET atNxt      == seg.seq = c.r.rcv_nxt
        bareFin    == Has(seg, "FIN") /\ seg.data = <<>> /\ atNxt
        acceptable == Acceptable(c.r, seg.seq, SegLen(seg)) \/ bareFin
        zeroWindowProbe == ~acceptable /\ atNxt /\ Free(c.r) = 0
    IN  IF seg.flags \cap {"ACK", "SYN", "RST"} = {} THEN c
        ELSE IF ~acceptable /\ ~zeroWindowProbe THEN OnUnacceptable(c, seg, o)
        ELSE IF Has(seg, "RST")
        THEN (IF atNxt THEN OnResetReceived(c) ELSE SendOowAck(c, o))
        ELSE IF Has(seg, "SYN") THEN SendOowAck(c, o)
        ELSE IF ~Has(seg, "ACK") THEN c
        ELSE IF ~AckAcceptable(c.s, c.w, seg.ack) THEN SendOowAck(c, o)
        ELSE TakeAcked(ProcessAck(OnPeerAlive(c), seg, o), zeroWindowProbe, seg, o)

-----------------------------------------------------------------------------
(* SYN-RECEIVED *)

AcksOurSyn(s, ack) == ack = s.iss + 1

CompletePassiveOpen(c, seg, o) ==
    LET c1 == Establish(c, seg)
        c2 == [c1 EXCEPT !.k.syn_rcvd_retries = 0,
                         !.w = [snd_wnd |-> seg.wnd,
                                max_snd_wnd |-> Greater(@.max_snd_wnd, seg.wnd),
                                snd_wl1 |-> seg.seq, snd_wl2 |-> seg.ack]]
    IN  IF Has(seg, "SYN") THEN SendPureAck(c2) ELSE OnSynchronized(c2, seg, o)

OnSynRcvd(c, seg, cfg_iss, o) ==
    LET ackOk == AcksOurSyn(c.s, seg.ack)
    IN  IF Has(seg, "RST")
        THEN IF ~Acceptable(c.r, seg.seq, 0) THEN c
             ELSE IF seg.seq # c.r.rcv_nxt THEN SendOowAck(c, o)
             ELSE IF c.k.is_listener THEN ResetToListenOrClosed(c, cfg_iss)
             ELSE AbortLocal(c)
        ELSE IF Has(seg, "SYN") /\ Has(seg, "ACK")
        THEN IF ~c.k.is_listener /\ seg.seq = c.r.irs /\ ackOk
             THEN CompletePassiveOpen(c, seg, o) ELSE EmitRstTo(c, seg, o)
        ELSE IF Has(seg, "SYN")
        THEN (IF seg.seq = c.r.irs /\ o.oow THEN EmitSynAck(c) ELSE c)
        ELSE IF ~Has(seg, "ACK") THEN c
        ELSE IF ~ackOk THEN EmitRstTo(c, seg, o)
        ELSE IF ~Acceptable(c.r, seg.seq, Len(seg.data) + Bit(Has(seg, "FIN")))
        THEN SendOowAck(c, o)
        ELSE CompletePassiveOpen(c, seg, o)

\* inject_segment, for a segment from the connected (or, in LISTEN, any) peer.
InjectSegment(c, seg, cfg_iss, passive_iss, o) ==
    CASE c.k.state = "Closed" -> c
      [] c.k.state = "Listen" -> OnListen(c, seg, passive_iss, o)
      [] c.k.state = "SynSent" -> OnSynSent(c, seg, o)
      [] c.k.state = "SynRcvd" -> OnSynRcvd(c, seg, cfg_iss, o)
      [] c.k.state \in Synchronized -> OnSynchronized(c, seg, o)
=============================================================================
