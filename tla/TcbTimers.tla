----------------------------- MODULE TcbTimers ------------------------------
(* tick(): src/tcb/timers.rs.  A tick is given the set `due` of deadlines  *)
(* that have passed; a deadline the tick itself re-arms is no longer due.  *)
EXTENDS TcbInput

SynSentTimer(c) ==
    LET c1 == [c EXCEPT !.k.rtx_count = @ + 1]
    IN  IF c1.k.rtx_count > MAX_SYN_RETRIES THEN AbortLocal(c1)
        ELSE Arm(EmitSyn(c1), {"rto"})

SynRcvdTimer(c, cfg_iss) ==
    LET c1 == [c EXCEPT !.k.syn_rcvd_retries = @ + 1]
    IN  IF c1.k.syn_rcvd_retries <= MAX_SYN_RCVD_RETRIES
        THEN Arm(EmitSynAck(c1), {"rto"})
        ELSE IF c.k.is_listener THEN ResetToListenOrClosed(c1, cfg_iss)
        ELSE AbortLocal(c1)

\* Mutant: only the active opener retries.
HandshakeTimerActive(c, due, cfg_iss) ==
    IF "rto" \in due /\ c.k.state = "SynSent" THEN SynSentTimer(c) ELSE c

HandshakeTimer(c, due, cfg_iss) ==
    IF "rto" \notin due THEN c
    ELSE IF c.k.state = "SynSent" THEN SynSentTimer(c)
    ELSE IF c.k.state = "SynRcvd" THEN SynRcvdTimer(c, cfg_iss)
    ELSE c

\* A probe re-sends the highest record when it cannot carry new data.
TlpResends(c) ==
    LET u == LastHead(c.s) IN u \in Outstanding(c.s) /\ u \notin c.s.sacked

FireTlp(c0, o) ==
    LET c == Disarm(c0, {"tlp"})
        u == LastHead(c.s)
    IN  IF ~o.tlp \/ c.s.snd_una = c.s.snd_nxt THEN c
        ELSE IF EgressFull(c) THEN MaybeArmTlp(c, o)
        ELSE IF UnsentBytes(c.s) > 0 /\ UsableWindow(c.s, c.w) > 0 /\ ~RtxFull(c.s)
        THEN Disarm(EmitOneNew(c, o), {"tlp"})
        ELSE IF TlpResends(c) THEN EmitRecords(c, Retransmit(c.s, {u}), {u}, o)
        ELSE c

OnRto(c0) ==
    LET c  == Disarm(c0, {"rto"})
        c1 == [c EXCEPT !.k.rtx_count = @ + 1]
    IN  IF c.s.snd_una = c.s.snd_nxt THEN c
        ELSE IF c1.k.rtx_count > MAX_RETRANSMITS THEN AbortLocal(c1)
        ELSE Arm(Disarm([c1 EXCEPT !.s = MarkAllLost(@)], {"tlp", "rack"}), {"rto"})

\* The reordering timer: mark what RACK now declares lost.
OnRackTimer(c, o) ==
    LET c1 == [c EXCEPT !.s = MarkLost(@, o.mark)]
        c2 == IF o.reo THEN c1 ELSE Disarm(c1, {"rack"})
    IN  IF c1.s.lost = c.s.lost THEN c2 ELSE Disarm(c2, {"tlp"})

OnPersistTimer(c0, o) ==
    LET c  == Disarm(c0, {"persist"})
        p  == EmitProbe(c, c.s.snd_una - 1)
        c1 == [p EXCEPT !.k.rtx_count = @ + 1]
    IN  IF UnsentBytes(c.s) = 0 \/ c.s.snd_una # c.s.snd_nxt THEN c
        ELSE IF EgressFull(c) THEN Arm(c, {"persist"})
        ELSE IF UsableWindow(c.s, c.w) > 0 /\ ~RtxFull(c.s) THEN EmitOneNew(c, o)
        ELSE IF c1.k.rtx_count > MAX_RETRANSMITS THEN AbortLocal(c1)
        ELSE Arm(c1, {"persist"})

CheckKeepalive(c, due) ==
    LET c1 == [c EXCEPT !.k.keepalive_probes = 0]
        seq == c.s.snd_nxt - 1
    IN  IF ~KEEPALIVE \/ "keepalive" \notin due \cap c.tm THEN c
        ELSE IF c.k.state \notin KeepaliveApplies THEN Disarm(c1, {"keepalive"})
        ELSE IF HasSendWork(c.s) THEN c1
        ELSE IF c.k.keepalive_probes >= KEEPALIVE_COUNT
        THEN (IF c.k.state = "CloseWait" THEN CloseClean(c) ELSE AbortLocal(c))
        ELSE IF Emits(c, {"ACK"})
        THEN [EmitProbe(c, seq) EXCEPT !.k.keepalive_probes = @ + 1]
        ELSE c

CheckUserTimeout(c, due) ==
    IF ~USER_TIMEOUT \/ ~HasSendWork(c.s) \/ c.k.state \notin Sending
    THEN Disarm(c, {"user"})
    ELSE IF "user" \notin c.tm THEN Arm(c, {"user"})
    ELSE IF "user" \in due THEN AbortLocal(c)
    ELSE c

AckDeadline(c, due) ==
    IF c.k.pending_ack /\ "ack" \in due \cap c.tm THEN SendPureAck(c) ELSE c

\* The timers of a live connection, in the order run_timers looks at them, each
\* handing the TCB to the next; one that closed the connection ends the tick.
OutputStep(c, due, o) ==
    IF c.k.state = "Closed" THEN c ELSE AckDeadline(MaybeSendData(c, o), due)

IdleStep(c, due, o) ==
    IF c.k.state = "Closed" THEN c
    ELSE OutputStep(CheckUserTimeout(CheckKeepalive(c, due), due), due, o)

PersistStep(c, due, o) ==
    IdleStep(IF "persist" \in due \cap c.tm THEN OnPersistTimer(c, o) ELSE c, due, o)

\* A loss declared in this tick rules out a tail-loss probe.
RackStep(c, due, o) ==
    LET c1 == IF "rack" \in due \cap c.tm THEN OnRackTimer(c, o) ELSE c
    IN  IF c.k.state = "Closed" THEN c
        ELSE PersistStep(c1, due, [o EXCEPT !.tlp = @ /\ c1.s.lost = c.s.lost])

\* A probe that went out in this tick restarted the RTO, and is the only one.
RtoStep(c, probed, due, o) ==
    LET timedOut == ~probed /\ c.k.state \in Synchronized /\ "rto" \in due \cap c.tm
    IN  RackStep(IF timedOut THEN OnRto(c) ELSE c, due,
                 [o EXCEPT !.tlp = @ /\ ~probed /\ ~timedOut])

TlpStep(c, due, o) ==
    LET c1 == IF "tlp" \in due \cap c.tm THEN FireTlp(c, o) ELSE c
    IN  RtoStep(c1, Len(c1.tx) > Len(c.tx), due, o)

RunTimers(c, due, cfg_iss, o) ==
    IF "time_wait" \in due THEN DisarmTimers(WithState(c, "Closed"))
    ELSE IF c.k.state = "FinWait2" /\ "fin_wait2" \in due
    THEN AbortLocal(EmitRstAck(c))
    ELSE TlpStep(HandshakeTimer(c, due, cfg_iss), due, o)
=============================================================================
