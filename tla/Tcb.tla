-------------------------------- MODULE Tcb ---------------------------------
(* The host's calls on a TCB: the public functions of src/tcb/mod.rs.      *)
(* cfg_iss is the initial sequence number the TCB was configured with.     *)
EXTENDS TcbTimers

\* reset_connection_state empties the egress ring, so the SYN always fits.
Connect(c, cfg_iss) ==
    IF c.k.state # "Closed" THEN c
    ELSE SynSent(EmitSyn(Reset(c, "SynSent", FALSE, cfg_iss)))

Listen(c, cfg_iss) ==
    IF c.k.state \notin {"Closed", "Listen", "TimeWait"} THEN c
    ELSE Reset(c, "Listen", TRUE, cfg_iss)

\* send() accepts what fits.
SendRoom(c) == IF c.k.state \in CanSend THEN BUF - Len(c.s.send_ring) ELSE 0
Send(c, data) ==
    [c EXCEPT !.s = [@ EXCEPT !.send_ring = @ \o SubSeq(data, 1, Lesser(Len(data), SendRoom(c)))]]

\* recv() of up to n bytes: what it returns, whether it reports the end of the
\* stream (ConnectionClosed), and its effect.
RecvBytes(c, n) ==
    IF c.k.error THEN <<>> ELSE SubSeq(c.r.recv_ring, 1, Lesser(n, Len(c.r.recv_ring)))
RecvEnd(c) ==
    /\ ~c.k.error
    /\ c.r.recv_ring = <<>>
    /\ c.k.state \in {"Closed", "CloseWait", "LastAck", "Closing", "TimeWait"}
Recv(c, n) ==
    LET got == Len(RecvBytes(c, n))
        c1  == [c EXCEPT !.r = RecvRead(@, got)]
        c2  == IF c.k.state = "FinWait2" /\ FIN_WAIT2_TIMEOUT THEN Arm(c1, {"fin_wait2"}) ELSE c1
    IN  IF got = 0 THEN c ELSE MaybeSendWindowUpdate(c2)

\* Mutant: a connection that is only opening is closed like an open one.
CloseOpening(c, cfg_iss, o) ==
    IF c.k.state \in {"SynSent", "Established", "SynRcvd"}
    THEN MaybeSendData(WithState(c, "FinWait1"), o)
    ELSE IF c.k.state = "CloseWait" THEN MaybeSendData(WithState(c, "LastAck"), o)
    ELSE IF c.k.state = "Listen" THEN Reset(c, "Closed", FALSE, cfg_iss)
    ELSE c

Close(c, cfg_iss, o) ==
    IF c.k.state \in {"Established", "SynRcvd"} THEN MaybeSendData(WithState(c, "FinWait1"), o)
    ELSE IF c.k.state = "CloseWait" THEN MaybeSendData(WithState(c, "LastAck"), o)
    ELSE IF c.k.state \in {"SynSent", "Listen"} THEN Reset(c, "Closed", FALSE, cfg_iss)
    ELSE c

Abort(c) ==
    IF c.k.state = "Closed" THEN c
    ELSE IF c.k.state \in {"Listen", "SynSent"}
    THEN AbortLocal([c EXCEPT !.k.is_listener = FALSE])
    ELSE AbortLocal(EmitRstAck(c))

SetEgressPaused(c, paused, o) ==
    LET c1 == IF c.k.egress_paused /\ ~paused /\ "tlp" \in c.tm THEN MaybeArmTlp(c, o) ELSE c
    IN  [c1 EXCEPT !.k.egress_paused = paused]

Extract(c) == [c EXCEPT !.tx = Tail(@)]

Tick(c, due, cfg_iss, o) == RunTimers(c, due, cfg_iss, o)

-----------------------------------------------------------------------------
(* What the code itself says of a TCB *)

\* debug_transition_allowed, with the transitions a call may chain.
Transition ==
    [Closed      |-> {"SynSent", "Listen"},
     Listen      |-> {"SynRcvd", "Established", "CloseWait", "Closed"},
     SynSent     |-> {"Established", "SynRcvd", "Closed"},
     SynRcvd     |-> {"Established", "CloseWait", "FinWait1", "Listen", "Closed"},
     Established |-> {"FinWait1", "CloseWait", "Closed"},
     FinWait1    |-> {"FinWait2", "Closing", "TimeWait", "Closed"},
     FinWait2    |-> {"TimeWait", "Closed"},
     Closing     |-> {"TimeWait", "Closed"},
     TimeWait    |-> {"Closed", "Listen"},
     CloseWait   |-> {"LastAck", "Closed"},
     LastAck     |-> {"Closed"}]

TransitionAllowed(from, to) == from = to \/ to \in Transition[from]

\* debug_validate_invariants, send half; the records tile DataUna .. snd_nxt - 1
\* by construction, so what is left of debug_valid is that they are consistent.
SendValid(c) ==
    LET s == c.s IN
    /\ s.snd_una <= s.snd_nxt
    /\ s.syn_unacked => s.snd_una = s.iss /\ s.snd_nxt > s.iss
    /\ s.sacked \cup s.lost \subseteq Outstanding(s)
    /\ s.sacked \cap s.lost = {}
    /\ c.k.state \in Synchronized =>
          s.snd_nxt - DataUna(s) - Bit(s.fin_sent /\ s.snd_una < s.snd_nxt) <= Len(s.send_ring)
    /\ s.fin_sent =>
          /\ s.fin_seq + 1 = s.snd_nxt
          /\ c.k.state \in {"FinWait1", "FinWait2", "Closing", "TimeWait", "LastAck", "Closed"}
          /\ c.k.state \in {"FinWait2", "TimeWait"} => s.snd_una > s.fin_seq
    /\ "rto" \in c.tm => s.snd_una # s.snd_nxt

\* debug_validate_invariants, receive half.
RecvValid(c) ==
    LET r == c.r IN
    /\ Held(r) \subseteq r.rcv_nxt + 1 .. r.rcv_nxt + Free(r) - 1
    /\ \A h \in r.ooo_fin :
          c.k.state \in CanRecv /\ h.seq > r.rcv_nxt /\ h.start <= h.seq
=============================================================================
