----------------------------- MODULE TcbState ------------------------------
(***************************************************************************)
(* One TCB: the connection state machine of src/tcb, as operators that map *)
(* a TCB to the TCB after a call of the code.  Every operator is one       *)
(* function of the source and applies the functions it calls in the same   *)
(* order.  A TCB c is the record                                           *)
(*   c.k   the control fields            c.r   the receive half (RecvSide) *)
(*   c.s   the send half (SendSide)      c.w   the peer's window           *)
(*   c.tm  the armed deadlines           c.tx  the egress ring             *)
(*                                                                         *)
(* Time is abstracted: a tick is given the set of armed deadlines that are *)
(* due.  What congestion control, RACK and the rate limiter decide is an   *)
(* input o (an "oracle"), fixed for the call:                              *)
(*   o.cw    segments the congestion window admits                         *)
(*   o.mark  records RACK or NewReno declares lost                         *)
(*   o.undo  a D-SACK undoes the reduction                                 *)
(*   o.tlp   recovery is Open and no tail-loss probe is outstanding        *)
(*   o.reo   RACK arms its reordering timer                                *)
(*   o.oow   the limiter of replies to unacceptable segments has credit    *)
(***************************************************************************)
EXTENDS RecvSide, SendSide

CONSTANTS
    TXQ,                    \* slots of the egress ring
    MAX_SYN_RETRIES, MAX_SYN_RCVD_RETRIES, MAX_RETRANSMITS,
    KEEPALIVE,              \* keepalive_idle_ms # 0
    KEEPALIVE_COUNT,        \* keepalive_count
    USER_TIMEOUT,           \* user_timeout_ms # 0
    FIN_WAIT2_TIMEOUT       \* fin_wait2_timeout_ms # 0

\* The unit of sequence space is a full-sized segment (see SendSide).
ASSUME TcbAssumption ==
    /\ MSS = 1
    /\ TXQ \in Nat \ {0}
    /\ MAX_SYN_RETRIES \in Nat /\ MAX_SYN_RCVD_RETRIES \in Nat
    /\ MAX_RETRANSMITS \in Nat /\ KEEPALIVE_COUNT \in Nat
    /\ KEEPALIVE \in BOOLEAN /\ USER_TIMEOUT \in BOOLEAN /\ FIN_WAIT2_TIMEOUT \in BOOLEAN

State == {"Closed", "SynSent", "Established", "FinWait1", "FinWait2", "Closing",
          "TimeWait", "CloseWait", "LastAck", "Listen", "SynRcvd"}

CanSend == {"Established", "CloseWait"}
CanRecv == {"Established", "FinWait1", "FinWait2"}
Synchronized == {"Established", "FinWait1", "FinWait2", "Closing", "CloseWait",
                 "LastAck", "TimeWait"}
\* The states maybe_send_data, persist, TLP and USER TIMEOUT act in.
Sending == {"Established", "CloseWait", "FinWait1", "Closing", "LastAck"}

\* Mutant: an idle CLOSE_WAIT is not probed.
KeepaliveForgetsCloseWait == Synchronized \ {"TimeWait", "CloseWait"}

KeepaliveApplies == Synchronized \ {"TimeWait"}

Timer == {"rto", "tlp", "rack", "persist", "keepalive", "user", "fin_wait2",
          "time_wait", "ack"}

Control ==
    [state : State, is_listener : BOOLEAN, error : BOOLEAN, egress_paused : BOOLEAN,
     pending_ack : BOOLEAN, delayed_ack_count : Nat, rtx_count : Nat,
     syn_rcvd_retries : Nat, keepalive_probes : Nat]

Has(seg, f) == f \in seg.flags

\* The members of a finite set of naturals in ascending order.
Ascending(us) ==
    CHOOSE q \in [1 .. Cardinality(us) -> us] : \A i, j \in DOMAIN q : i < j => q[i] < q[j]

WithState(c, st) == [c EXCEPT !.k.state = st]
Arm(c, ts) == [c EXCEPT !.tm = @ \cup ts]
Disarm(c, ts) == [c EXCEPT !.tm = @ \ ts]

-----------------------------------------------------------------------------
(* Construction and reset *)

FreshControl(st, listener, paused) ==
    [state |-> st, is_listener |-> listener, error |-> FALSE, egress_paused |-> paused,
     pending_ack |-> FALSE, delayed_ack_count |-> 0, rtx_count |-> 0,
     syn_rcvd_retries |-> 0, keepalive_probes |-> 0]

FreshSend(iss) ==
    [iss |-> iss, snd_una |-> iss, snd_nxt |-> iss, syn_unacked |-> FALSE,
     send_ring |-> <<>>, fin_sent |-> FALSE, fin_seq |-> 0, fin_rides |-> FALSE,
     sacked |-> {}, lost |-> {}]

FreshRecv ==
    [rcv_nxt |-> 0, rcv_adv_edge |-> 0, last_ack_sent |-> 0, irs |-> 0,
     recv_ring |-> <<>>, ooo |-> {}, ooo_fin |-> {}, eof |-> FALSE]

FreshWindow == [snd_wnd |-> 0, max_snd_wnd |-> 0, snd_wl1 |-> 0, snd_wl2 |-> 0]

\* reset_connection_state, then the given state.
Reset(c, st, listener, iss) ==
    [k |-> FreshControl(st, listener, c.k.egress_paused), s |-> FreshSend(iss),
     r |-> FreshRecv, w |-> FreshWindow, tm |-> {}, tx |-> <<>>]

NewTcb(iss) ==
    [k |-> FreshControl("Closed", FALSE, FALSE), s |-> FreshSend(iss),
     r |-> FreshRecv, w |-> FreshWindow, tm |-> {}, tx |-> <<>>]

ResetToListenOrClosed(c, iss) ==
    Reset(c, IF c.k.is_listener THEN "Listen" ELSE "Closed", c.k.is_listener, iss)

DisarmTimers(c) ==
    [c EXCEPT !.tm = {}, !.k.keepalive_probes = 0, !.k.pending_ack = FALSE]

ReleaseBuffersAndTimers(c) ==
    DisarmTimers([c EXCEPT !.s = ReleaseSend(@), !.r.ooo = {}, !.r.ooo_fin = {}])

AbortLocal(c) ==
    ReleaseBuffersAndTimers([c EXCEPT !.k.state = "Closed", !.k.error = TRUE,
                                      !.r.recv_ring = <<>>])

CloseClean(c) == ReleaseBuffersAndTimers(WithState(c, "Closed"))
=============================================================================
