------------------------------ MODULE SendSide ------------------------------
(***************************************************************************)
(* The send half of a TCB (src/tcb/output.rs, ack.rs and the scoreboard of *)
(* src/rtx_queue.rs) as operators on a record s, and the peer's window w.  *)
(* The unit of sequence space is one full-sized segment, so a record of    *)
(* the retransmission queue is one unit; a FIN that rides on the last data *)
(* unit shares its record (fin_rides).                                     *)
(*                                                                         *)
(*   iss, snd_una, snd_nxt, syn_unacked, fin_sent, fin_seq  as in the code *)
(*   send_ring   bytes accepted by send() and not yet acknowledged         *)
(*   sacked      units whose record is SACKED                              *)
(*   lost        units whose record is LOST and not retransmitted since    *)
(*                                                                         *)
(* Congestion control and RACK are not computed here: how many segments    *)
(* the congestion window admits and which records are marked lost are      *)
(* inputs of the operators that need them.                                 *)
(***************************************************************************)
EXTENDS TcpCommon

SendState ==
    [iss : Nat, snd_una : Nat, snd_nxt : Nat, syn_unacked : BOOLEAN,
     send_ring : Seq(Byte), fin_sent : BOOLEAN, fin_seq : Nat,
     fin_rides : BOOLEAN, sacked : SUBSET Nat, lost : SUBSET Nat]

WindowState ==
    [snd_wnd : Nat, max_snd_wnd : Nat, snd_wl1 : Nat, snd_wl2 : Nat]

-----------------------------------------------------------------------------
(* Derived quantities *)

DataUna(s) == s.snd_una + Bit(s.syn_unacked)

\* Units sent and unacknowledged, the FIN included, the SYN not.
Outstanding(s) == DataUna(s) .. s.snd_nxt - 1

UnsentBytes(s) ==
    Greater(Len(s.send_ring) - Greater(s.snd_nxt - DataUna(s) - Bit(s.fin_sent), 0), 0)

\* Mutant: a FIN in flight counts as acknowledged.
FinSentAtAll(s) == s.fin_sent

FinAcked(s) == s.fin_sent /\ s.snd_una = s.snd_nxt

HasSendWork(s) == s.snd_una # s.snd_nxt \/ UnsentBytes(s) > 0

UsableWindow(s, w) == Greater(s.snd_una + w.snd_wnd - s.snd_nxt, 0)

RtxRoom(s) == RTX - (s.snd_nxt - DataUna(s) - Bit(s.fin_rides))
RtxFull(s) == RtxRoom(s) <= 0

\* The units of the record that starts at u, and the records' first units.
Record(s, u) == IF s.fin_rides /\ u = s.fin_seq - 1 THEN {u, s.fin_seq} ELSE {u}
Heads(s, us) == IF s.fin_rides THEN us \ {s.fin_seq} ELSE us

LastHead(s) == s.snd_nxt - 1 - Bit(s.fin_rides)

-----------------------------------------------------------------------------
(* Transmission *)

\* The payload and FIN flag of the record that starts at u.
TextOf(s, u) ==
    IF s.fin_sent /\ u = s.fin_seq THEN <<>> ELSE <<s.send_ring[u - DataUna(s) + 1]>>
FinOf(s, u) == s.fin_sent /\ s.fin_seq \in Record(s, u)

\* n new data units at snd_nxt, the last one followed by a FIN if fin.
EmitNew(s, n, fin) ==
    [s EXCEPT !.snd_nxt = @ + n + Bit(fin),
              !.fin_sent = @ \/ fin,
              !.fin_seq = IF fin THEN s.snd_nxt + n ELSE @,
              !.fin_rides = IF fin THEN n > 0 ELSE @]

\* The records that start in us are retransmitted in place.
Retransmit(s, us) ==
    [s EXCEPT !.lost = @ \ UNION { Record(s, u) : u \in us }]

\* The lowest k elements of a set of naturals.
Lowest(us, k) == { u \in us : Cardinality({ v \in us : v < u }) < k }

\* What one maybe_send_data sends when room segments fit in the egress ring
\* and the congestion window admits cw: lost records first, lowest first,
\* then new data within the peer's window; a FIN that is owed rides on the
\* last unit, or goes out bare, which costs no window or congestion credit.
ToResend(s, room, cw) == Lowest(Heads(s, s.lost), Lesser(room, cw))

NewAllowed(s, room, cw) == Heads(s, s.lost) = ToResend(s, room, cw)

NewUnits(s, w, room, cw) ==
    IF ~NewAllowed(s, room, cw) THEN 0
    ELSE LET credit == Lesser(room, cw) - Cardinality(Heads(s, s.lost))
         IN  Lesser(Lesser(credit, Greater(RtxRoom(s), 0)),
                    Lesser(UnsentBytes(s), UsableWindow(s, w)))

\* Mutants: the FIN does not wait for the data, or for a free record.
NewFinEarly(s, w, room, cw, owed) ==
    owed /\ NewAllowed(s, room, cw) /\ room > Cardinality(Heads(s, s.lost)) /\ ~RtxFull(s)
NewFinUnchecked(s, w, room, cw, owed) ==
    /\ owed /\ NewAllowed(s, room, cw)
    /\ NewUnits(s, w, room, cw) = UnsentBytes(s)
    /\ NewUnits(s, w, room, cw) > 0 \/ room > Cardinality(Heads(s, s.lost))

NewFin(s, w, room, cw, owed) ==
    LET n == NewUnits(s, w, room, cw)
    IN  /\ owed
        /\ NewAllowed(s, room, cw)
        /\ n = UnsentBytes(s)
        /\ \/ n > 0
           \/ room > Cardinality(Heads(s, s.lost)) /\ ~RtxFull(s)

SendData(s, w, room, cw, owed) ==
    EmitNew(Retransmit(s, ToResend(s, room, cw)),
            NewUnits(s, w, room, cw), NewFin(s, w, room, cw, owed))

-----------------------------------------------------------------------------
(* Acknowledgment *)

AckAcceptable(s, w, ack) ==
    LET back == Lesser(s.snd_una - s.iss, Greater(w.max_snd_wnd, MSS))
    IN  s.snd_una - back <= ack /\ ack <= s.snd_nxt

\* Mutant: a block's right edge is taken as inclusive.
SackPastEnd(s, us) ==
    LET in == { u \in Outstanding(s) : u \in us \/ u - 1 \in us }
    IN  [s EXCEPT !.sacked = @ \cup in, !.lost = @ \ in]

\* SACK blocks covering the units us.  A block that covers only one unit of
\* the record a FIN shares splits the record, if the queue has room for that.
Sack(s, us) ==
    LET in      == us \cap Outstanding(s)
        pair    == {s.fin_seq - 1, s.fin_seq}
        partial == /\ s.fin_rides /\ s.fin_seq \notin s.sacked
                   /\ Cardinality(in \cap pair) = 1
        new     == IF partial /\ RtxFull(s) THEN in \ pair ELSE in
    IN  [s EXCEPT !.sacked = @ \cup new,
                  !.lost = @ \ new,
                  !.fin_rides = @ /\ (partial => RtxFull(s))]

\* Mutants: one acknowledged byte stays in the ring; loss marks outlive an ACK.
CumulativeAckShort(s, ack) ==
    [s EXCEPT !.snd_una = ack, !.syn_unacked = FALSE,
              !.send_ring = SubSeq(@, Greater(ack - s.snd_una - 1, 0) + 1, Len(@))]
CumulativeAckKeepsLost(s, ack) ==
    [s EXCEPT !.snd_una = ack, !.syn_unacked = FALSE,
              !.send_ring = SubSeq(@, Lesser(ack - s.snd_una, Len(@)) + 1, Len(@)),
              !.sacked = { u \in @ : u >= ack }]

\* The cumulative part of an ACK at or above snd_una.
CumulativeAck(s, ack) ==
    LET finAcked  == s.fin_sent /\ s.snd_una <= s.fin_seq /\ ack > s.fin_seq
        dataAcked == ack - s.snd_una - Bit(finAcked) - Bit(s.syn_unacked)
    IN  IF ack = s.snd_una THEN s
        ELSE [s EXCEPT !.snd_una = ack,
                       !.syn_unacked = FALSE,
                       !.send_ring = SubSeq(@, Greater(dataAcked, 0) + 1, Len(@)),
                       !.sacked = { u \in @ : u >= ack },
                       !.lost = { u \in @ : u >= ack },
                       !.fin_rides = @ /\ ack < s.fin_seq]

\* Mutant: SACKed records are marked too.
MarkLostSacked(s, marks) ==
    [s EXCEPT !.lost = @ \cup (marks \cap Heads(s, Outstanding(s)))]

\* RACK / NewReno mark the records that start in marks as lost.
MarkLost(s, marks) ==
    [s EXCEPT !.lost = @ \cup (UNION { Record(s, u) : u \in marks \cap Heads(s, Outstanding(s)) }
                               \ s.sacked)]

\* A D-SACK that undoes a reduction drops the loss marks not acted on.
UnmarkLost(s) == [s EXCEPT !.lost = {}]

\* RTO: a SACKed head means the receiver reneged; everything else is lost.
MarkAllLost(s) ==
    LET sacked == IF DataUna(s) \in s.sacked THEN {} ELSE s.sacked
    IN  [s EXCEPT !.sacked = sacked, !.lost = Outstanding(s) \ sacked]

\* Mutant: only a segment with a newer sequence number updates the window.
UpdateSendWindowRarely(w, seq, ack, wnd, prior_una, rcv_nxt) ==
    IF w.snd_wl1 >= Lesser(seq, rcv_nxt) THEN w
    ELSE [snd_wnd |-> wnd, max_snd_wnd |-> Greater(w.max_snd_wnd, wnd),
          snd_wl1 |-> Lesser(seq, rcv_nxt), snd_wl2 |-> ack]

\* update_send_window, for a segment [seq, ack, wnd] and the receiver's rcv_nxt.
UpdateSendWindow(w, seq, ack, wnd, prior_una, rcv_nxt) ==
    LET at    == Lesser(seq, rcv_nxt)
        fresh == ack > prior_una \/ w.snd_wl1 < at \/ (w.snd_wl1 = at /\ w.snd_wl2 <= ack)
    IN  IF ~fresh THEN w
        ELSE [snd_wnd |-> wnd, max_snd_wnd |-> Greater(w.max_snd_wnd, wnd),
              snd_wl1 |-> at, snd_wl2 |-> ack]

\* release_buffers_and_timers, send half.
ReleaseSend(s) ==
    [s EXCEPT !.send_ring = <<>>, !.sacked = {}, !.lost = {}, !.snd_nxt = s.snd_una,
              !.syn_unacked = FALSE, !.fin_sent = FALSE, !.fin_rides = FALSE]
=============================================================================
