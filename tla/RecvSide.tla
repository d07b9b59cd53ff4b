------------------------------ MODULE RecvSide ------------------------------
(***************************************************************************)
(* The receive half of a TCB (src/tcb/input.rs, src/ooo.rs and the receive *)
(* ring), as operators on a record r.  A sequence number is a natural      *)
(* number counting units of stream data; 32-bit wrap-around is left out,   *)
(* and a payload is a sequence of units.                                   *)
(*                                                                         *)
(*   rcv_nxt, rcv_adv_edge, last_ack_sent, irs   as in the code            *)
(*   recv_ring   the in-order bytes the application has not read           *)
(*   ooo         the bytes parked beyond rcv_nxt, as <<sequence, byte>>;   *)
(*               a range of the code's OooList is a maximal run of them    *)
(*   ooo_fin     the held FIN: an Option is a set of at most one element   *)
(*   eof         the peer's FIN was consumed (the code keeps this fact in  *)
(*               `state`; FinsMatchState of TcbHost says that they agree)  *)
(***************************************************************************)
EXTENDS TcpCommon

HeldFin == [start : Nat, seq : Nat]

RecvState ==
    [rcv_nxt : Nat, rcv_adv_edge : Nat, last_ack_sent : Nat, irs : Nat,
     recv_ring : Seq(Byte), ooo : SUBSET (Nat \X Byte),
     ooo_fin : SUBSET HeldFin, eof : BOOLEAN]

-----------------------------------------------------------------------------
(* The receive window *)

Free(r) == BUF - Len(r.recv_ring)

\* The sequence numbers parked beyond rcv_nxt.
Held(r) == { p[1] : p \in r.ooo }

\* The bytes parked at [from, from + n).
Parked(r, from, n) ==
    [i \in 1 .. n |-> CHOOSE b \in Byte : <<from + i - 1, b>> \in r.ooo]

Acceptable(r, seq, len) ==
    LET end == r.rcv_nxt + Free(r)
    IN  IF len = 0 THEN seq \in r.rcv_nxt .. end
        ELSE \/ seq \in r.rcv_nxt .. end - 1
             \/ seq + len - 1 \in r.rcv_nxt .. end - 1

\* What the last advertised right edge still offers.
CurrentWindow(r) == Greater(r.rcv_adv_edge - r.rcv_nxt, 0)

AdvertisedWindow(r) ==
    IF Free(r) >= CurrentWindow(r) + Lesser(BUF \div 2, MSS)
    THEN Free(r) ELSE CurrentWindow(r)

\* Mutants: unread bytes are forgotten; the window is always rounded down.
OutboundWindowWhole(r, is_syn) == BUF
OutboundWindowDown(r, is_syn) ==
    IF is_syn THEN Lesser(AdvertisedWindow(r), WMAX)
    ELSE GRAIN * Lesser(Lesser(AdvertisedWindow(r), Free(r)) \div GRAIN, WMAX)

\* The byte window a segment's window field stands for.  A SYN's is not scaled.
\* Otherwise it is a number of whole units: rounded down, but up to keep the
\* edge already advertised where the free space allows it.
OutboundWindow(r, is_syn) ==
    LET cur   == CurrentWindow(r)
        fits  == Free(r) \div GRAIN
        units == Lesser(AdvertisedWindow(r) \div GRAIN, fits)
        keep  == Lesser((cur + GRAIN - 1) \div GRAIN, fits)
    IN  IF is_syn THEN Lesser(AdvertisedWindow(r), WMAX)
        ELSE GRAIN * Lesser(IF GRAIN * units < cur THEN keep ELSE units, WMAX)

\* The effect of an ACK going out on what was last told to the peer.
NoteAckSent(r, is_syn) ==
    [r EXCEPT !.last_ack_sent = r.rcv_nxt,
              !.rcv_adv_edge = Greater(@, r.rcv_nxt + OutboundWindow(r, is_syn))]

-----------------------------------------------------------------------------
(* Out-of-order data *)

\* Mutant: one range too many.
OooFullLate(r, start, end) ==
    /\ Held(r) \cap (start - 1 .. end) = {}
    /\ Cardinality({ x \in Held(r) : x - 1 \notin Held(r) }) > OOO_MAX_RANGES

\* No new range is recorded for [start, end) when the list is full.
OooFull(r, start, end) ==
    /\ Held(r) \cap (start - 1 .. end) = {}
    /\ Cardinality({ x \in Held(r) : x - 1 \notin Held(r) }) = OOO_MAX_RANGES

\* Mutant: what was parked beyond the new text is dropped.
OooInsertDrops(r, start, data) ==
    [r EXCEPT !.ooo = { p \in @ : p[1] < start }
                      \cup { <<start + i - 1, data[i]>> : i \in DOMAIN data }]

OooInsert(r, start, data) ==
    LET end == start + Len(data)
    IN  [r EXCEPT !.ooo = { p \in @ : p[1] \notin start .. end - 1 }
                          \cup { <<start + i - 1, data[i]>> : i \in DOMAIN data },
                  !.ooo_fin = { h \in @ : ~(start <= h.start /\ end > h.seq) }]

\* The end of the run of parked bytes that starts at rcv_nxt.
RunEnd(r) ==
    CHOOSE n \in r.rcv_nxt .. r.rcv_nxt + BUF :
        /\ n \notin Held(r)
        /\ r.rcv_nxt .. n - 1 \subseteq Held(r)

\* How far absorb_ooo may go: never past a FIN that is processed first.
AbsorbEnd(r, seg_fin) ==
    LET fins == { f \in seg_fin \cup { h.seq : h \in r.ooo_fin } : f >= r.rcv_nxt }
    IN  CHOOSE n \in {RunEnd(r)} \cup fins :
            n <= RunEnd(r) /\ \A f \in fins : n <= f

\* Mutant: absorbed bytes stay parked.
AbsorbOooKeeps(r, seg_fin) ==
    LET new == AbsorbEnd(r, seg_fin)
    IN  [r EXCEPT !.recv_ring = @ \o Parked(r, r.rcv_nxt, new - r.rcv_nxt),
                  !.rcv_nxt = new]

AbsorbOoo(r, seg_fin) ==
    LET new == AbsorbEnd(r, seg_fin)
    IN  [r EXCEPT !.recv_ring = @ \o Parked(r, r.rcv_nxt, new - r.rcv_nxt),
                  !.rcv_nxt = new,
                  !.ooo = { p \in @ : p[1] >= RunEnd(r) }]

-----------------------------------------------------------------------------
(* Segment text *)

\* In-order bytes are appended; a held FIN they cover was not the end.
AppendText(r, data) ==
    LET nxt == r.rcv_nxt + Len(data)
    IN  [r EXCEPT !.recv_ring = @ \o data,
                  !.rcv_nxt = nxt,
                  !.ooo_fin = { h \in @ : nxt <= h.seq }]

\* Mutant: bytes already received are not trimmed.
InWindowUntrimmed(r, seq, data) ==
    SubSeq(data, 1, Lesser(Len(data), r.rcv_nxt + Free(r) - seq))

\* The part of the payload in the window: what lies below rcv_nxt and what
\* exceeds the free space is trimmed.
InWindow(r, seq, data) ==
    LET from == Greater(seq, r.rcv_nxt)
    IN  SubSeq(data, from - seq + 1,
               Lesser(Len(data), r.rcv_nxt + Free(r) - seq))

ReceivePayload(r, seq, data, seg_fin) ==
    LET from == Greater(seq, r.rcv_nxt)
        text == InWindow(r, seq, data)
    IN  IF text = <<>> THEN r
        ELSE IF from = r.rcv_nxt THEN AbsorbOoo(AppendText(r, text), seg_fin)
        ELSE IF OooFull(r, from, from + Len(text)) THEN r
        ELSE OooInsert(r, from, text)

\* Everything but plain in-order text is acknowledged at once.
PayloadAckNow(r, seq, data, seg_fin) ==
    LET text == InWindow(r, seq, data)
        r1   == AppendText(r, text)
    IN  \/ text = <<>>
        \/ seq # r.rcv_nxt
        \/ AbsorbEnd(r1, seg_fin) # r1.rcv_nxt

-----------------------------------------------------------------------------
(* The peer's FIN *)

ParkedAheadOf(r, start, fin) == start .. fin \subseteq Held(r)

\* Mutant: a held FIN survives.
ConsumeFinKeepsHeld(r) == [r EXCEPT !.rcv_nxt = @ + 1, !.ooo = {}, !.eof = TRUE]

ConsumeFin(r) ==
    [r EXCEPT !.rcv_nxt = @ + 1, !.ooo = {}, !.ooo_fin = {}, !.eof = TRUE]

\* Mutant: the start is kept relative to the FIN.
HoldFinRelative(r, start, fin) ==
    [r EXCEPT !.ooo_fin = {[start |-> start - fin, seq |-> fin]}]

HoldFin(r, start, fin) ==
    IF \E h \in r.ooo_fin : h.seq < fin \/ (h.seq = fin /\ h.start <= start)
    THEN r
    ELSE [r EXCEPT !.ooo_fin = {[start |-> start, seq |-> fin]}]

\* Mutant: a FIN ahead of missing text is consumed.
ReceiveFinEarly(r, start, fin) == IF fin >= r.rcv_nxt THEN ConsumeFin(r) ELSE r

ReceiveFin(r, start, fin) ==
    IF fin = r.rcv_nxt THEN ConsumeFin(r)
    ELSE IF fin > r.rcv_nxt /\ fin - r.rcv_nxt <= Free(r) THEN HoldFin(r, start, fin)
    ELSE r

OooFinDue(r) == ~r.eof /\ \E h \in r.ooo_fin : h.seq = r.rcv_nxt

MaybeConsumeOooFin(r) == IF OooFinDue(r) THEN ConsumeFin(r) ELSE r

-----------------------------------------------------------------------------
(* Text and FIN of an acceptable segment, in a state that can receive.     *)

SegFin(r, seg) ==
    { f \in {seg.seq + Len(seg.data)} :
        "FIN" \in seg.flags /\ ~ParkedAheadOf(r, seg.seq, f) }

TakePayload(r, seg) ==
    IF seg.data = <<>> THEN r
    ELSE ReceivePayload(r, seg.seq, seg.data, SegFin(r, seg))

TakeFin(r, seg) ==
    IF SegFin(r, seg) = {} THEN TakePayload(r, seg)
    ELSE ReceiveFin(TakePayload(r, seg), seg.seq, seg.seq + Len(seg.data))

ReceiveSegment(r, seg) == MaybeConsumeOooFin(TakeFin(r, seg))

ReceiveAckNow(r, seg) ==
    \/ "FIN" \in seg.flags
    \/ seg.data # <<>> /\ PayloadAckNow(r, seg.seq, seg.data, SegFin(r, seg))
    \/ OooFinDue(TakeFin(r, seg))

\* The application reads n bytes.
RecvRead(r, n) == [r EXCEPT !.recv_ring = SubSeq(@, n + 1, Len(@))]
=============================================================================
