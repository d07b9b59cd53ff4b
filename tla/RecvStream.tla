----------------------------- MODULE RecvStream -----------------------------
(***************************************************************************)
(* One direction of a connection, seen by the receiver.  The peer's stream *)
(* is a constant; the network delivers any slice of it any number of times *)
(* in any order, so every way of segmenting, retransmitting, duplicating,  *)
(* reordering and losing segments is a behaviour.  The steps are those of  *)
(* on_synchronized (segment text and FIN), of an ACK being emitted, and of *)
(* recv().                                                                 *)
(***************************************************************************)
EXTENDS RecvSide

CONSTANTS
    Irs,      \* the peer's initial sequence number
    Stream,   \* the bytes the peer writes before its FIN
    MaxSeg    \* longest payload of a segment in this run

ASSUME RecvStreamAssumption ==
    /\ Irs \in Nat
    /\ Stream \in Seq(Byte)
    /\ MaxSeg \in Nat

VARIABLES
    r,     \* the receive half of the TCB
    got    \* the bytes recv() returned so far

vars == <<r, got>>

\* The sequence number of the peer's FIN.
FinSeq == Irs + 1 + Len(Stream)

\* Every slice of the stream the peer can put in a segment; only one that
\* reaches the end of the stream can carry the FIN.
Segments ==
    { s \in [seq : Irs + 1 .. FinSeq,
             data : UNION { [1 .. n -> Byte] : n \in 0 .. MaxSeg },
             flags : {{"ACK"}, {"ACK", "FIN"}}] :
        /\ s.seq + Len(s.data) <= FinSeq
        /\ \A i \in DOMAIN s.data : s.data[i] = Stream[s.seq - Irs + i - 1]
        /\ "FIN" \in s.flags => s.seq + Len(s.data) = FinSeq
        /\ "FIN" \in s.flags \/ s.data # <<>> }

\* The receive half after absorb_syn_options.
Synchronized ==
    [rcv_nxt |-> Irs + 1, rcv_adv_edge |-> Irs + 1, last_ack_sent |-> Irs + 1,
     irs |-> Irs, recv_ring |-> <<>>, ooo |-> {}, ooo_fin |-> {}, eof |-> FALSE]

\* The handshake is over; a passive or simultaneous open has also sent a
\* SYN-ACK, whose window is not scaled.
Init ==
    /\ r \in {Synchronized, NoteAckSent(Synchronized, TRUE)}
    /\ got = <<>>

SegLen(seg) == Len(seg.data) + Bit("FIN" \in seg.flags)

BareFin(seg) == "FIN" \in seg.flags /\ seg.data = <<>> /\ seg.seq = r.rcv_nxt

Receive(seg) ==
    /\ ~r.eof
    /\ Acceptable(r, seg.seq, SegLen(seg)) \/ BareFin(seg)
    /\ r' = ReceiveSegment(r, seg)
    /\ UNCHANGED got

SendAck ==
    /\ r' = NoteAckSent(r, FALSE)
    /\ UNCHANGED got

Read(n) ==
    /\ n \in 1 .. Len(r.recv_ring)
    /\ got' = got \o SubSeq(r.recv_ring, 1, n)
    /\ r' = RecvRead(r, n)

Next ==
    \/ \E seg \in Segments : Receive(seg)
    \/ SendAck
    \/ \E n \in 1 .. BUF : Read(n)

Spec == Init /\ [][Next]_vars

-----------------------------------------------------------------------------
TypeOK == r \in RecvState /\ got \in Seq(Byte)

\* The bytes of the stream taken in order so far: rcv_nxt counts them, the
\* SYN and, once consumed, the FIN.
Taken == r.rcv_nxt - Irs - 1 - Bit(r.eof)

\* What recv() returned, followed by what it will return, is exactly the
\* prefix of the peer's stream that RCV.NXT acknowledges: no byte is lost,
\* repeated, reordered or altered by trimming, parking and absorbing.
StreamIntegrity ==
    /\ Len(got) + Len(r.recv_ring) = Taken
    /\ \A i \in DOMAIN got : got[i] = Stream[i]
    /\ \A i \in DOMAIN r.recv_ring : r.recv_ring[i] = Stream[Len(got) + i]

\* The FIN is consumed (recv() may report ConnectionClosed) only after the
\* whole stream: a FIN that overtook data is held, never taken early.
EofComplete == r.eof => Taken = Len(Stream)

\* debug_validate_invariants: parked data lies beyond RCV.NXT and inside the
\* free space, one byte per position; the held FIN is beyond RCV.NXT;
\* nothing is parked once the FIN is consumed.
ParkedValid ==
    /\ Len(r.recv_ring) <= BUF
    /\ Held(r) \subseteq r.rcv_nxt + 1 .. r.rcv_nxt + Free(r) - 1
    /\ \A p, q \in r.ooo : p[1] = q[1] => p = q
    /\ \A h \in r.ooo_fin : h.seq > r.rcv_nxt /\ h.start <= h.seq
    /\ \A h, g \in r.ooo_fin : h = g
    /\ r.eof => r.ooo = {} /\ r.ooo_fin = {}

\* However segments overlap, touch or bridge what is parked, the OooList
\* never has more than OOO_MAX_RANGES disjoint ranges.
RangesBounded ==
    Cardinality({ x \in Held(r) : x - 1 \notin Held(r) }) <= OOO_MAX_RANGES

\* The advertised right edge never promises more than the ring can hold.
EdgeBacked == r.rcv_adv_edge <= r.rcv_nxt + Free(r)

\* "the right edge ... never moves left" (output.rs), as far as the window
\* field can say so: an ACK sent now offers again all that any ACK offered
\* before, or else every whole unit that the free space holds.  What it takes
\* back is thus less than a unit ("a sub-unit retraction that window scaling
\* makes unavoidable"), and nothing if windows are not scaled.
OfferKept ==
    LET edge == r.rcv_nxt + OutboundWindow(r, FALSE)
    IN  \/ edge >= r.rcv_adv_edge
        \/ edge > r.rcv_adv_edge - GRAIN /\ edge + GRAIN > r.rcv_nxt + Free(r)

\* "Nothing that has been SACKed is ever discarded (no reneging)" (ooo.rs):
\* a parked byte stays parked until RCV.NXT passes it.
NoReneging ==
    [][\A x \in Held(r) : x \in Held(r)' \/ x < r'.rcv_nxt]_vars
=============================================================================
