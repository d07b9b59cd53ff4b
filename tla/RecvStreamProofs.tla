-------------------------- MODULE RecvStreamProofs --------------------------
(***************************************************************************)
(* Proofs about the receive half (module RecvStream): for every stream,    *)
(* ring capacity, MSS, initial sequence number and limit on ranges.        *)
(*                                                                         *)
(* The argument: the invariant IInv says that what was read and what waits *)
(* in the ring are a prefix of the stream, that RCV.NXT counts it, and     *)
(* that every parked byte is in its place ahead of RCV.NXT and inside the  *)
(* free space.  Each operator of RecvSide has a lemma that it keeps this   *)
(* and only Advances; absorb_ooo needs that the first gap exists, and the  *)
(* held FIN that every FIN of the stream has the one number FinSeq.  That  *)
(* an offered window is kept also needs EdgeInField: the cap of the window *)
(* field never bites below an edge offered before.                         *)
(***************************************************************************)
EXTENDS RecvStream, SequenceTheorems, WellFoundedInduction, TLAPS

\* What was read, then what waits to be read, is a prefix of the stream.
Prefix(ring, g) ==
    /\ Len(ring) <= BUF
    /\ \A i \in 1 .. Len(g) : g[i] = Stream[i]
    /\ \A i \in 1 .. Len(ring) : ring[i] = Stream[Len(g) + i]

\* Parked bytes are bytes of the stream in their places, left of `end`.
InPlace(ooo, end) ==
    \A p \in ooo : /\ Irs < p[1] /\ p[1] < FinSeq /\ p[1] < end
                  /\ p[2] = Stream[p[1] - Irs]

OneFin(fins) ==
    /\ \A h \in fins : h.seq = FinSeq /\ h.start <= h.seq
    /\ \A h, k \in fins : h = k

\* The inductive invariant, but for what absorb_ooo is about to clean up:
\* RCV.NXT counts exactly the bytes taken, and nothing is out of place.
Sound(x, g) ==
    /\ Prefix(x.recv_ring, g)
    /\ ~x.eof => /\ x.rcv_nxt = Irs + 1 + Len(g) + Len(x.recv_ring)
                 /\ x.rcv_nxt <= FinSeq
    /\ x.eof => /\ x.rcv_nxt = FinSeq + 1
                /\ Len(g) + Len(x.recv_ring) = Len(Stream)
    /\ InPlace(x.ooo, x.rcv_nxt + Free(x))
    /\ OneFin(x.ooo_fin)
    /\ x.rcv_adv_edge <= x.rcv_nxt + Free(x)

Ahead(x) == \A p \in x.ooo : x.rcv_nxt < p[1]

\* Between two calls nothing parked is left behind RCV.NXT.
Settled(x) ==
    /\ Ahead(x)
    /\ \A h \in x.ooo_fin : x.rcv_nxt < h.seq
    /\ x.eof => x.ooo = {} /\ x.ooo_fin = {}

\* From x to y, edges only advance and nothing parked is dropped.
Advances(x, y) ==
    /\ x.rcv_nxt <= y.rcv_nxt
    /\ x.rcv_adv_edge <= y.rcv_adv_edge
    /\ \A n \in Held(x) : n \in Held(y) \/ n < y.rcv_nxt

\* Held lists the positions of what is parked.
LEMMA HeldIsParked ==
    ASSUME NEW x \in RecvState
    PROVE  /\ Held(x) \subseteq Nat
           /\ \A p \in x.ooo : p[1] \in Held(x) /\ p[1] \in Nat /\ p[2] \in Byte /\ p = <<p[1], p[2]>>
           /\ \A n \in Held(x) : \E p \in x.ooo : p[1] = n
BY DEF Held, RecvState

\* Text that continues the stream where a ring ends extends the ring.
LEMMA RingGrows ==
    ASSUME NEW ring \in Seq(Byte), NEW text \in Seq(Byte), NEW base \in Nat,
           \A i \in 1 .. Len(ring) : ring[i] = Stream[base + i],
           \A i \in 1 .. Len(text) : text[i] = Stream[base + Len(ring) + i]
    PROVE  /\ ring \o text \in Seq(Byte)
           /\ Len(ring \o text) = Len(ring) + Len(text)
           /\ \A i \in 1 .. Len(ring) + Len(text) : (ring \o text)[i] = Stream[base + i]
<1>1. /\ ring \o text \in Seq(Byte) /\ Len(ring \o text) = Len(ring) + Len(text)
      /\ \A i \in 1 .. Len(ring) + Len(text) :
            (ring \o text)[i] = IF i <= Len(ring) THEN ring[i] ELSE text[i - Len(ring)]
  BY ConcatProperties
<1>2. Len(ring) \in Nat /\ Len(text) \in Nat
  OBVIOUS
<1>3. ASSUME NEW i \in 1 .. Len(ring) + Len(text), i > Len(ring)
      PROVE  text[i - Len(ring)] = Stream[base + i]
  <2>1. i - Len(ring) \in 1 .. Len(text) /\ base + Len(ring) + (i - Len(ring)) = base + i
    BY <1>2, <1>3
  <2> QED
    BY <2>1
<1> QED
  BY <1>1, <1>2, <1>3

\* A bounded set of parked bytes leaves a first gap at or after RCV.NXT, so
\* the run absorb_ooo takes is well defined.
LEMMA RunEndExists ==
    ASSUME NEW x \in RecvState, \A n \in Held(x) : n < x.rcv_nxt + BUF
    PROVE  /\ RunEnd(x) \in x.rcv_nxt .. x.rcv_nxt + BUF
           /\ RunEnd(x) \notin Held(x)
           /\ x.rcv_nxt .. RunEnd(x) - 1 \subseteq Held(x)
<1> DEFINE lo   == x.rcv_nxt
           gaps == { n \in lo .. lo + BUF : n \notin Held(x) }
<1>0. lo \in Nat /\ BUF \in Nat
  BY CapacityAssumption DEF RecvState
<1>1. gaps \subseteq Nat /\ lo + BUF \in gaps
  BY <1>0
<1> HIDE DEF lo
<1> DEFINE less == OpToRel(<, Nat)
<1>a. IsWellFoundedOn(less, Nat)
  BY ZenonT(30), NatLessThanWellFounded
<1>b. \A i, j \in Nat : i < j => <<i, j>> \in less
  BY DEF OpToRel
<1> HIDE DEF less
<1>c. \E n \in gaps : \A m \in gaps : <<m, n>> \notin less
  BY ZenonT(30), <1>1, <1>a, WFMin
<1>2. PICK n \in gaps : \A m \in gaps : n <= m
  <2>1. PICK n \in gaps : \A m \in gaps : <<m, n>> \notin less
    BY <1>c
  <2>2. \A m \in gaps : ~(m < n)
    BY ZenonT(30), <1>1, <1>b, <2>1
  <2> QED
    BY <1>1, <2>2
<1>3. n \in lo .. lo + BUF /\ n \notin Held(x)
  OBVIOUS
<1>4. \A i \in lo .. n - 1 : i \in Held(x)
  BY <1>0, <1>2, <1>3
<1>5. \E k \in x.rcv_nxt .. x.rcv_nxt + BUF :
          k \notin Held(x) /\ x.rcv_nxt .. k - 1 \subseteq Held(x)
  BY <1>3, <1>4 DEF lo
<1> QED
  BY <1>5 DEF RunEnd
\* The constants and lengths the arithmetic below is about.
LEMMA Numbers ==
    /\ Irs \in Nat /\ BUF \in Nat /\ Len(Stream) \in Nat /\ FinSeq = Irs + 1 + Len(Stream)
    /\ \A x \in RecvState : Free(x) = BUF - Len(x.recv_ring)
BY RecvStreamAssumption, CapacityAssumption DEF Free, FinSeq

\* Taking in-order text keeps the half sound, whatever it drops of what was
\* parked, and leaves the right edge of the free space where it was.
LEMMA GrowSound ==
    ASSUME NEW x \in RecvState, NEW g \in Seq(Byte), Sound(x, g), ~x.eof,
           NEW text \in Seq(Byte), Len(text) <= Free(x), x.rcv_nxt + Len(text) <= FinSeq,
           \A i \in 1 .. Len(text) : text[i] = Stream[Len(g) + Len(x.recv_ring) + i],
           NEW y \in RecvState, y.recv_ring = x.recv_ring \o text,
           y.rcv_nxt = x.rcv_nxt + Len(text), y.rcv_adv_edge = x.rcv_adv_edge,
           y.ooo \subseteq x.ooo, y.ooo_fin \subseteq x.ooo_fin, ~y.eof
    PROVE  Sound(y, g) /\ y.rcv_nxt + Free(y) = x.rcv_nxt + Free(x)
<1> USE Numbers
<1>1. Prefix(x.recv_ring, g) /\ x.recv_ring \in Seq(Byte)
  BY DEF Sound, RecvState
<1>2. Prefix(y.recv_ring, g) /\ Len(y.recv_ring) = Len(x.recv_ring) + Len(text)
  <2> DEFINE ring == x.recv_ring
  <2>1. ring \in Seq(Byte) /\ \A i \in 1 .. Len(ring) : ring[i] = Stream[Len(g) + i]
    BY <1>1 DEF Prefix
  <2>2. \A i \in 1 .. Len(text) : text[i] = Stream[Len(g) + Len(ring) + i]
    OBVIOUS
  <2>4. y.recv_ring = ring \o text /\ Len(text) <= BUF - Len(ring)
    OBVIOUS
  <2> HIDE DEF ring
  <2>3. /\ ring \o text \in Seq(Byte) /\ Len(ring \o text) = Len(ring) + Len(text)
        /\ \A i \in 1 .. Len(ring) + Len(text) : (ring \o text)[i] = Stream[Len(g) + i]
    BY SMTT(30), <2>1, <2>2, RingGrows
  <2>5. Len(ring) + Len(text) <= BUF
    BY <2>1, <2>4
  <2> QED
    BY SMTT(30), <1>1, <2>1, <2>3, <2>4, <2>5 DEF Prefix, ring
<1>3. y.rcv_nxt + Free(y) = x.rcv_nxt + Free(x)
  BY SMTT(30), <1>2 DEF RecvState, Free
<1>4. y.rcv_nxt = Irs + 1 + Len(g) + Len(y.recv_ring) /\ y.rcv_nxt <= FinSeq
  BY <1>2 DEF Sound, RecvState
<1>5. InPlace(y.ooo, y.rcv_nxt + Free(y))
  BY <1>3 DEF Sound, InPlace
<1>6. OneFin(y.ooo_fin)
  BY ZenonT(30) DEF Sound, OneFin
<1>7. y.rcv_adv_edge <= y.rcv_nxt + Free(y)
  BY <1>3 DEF Sound
<1> QED
  BY ZenonT(30), <1>2, <1>3, <1>4, <1>5, <1>6, <1>7 DEF Sound

\* receive_payload's in-order case keeps the half sound.
LEMMA AppendSound ==
    ASSUME NEW x \in RecvState, NEW g \in Seq(Byte), Sound(x, g), ~x.eof,
           NEW text \in Seq(Byte), Len(text) <= Free(x), x.rcv_nxt + Len(text) <= FinSeq,
           \A i \in 1 .. Len(text) : text[i] = Stream[Len(g) + Len(x.recv_ring) + i],
           NEW y, y = AppendText(x, text)
    PROVE  /\ y \in RecvState /\ Sound(y, g) /\ ~y.eof
           /\ y.rcv_nxt = x.rcv_nxt + Len(text) /\ y.rcv_adv_edge = x.rcv_adv_edge
           /\ y.ooo = x.ooo /\ y.ooo_fin \subseteq x.ooo_fin
<1>1. x.recv_ring \o text \in Seq(Byte) /\ x.rcv_nxt + Len(text) \in Nat
  BY DEF RecvState
<1>2. /\ y \in RecvState /\ y.recv_ring = x.recv_ring \o text
      /\ y.rcv_nxt = x.rcv_nxt + Len(text) /\ y.rcv_adv_edge = x.rcv_adv_edge
      /\ y.ooo = x.ooo /\ y.ooo_fin \subseteq x.ooo_fin /\ ~y.eof
  BY ZenonT(30), <1>1 DEF AppendText, RecvState
<1>3. Sound(y, g)
  BY ZenonT(30), <1>2, GrowSound
<1> QED
  BY <1>2, <1>3

\* What a run of parked bytes contributes to the ring.
LEMMA ParkedText ==
    ASSUME NEW x \in RecvState, NEW end \in Int, InPlace(x.ooo, end),
           NEW from \in Nat, NEW n \in Nat, from .. from + n - 1 \subseteq Held(x)
    PROVE  /\ Parked(x, from, n) \in Seq(Byte) /\ Len(Parked(x, from, n)) = n
           /\ \A i \in 1 .. n : Parked(x, from, n)[i] = Stream[(from + i - 1) - Irs]
<1>1. ASSUME NEW i \in 1 .. n
      PROVE  /\ (CHOOSE b \in Byte : <<from + i - 1, b>> \in x.ooo) = Stream[(from + i - 1) - Irs]
             /\ (CHOOSE b \in Byte : <<from + i - 1, b>> \in x.ooo) \in Byte
  <2> DEFINE at == from + i - 1
  <2>1. at \in from .. from + n - 1
    OBVIOUS
  <2>2. at \in Held(x)
    BY <2>1
  <2> HIDE DEF at
  <2>3. \E b \in Byte : <<at, b>> \in x.ooo
    <3>1. PICK p \in x.ooo : p[1] = at
      BY <2>2, HeldIsParked
    <3>2. p = <<at, p[2]>> /\ p[2] \in Byte
      BY <3>1, HeldIsParked
    <3> QED
      BY <3>1, <3>2
  <2>4. \A b \in Byte : <<at, b>> \in x.ooo => b = Stream[at - Irs]
    BY DEF InPlace
  <2>5. (CHOOSE b \in Byte : <<at, b>> \in x.ooo) = Stream[at - Irs]
        /\ (CHOOSE b \in Byte : <<at, b>> \in x.ooo) \in Byte
    BY <2>3, <2>4
  <2> QED
    BY <2>5 DEF at
<1>2. Parked(x, from, n) \in [1 .. n -> Byte]
  BY ZenonT(30), <1>1 DEF Parked
<1>3. Parked(x, from, n) \in Seq(Byte) /\ Len(Parked(x, from, n)) = n
  BY <1>2
<1> QED
  BY ZenonT(30), <1>1, <1>3 DEF Parked

\* absorb_ooo takes the whole run of parked bytes at RCV.NXT: a FIN of this
\* stream is never in its way.
LEMMA AbsorbsRun ==
    ASSUME NEW x \in RecvState, NEW g \in Seq(Byte), Sound(x, g), ~x.eof,
           NEW fins \in SUBSET {FinSeq}
    PROVE  /\ AbsorbEnd(x, fins) = RunEnd(x)
           /\ RunEnd(x) \in x.rcv_nxt .. FinSeq
           /\ RunEnd(x) <= x.rcv_nxt + Free(x)
           /\ RunEnd(x) \notin Held(x)
           /\ x.rcv_nxt .. RunEnd(x) - 1 \subseteq Held(x)
<1> USE Numbers
<1>0. x.rcv_nxt \in Nat /\ Len(x.recv_ring) \in Nat /\ Free(x) \in Nat /\ Free(x) <= BUF
      /\ FinSeq \in Nat /\ x.rcv_nxt <= FinSeq
  BY SMTT(30) DEF RecvState, Free, Sound, Prefix
<1>1. \A n \in Held(x) : n < x.rcv_nxt + Free(x) /\ n < FinSeq /\ n \in Nat
  BY HeldIsParked DEF Sound, InPlace
<1>2. \A n \in Held(x) : n < x.rcv_nxt + BUF
  BY <1>0, <1>1
<1> DEFINE end == RunEnd(x)
           lo  == x.rcv_nxt
<1>3. end \in lo .. lo + BUF /\ end \notin Held(x) /\ lo .. end - 1 \subseteq Held(x)
  BY <1>2, RunEndExists
<1> DEFINE stops == { f \in fins \cup { h.seq : h \in x.ooo_fin } : f >= lo }
<1>4. stops \subseteq {FinSeq}
  BY ZenonT(30) DEF Sound, OneFin
<1>5. AbsorbEnd(x, fins) = CHOOSE n \in {end} \cup stops : n <= end /\ \A f \in stops : n <= f
  BY DEF AbsorbEnd
<1>l. lo \in Nat /\ lo <= FinSeq
  BY <1>0
<1>f. \A n \in Held(x) : n < lo + Free(x) /\ n < FinSeq /\ n \in Nat
  BY <1>1
<1> HIDE DEF end, lo, stops
<1>6. end <= FinSeq /\ end <= lo + Free(x)
  <2>1. CASE end = lo
    BY <1>0, <1>l, <2>1
  <2>2. CASE end # lo
    <3>1. end - 1 \in lo .. end - 1
      BY <1>0, <1>l, <1>3, <2>2
    <3>2. end - 1 < FinSeq /\ end - 1 < lo + Free(x)
      BY <1>3, <1>f, <3>1
    <3> QED
      BY SMTT(30), <1>0, <1>l, <1>3, <3>2
  <2> QED
    BY <2>1, <2>2
<1>7. AbsorbEnd(x, fins) = end
  <2>1. end <= end /\ \A f \in stops : end <= f
    BY <1>0, <1>l, <1>3, <1>4, <1>6
  <2>2. \A n \in {end} \cup stops : n <= end => n = end
    BY <1>0, <1>l, <1>3, <1>4, <1>6
  <2> QED
    BY <1>5, <2>1, <2>2
<1> QED
  BY <1>0, <1>l, <1>3, <1>6, <1>7 DEF end, lo

\* After in-order text, absorb_ooo leaves nothing parked at or below RCV.NXT.
LEMMA AbsorbSound ==
    ASSUME NEW x \in RecvState, NEW g \in Seq(Byte), Sound(x, g), ~x.eof,
           NEW fins \in SUBSET {FinSeq}, NEW y, y = AbsorbOoo(x, fins)
    PROVE  /\ y \in RecvState /\ Sound(y, g) /\ ~y.eof
           /\ Ahead(y)
           /\ y.ooo_fin = x.ooo_fin
           /\ Advances(x, y)
<1> DEFINE end  == RunEnd(x)
           n    == end - x.rcv_nxt
           text == Parked(x, x.rcv_nxt, n)
<1>1. /\ AbsorbEnd(x, fins) = end /\ end \in x.rcv_nxt .. FinSeq /\ end <= x.rcv_nxt + Free(x)
      /\ end \notin Held(x) /\ x.rcv_nxt .. end - 1 \subseteq Held(x)
  BY SMTT(30), AbsorbsRun
<1>2. /\ x.rcv_nxt \in Nat /\ end \in Nat /\ n \in Nat /\ x.rcv_nxt + n = end
      /\ FinSeq \in Nat /\ Free(x) \in Int
  BY SMTT(30), <1>1, Numbers DEF RecvState, Free
<1>3. x.rcv_nxt .. x.rcv_nxt + n - 1 \subseteq Held(x)
  BY <1>1, <1>2
<1> HIDE DEF n, end
<1>4. /\ text \in Seq(Byte) /\ Len(text) = n
      /\ \A i \in 1 .. n : text[i] = Stream[(x.rcv_nxt + i - 1) - Irs]
  <2>1. InPlace(x.ooo, x.rcv_nxt + Free(x)) /\ x.rcv_nxt + Free(x) \in Int
    BY <1>2 DEF Sound
  <2> QED
    BY ZenonT(30), <1>2, <1>3, <2>1, ParkedText
<1> HIDE DEF text
<1>5. Len(text) <= Free(x) /\ x.rcv_nxt + Len(text) <= FinSeq
  BY <1>1, <1>2, <1>4
<1>6. \A i \in 1 .. Len(text) : text[i] = Stream[Len(g) + Len(x.recv_ring) + i]
  <2>1. \A i \in 1 .. n : (x.rcv_nxt + i - 1) - Irs = Len(g) + Len(x.recv_ring) + i
    BY <1>2, Numbers DEF Sound, RecvState
  <2> QED
    BY <1>4, <2>1
<1>7. x.recv_ring \o text \in Seq(Byte)
  BY <1>4 DEF RecvState
<1>8. y = [x EXCEPT !.recv_ring = x.recv_ring \o text, !.rcv_nxt = end,
                    !.ooo = { p \in x.ooo : p[1] >= end }]
  BY SMTT(30), <1>1 DEF AbsorbOoo, text, n, end
<1>9. /\ y \in RecvState /\ y.recv_ring = x.recv_ring \o text
      /\ y.rcv_nxt = end /\ y.rcv_adv_edge = x.rcv_adv_edge
      /\ y.ooo = { p \in x.ooo : p[1] >= end } /\ y.ooo_fin = x.ooo_fin /\ ~y.eof
  BY ZenonT(30), <1>2, <1>7, <1>8 DEF RecvState
<1>10. Sound(y, g)
  BY ZenonT(30), <1>2, <1>4, <1>5, <1>6, <1>9, GrowSound
<1>11. Ahead(y)
  BY <1>1, <1>2, <1>9, HeldIsParked DEF Ahead
<1>12. Advances(x, y)
  <2>1. \A k \in Held(x) : k \in Held(y) \/ k < y.rcv_nxt
    BY <1>2, <1>9, HeldIsParked DEF Held
  <2>2. x.rcv_nxt <= y.rcv_nxt
    BY <1>1, <1>2, <1>9
  <2>3. x.rcv_adv_edge \in Nat
    BY DEF RecvState
  <2>4. x.rcv_adv_edge <= y.rcv_adv_edge
    BY <1>9, <2>3
  <2> QED
    BY <2>1, <2>2, <2>4 DEF Advances
<1> QED
  BY <1>9, <1>10, <1>11, <1>12

\* A segment is a slice of the stream; only its end can carry the FIN.
LEMMA SegmentFacts ==
    ASSUME NEW seg \in Segments
    PROVE  /\ seg.seq \in Nat /\ Irs < seg.seq /\ seg.data \in Seq(Byte)
           /\ seg.seq + Len(seg.data) <= FinSeq
           /\ \A i \in 1 .. Len(seg.data) : seg.data[i] = Stream[(seg.seq + i - 1) - Irs]
           /\ \A x : SegFin(x, seg) \in SUBSET {FinSeq}
           /\ \A x : SegFin(x, seg) # {} => seg.seq + Len(seg.data) = FinSeq
<1>1. seg.seq \in Irs + 1 .. FinSeq /\ seg.seq + Len(seg.data) <= FinSeq
  BY DEF Segments
<1>2. PICK n \in 0 .. MaxSeg : seg.data \in [1 .. n -> Byte]
  BY DEF Segments
<1>3. n \in Nat
  BY RecvStreamAssumption
<1>4. seg.data \in Seq(Byte) /\ Len(seg.data) = n
  BY <1>2, <1>3
<1>5. seg.seq \in Nat /\ Irs < seg.seq /\ Irs \in Nat /\ FinSeq \in Nat
  BY <1>1, Numbers
<1>6. \A i \in 1 .. n : seg.data[i] = Stream[seg.seq - Irs + i - 1]
  BY <1>2 DEF Segments
<1>7. \A i \in 1 .. n : seg.seq - Irs + i - 1 = (seg.seq + i - 1) - Irs
  BY <1>3, <1>5
<1>8. "FIN" \in seg.flags => seg.seq + Len(seg.data) = FinSeq
  BY DEF Segments
<1> QED
  BY ZenonT(30), <1>1, <1>4, <1>5, <1>6, <1>7, <1>8 DEF SegFin

\* What is left of a payload once both its ends are trimmed.
LEMMA Cut ==
    ASSUME NEW data \in Seq(Byte), NEW m \in Nat, m >= 1, NEW k \in Int, k <= Len(data),
           SubSeq(data, m, k) # <<>>
    PROVE  /\ SubSeq(data, m, k) \in Seq(Byte) /\ Len(SubSeq(data, m, k)) = k - m + 1
           /\ \A i \in 1 .. k - m + 1 : SubSeq(data, m, k)[i] = data[m + i - 1]
<1>1. ~(k < m)
  BY SubSeqEmpty
<1>2. \A i \in m .. k : data[i] \in Byte
  OBVIOUS
<1>3. /\ SubSeq(data, m, k) \in Seq(Byte)
      /\ Len(SubSeq(data, m, k)) = IF m <= k THEN k - m + 1 ELSE 0
      /\ \A i \in 1 .. k - m + 1 : SubSeq(data, m, k)[i] = data[m + i - 1]
  BY <1>2, SubSeqProperties
<1> QED
  BY <1>1, <1>3

\* A slice of a slice of the stream is a slice of the stream.
LEMMA SliceOfSlice ==
    ASSUME NEW data \in Seq(Byte), NEW seq \in Nat, NEW from \in Nat, from >= seq,
           \A i \in 1 .. Len(data) : data[i] = Stream[(seq + i - 1) - Irs],
           NEW k \in Int, k <= Len(data), SubSeq(data, from - seq + 1, k) # <<>>
    PROVE  LET text == SubSeq(data, from - seq + 1, k) IN
           /\ text \in Seq(Byte) /\ Len(text) = (seq + k) - from
           /\ \A i \in 1 .. Len(text) : text[i] = Stream[(from + i - 1) - Irs]
<1> DEFINE m    == from - seq + 1
           text == SubSeq(data, m, k)
<1>1. m \in Nat /\ m >= 1 /\ seq + m = from + 1 /\ Irs \in Nat
  BY Numbers
<1>0. text # <<>>
  BY ZenonT(30)
<1> HIDE DEF m
<1>2. /\ text \in Seq(Byte) /\ Len(text) = k - m + 1
      /\ \A i \in 1 .. k - m + 1 : text[i] = data[m + i - 1]
  BY <1>0, <1>1, Cut
<1> HIDE DEF text
<1>3. ASSUME NEW i \in 1 .. k - m + 1 PROVE text[i] = Stream[(from + i - 1) - Irs]
  <2>1. text[i] = data[m + i - 1]
    BY <1>2
  <2>3. m + i - 1 \in 1 .. Len(data)
    <3>1. i \in Nat /\ i >= 1 /\ i <= k - m + 1
      BY <1>1
    <3>2. Len(data) \in Nat /\ k \in Int /\ k <= Len(data)
      OBVIOUS
    <3> QED
      BY ONLY <1>1, <3>1, <3>2
  <2>2. (seq + (m + i - 1) - 1) - Irs = (from + i - 1) - Irs
    BY <1>1
  <2> QED
    BY <2>1, <2>2, <2>3
<1>4. Len(text) = (seq + k) - from
  BY <1>1, <1>2
<1> QED
  BY <1>2, <1>3, <1>4 DEF text, m

\* What receive_payload takes of a segment is a slice of the stream inside
\* the free space.
LEMMA WindowText ==
    ASSUME NEW x \in RecvState, NEW g \in Seq(Byte), Sound(x, g), ~x.eof,
           NEW seg \in Segments, InWindow(x, seg.seq, seg.data) # <<>>
    PROVE  LET from == Greater(seg.seq, x.rcv_nxt)
               text == InWindow(x, seg.seq, seg.data)
           IN  /\ from \in Nat /\ x.rcv_nxt <= from /\ Irs < from
               /\ text \in Seq(Byte)
               /\ from + Len(text) <= FinSeq /\ from + Len(text) <= x.rcv_nxt + Free(x)
               /\ \A i \in 1 .. Len(text) : text[i] = Stream[(from + i - 1) - Irs]
<1> DEFINE seq  == seg.seq
           data == seg.data
           nxt  == x.rcv_nxt
           free == Free(x)
           from == Greater(seq, nxt)
           k    == Lesser(Len(data), nxt + free - seq)
           text == SubSeq(data, from - seq + 1, k)
<1>1. /\ seq \in Nat /\ Irs < seq /\ data \in Seq(Byte) /\ seq + Len(data) <= FinSeq
      /\ \A i \in 1 .. Len(data) : data[i] = Stream[(seq + i - 1) - Irs]
  BY SegmentFacts
<1>2. nxt \in Nat /\ free \in Nat /\ Irs \in Nat /\ FinSeq \in Nat
  BY Numbers DEF RecvState, Free, Sound, Prefix
<1>3. InWindow(x, seg.seq, seg.data) = text
  BY DEF InWindow
<1>t. text # <<>>
  BY <1>3
<1> HIDE DEF seq, data, nxt, free
<1>4. from \in Nat /\ from >= seq /\ from >= nxt
  BY <1>1, <1>2 DEF Greater
<1>5. k \in Int /\ k <= Len(data) /\ k <= nxt + free - seq
  BY <1>1, <1>2 DEF Lesser
<1> HIDE DEF from, k
<1>6. /\ text \in Seq(Byte) /\ Len(text) = (seq + k) - from
      /\ \A i \in 1 .. Len(text) : text[i] = Stream[(from + i - 1) - Irs]
  BY <1>1, <1>4, <1>5, <1>t, SliceOfSlice
<1>7. from + Len(text) = seq + k
  BY <1>1, <1>4, <1>5, <1>6
<1> HIDE DEF text
<1>8. /\ from + Len(text) <= FinSeq /\ from + Len(text) <= nxt + free
      /\ Irs < from
  BY <1>1, <1>2, <1>4, <1>5, <1>7
<1> QED
  BY <1>3, <1>4, <1>6, <1>8 DEF from, seq, nxt, free

\* Parking a slice of the stream drops nothing that was parked.
LEMMA InsertSound ==
    ASSUME NEW x \in RecvState, NEW g \in Seq(Byte), Sound(x, g), Ahead(x), ~x.eof,
           NEW from \in Nat, x.rcv_nxt < from, Irs < from, NEW text \in Seq(Byte),
           from + Len(text) <= FinSeq, from + Len(text) <= x.rcv_nxt + Free(x),
           \A i \in 1 .. Len(text) : text[i] = Stream[(from + i - 1) - Irs],
           NEW y, y = OooInsert(x, from, text)
    PROVE  /\ y \in RecvState /\ Sound(y, g) /\ Ahead(y) /\ ~y.eof /\ Advances(x, y)
<1> DEFINE new == { <<from + i - 1, text[i]>> : i \in DOMAIN text }
<1>0. x.rcv_nxt \in Nat /\ Free(x) \in Int /\ Irs \in Nat /\ FinSeq \in Nat
  BY Numbers DEF RecvState, Free
<1>1. \A p \in new : \E i \in 1 .. Len(text) : p = <<from + i - 1, text[i]>>
  BY SMTT(30)
<1>2. \A i \in 1 .. Len(text) : text[i] \in Byte /\ from + i - 1 \in Nat /\ from <= from + i - 1
                               /\ from + i - 1 < from + Len(text)
  OBVIOUS
<1>3. \A p \in new : /\ p \in Nat \X Byte /\ from <= p[1] /\ p[1] < from + Len(text)
                     /\ p[2] = Stream[p[1] - Irs]
  <2> TAKE p \in new
  <2>1. PICK i \in 1 .. Len(text) : p = <<from + i - 1, text[i]>>
    BY <1>1
  <2>2. p[1] = from + i - 1 /\ p[2] = text[i] /\ p \in Nat \X Byte
    BY <1>2, <2>1
  <2> QED
    BY <1>2, <2>2
<1>n. new \in SUBSET (Nat \X Byte)
  BY <1>3
<1>4. /\ y.ooo = { p \in x.ooo : p[1] \notin from .. from + Len(text) - 1 } \cup new
      /\ y.ooo_fin \subseteq x.ooo_fin /\ y.rcv_nxt = x.rcv_nxt /\ y.recv_ring = x.recv_ring
      /\ y.rcv_adv_edge = x.rcv_adv_edge /\ y.eof = x.eof /\ y \in RecvState
  <2> DEFINE O == { p \in x.ooo : p[1] \notin from .. (from + Len(text)) - 1 } \cup new
             F == { h \in x.ooo_fin : ~(from <= h.start /\ from + Len(text) > h.seq) }
  <2>1. y = [x EXCEPT !.ooo = O, !.ooo_fin = F]
    BY DEF OooInsert
  <2>2. O \in SUBSET (Nat \X Byte) /\ F \in SUBSET HeldFin /\ F \subseteq x.ooo_fin
    BY <1>n DEF RecvState
  <2> HIDE DEF O, F, new
  <2>3. y.ooo = O /\ y.ooo_fin = F /\ y.rcv_nxt = x.rcv_nxt /\ y.recv_ring = x.recv_ring
        /\ y.rcv_adv_edge = x.rcv_adv_edge /\ y.eof = x.eof /\ y \in RecvState
    BY ZenonT(30), <2>1, <2>2 DEF RecvState
  <2> QED
    BY <2>2, <2>3 DEF O
<1>c. \A n \in from .. from + Len(text) - 1 : \E p \in new : p[1] = n
  <2> TAKE n \in from .. from + Len(text) - 1
  <2>1. n - from + 1 \in DOMAIN text /\ from + (n - from + 1) - 1 = n
    OBVIOUS
  <2>2. <<from + (n - from + 1) - 1, text[n - from + 1]>> \in new
    BY <2>1
  <2> QED
    BY ZenonT(30), <2>1, <2>2
<1> HIDE DEF new
<1>5. Free(y) = Free(x)
  BY <1>4 DEF Free
<1>6. InPlace(y.ooo, y.rcv_nxt + Free(y))
  <2>1. ASSUME NEW p \in x.ooo
        PROVE  /\ Irs < p[1] /\ p[1] < FinSeq /\ p[1] < y.rcv_nxt + Free(y)
               /\ p[2] = Stream[p[1] - Irs]
    BY <1>4, <1>5 DEF Sound, InPlace
  <2>2. ASSUME NEW p \in new
        PROVE  /\ Irs < p[1] /\ p[1] < FinSeq /\ p[1] < y.rcv_nxt + Free(y)
               /\ p[2] = Stream[p[1] - Irs]
    <3>1. p[1] \in Nat
      BY <1>3
    <3> QED
      BY SMTT(30), <1>0, <1>3, <1>4, <1>5, <3>1
  <2> QED
    BY <1>4, <2>1, <2>2 DEF InPlace
<1>7. Ahead(y)
  BY SMTT(30), <1>0, <1>3, <1>4 DEF Ahead
<1>8. Sound(y, g)
  BY <1>4, <1>5, <1>6 DEF Sound, OneFin
<1>9. ASSUME NEW n \in Held(x) PROVE n \in Held(y)
  <2>1. PICK p \in x.ooo : p[1] = n
    BY HeldIsParked
  <2>2. CASE n \in from .. from + Len(text) - 1
    BY ZenonT(30), <1>4, <1>c, <2>2 DEF Held
  <2>3. CASE n \notin from .. from + Len(text) - 1
    BY <1>4, <2>1, <2>3 DEF Held
  <2> QED
    BY <2>2, <2>3
<1>10. Advances(x, y)
  BY SMTT(30), <1>0, <1>4, <1>9 DEF Advances, RecvState
<1> QED
  BY <1>4, <1>7, <1>8, <1>10

\* receive_payload keeps the half sound; what RCV.NXT reached is no longer
\* parked.
LEMMA PayloadSound ==
    ASSUME NEW x \in RecvState, NEW g \in Seq(Byte), Sound(x, g), Ahead(x), ~x.eof,
           NEW seg \in Segments, NEW y, y = TakePayload(x, seg)
    PROVE  y \in RecvState /\ Sound(y, g) /\ Ahead(y) /\ ~y.eof /\ Advances(x, y)
<1> DEFINE fins == SegFin(x, seg)
           from == Greater(seg.seq, x.rcv_nxt)
           text == InWindow(x, seg.seq, seg.data)
<1>0. x.rcv_nxt \in Nat /\ x.rcv_adv_edge \in Nat /\ Irs \in Nat /\ fins \in SUBSET {FinSeq}
  BY Numbers, SegmentFacts DEF RecvState
<1>1. CASE y = x
  BY <1>0, <1>1 DEF Advances
<1>2. ASSUME y # x
      PROVE  /\ text # <<>>
             /\ \/ from = x.rcv_nxt /\ y = AbsorbOoo(AppendText(x, text), fins)
                \/ from # x.rcv_nxt /\ y = OooInsert(x, from, text)
  BY <1>2 DEF TakePayload, ReceivePayload
<1>3. ASSUME y # x
      PROVE  /\ from \in Nat /\ x.rcv_nxt <= from /\ Irs < from
             /\ text \in Seq(Byte)
             /\ from + Len(text) <= FinSeq /\ from + Len(text) <= x.rcv_nxt + Free(x)
             /\ \A i \in 1 .. Len(text) : text[i] = Stream[(from + i - 1) - Irs]
  BY <1>2, <1>3, WindowText
<1> HIDE DEF fins, from, text
<1>4. CASE y # x /\ from = x.rcv_nxt
  <2> DEFINE z == AppendText(x, text)
  <2>1. /\ text \in Seq(Byte) /\ x.rcv_nxt + Len(text) <= FinSeq
        /\ Free(x) \in Int /\ x.rcv_nxt + Len(text) <= x.rcv_nxt + Free(x)
        /\ Len(text) <= Free(x)
    <3>1. Free(x) \in Int
      BY Numbers DEF RecvState, Free
    <3> QED
      BY <1>0, <1>3, <1>4, <3>1
  <2>2. \A i \in 1 .. Len(text) : text[i] = Stream[Len(g) + Len(x.recv_ring) + i]
    <3> TAKE i \in 1 .. Len(text)
    <3>1. text[i] = Stream[(x.rcv_nxt + i - 1) - Irs]
      BY <1>3, <1>4
    <3>2. x.rcv_nxt = Irs + 1 + Len(g) + Len(x.recv_ring) /\ Len(x.recv_ring) \in Nat
      BY DEF Sound, RecvState
    <3>3. i \in Nat /\ Len(g) \in Nat
      BY <2>1
    <3> DEFINE n == x.rcv_nxt
               a == Len(g)
               b == Len(x.recv_ring)
    <3>4. n \in Nat /\ a \in Nat /\ b \in Nat /\ n = Irs + 1 + a + b
      BY ZenonT(30), <1>0, <3>2, <3>3
    <3> HIDE DEF n, a, b
    <3>5. (n + i - 1) - Irs = a + b + i
      BY ONLY <1>0, <3>3, <3>4
    <3> QED
      BY <3>1, <3>5 DEF n, a, b
  <2>3. /\ z \in RecvState /\ Sound(z, g) /\ ~z.eof
        /\ z.rcv_nxt = x.rcv_nxt + Len(text) /\ z.rcv_adv_edge = x.rcv_adv_edge
        /\ z.ooo = x.ooo /\ z.ooo_fin \subseteq x.ooo_fin
    BY <2>1, <2>2, AppendSound
  <2>4. y = AbsorbOoo(z, fins)
    BY <1>2, <1>4
  <2> HIDE DEF z
  <2>5. y \in RecvState /\ Sound(y, g) /\ ~y.eof /\ Ahead(y) /\ Advances(z, y)
    BY SMTT(30), <1>0, <2>3, <2>4, AbsorbSound
  <2>6. x.rcv_nxt <= z.rcv_nxt /\ Held(z) = Held(x)
    BY <1>0, <2>1, <2>3 DEF Held
  <2>7. z.rcv_nxt \in Nat /\ y.rcv_nxt \in Nat
    BY <2>3, <2>5 DEF RecvState
  <2>8. Advances(x, y)
    BY SMTT(30), <1>0, <2>3, <2>5, <2>6, <2>7 DEF Advances
  <2> QED
    BY SMTT(30), <2>5, <2>8
<1>5. CASE y # x /\ from # x.rcv_nxt
  <2>1. x.rcv_nxt < from
    BY <1>0, <1>3, <1>5
  <2>2. y = OooInsert(x, from, text)
    BY <1>2, <1>5
  <2> QED
    BY SMTT(30), <1>3, <1>5, <2>1, <2>2, InsertSound
<1> QED
  BY <1>1, <1>4, <1>5

\* Consuming the FIN at RCV.NXT ends the stream, all of which was taken.
LEMMA ConsumeSound ==
    ASSUME NEW x \in RecvState, NEW g \in Seq(Byte), Sound(x, g), ~x.eof,
           x.rcv_nxt = FinSeq, NEW y, y = ConsumeFin(x)
    PROVE  y \in RecvState /\ Sound(y, g) /\ Settled(y) /\ y.eof /\ Advances(x, y)
<1> USE Numbers
<1>0. /\ x.rcv_nxt \in Nat /\ x.rcv_adv_edge \in Nat /\ Len(x.recv_ring) \in Nat /\ Len(g) \in Nat
      /\ Free(x) \in Int
  BY DEF RecvState, Free
<1>1. /\ y \in RecvState /\ y.rcv_nxt = x.rcv_nxt + 1 /\ y.ooo = {} /\ y.ooo_fin = {} /\ y.eof
      /\ y.recv_ring = x.recv_ring /\ y.rcv_adv_edge = x.rcv_adv_edge
  <2>1. x.rcv_nxt + 1 \in Nat
    BY <1>0
  <2>2. y = [x EXCEPT !.rcv_nxt = x.rcv_nxt + 1, !.ooo = {}, !.ooo_fin = {}, !.eof = TRUE]
    BY DEF ConsumeFin
  <2>3. y \in RecvState
    BY ZenonT(30), <2>1, <2>2 DEF RecvState
  <2>4. /\ y.rcv_nxt = x.rcv_nxt + 1 /\ y.ooo = {} /\ y.ooo_fin = {}
        /\ y.recv_ring = x.recv_ring /\ y.rcv_adv_edge = x.rcv_adv_edge
    BY <2>2 DEF RecvState
  <2>5. y.eof
    BY <2>2, Zenon DEF RecvState
  <2> QED
    BY <2>3, <2>4, <2>5
<1>2. x.rcv_nxt = Irs + 1 + Len(g) + Len(x.recv_ring) /\ Prefix(x.recv_ring, g)
      /\ x.rcv_adv_edge <= x.rcv_nxt + Free(x)
  BY ZenonT(30) DEF Sound
<1>3. Len(g) + Len(x.recv_ring) = Len(Stream) /\ y.rcv_nxt = FinSeq + 1
  <2> DEFINE a   == Len(g)
             b   == Len(x.recv_ring)
             len == Len(Stream)
  <2>1. a \in Nat /\ b \in Nat /\ len \in Nat /\ Irs \in Nat
        /\ Irs + 1 + a + b = Irs + 1 + len
    BY ZenonT(30), <1>0, <1>2
  <2> HIDE DEF a, b, len
  <2>2. a + b = len
    BY ONLY <2>1
  <2> QED
    BY <1>1, <2>2 DEF a, b, len
<1>4. Free(y) = Free(x) /\ y.rcv_adv_edge <= y.rcv_nxt + Free(y)
  <2>1. Free(y) = Free(x)
    BY <1>1 DEF Free
  <2> QED
    <3>1. ASSUME NEW edge \in Nat, NEW n \in Nat, NEW free \in Int, edge <= n + free
          PROVE  edge <= (n + 1) + free
      BY ONLY <3>1
    <3> QED
      BY ZenonT(30), <1>0, <1>1, <1>2, <2>1, <3>1
<1>5. Sound(y, g)
  BY ZenonT(30), <1>1, <1>2, <1>3, <1>4 DEF Sound, InPlace, OneFin
<1>6. \A n \in Held(x) : n < y.rcv_nxt
  <2> TAKE n \in Held(x)
  <2>1. n \in Nat /\ n < FinSeq
    BY HeldIsParked DEF Sound, InPlace
  <2> QED
    BY <1>3, <2>1
<1>7. Advances(x, y)
  BY SMTT(30), <1>0, <1>1, <1>6 DEF Advances
<1> QED
  BY <1>1, <1>5, <1>7 DEF Settled, Ahead

\* Advances composes.
LEMMA AdvancesOn ==
    ASSUME NEW x \in RecvState, NEW y \in RecvState, NEW z \in RecvState,
           Advances(x, y), Advances(y, z)
    PROVE  Advances(x, z)
<1>1. /\ x.rcv_nxt \in Nat /\ y.rcv_nxt \in Nat /\ z.rcv_nxt \in Nat
      /\ x.rcv_adv_edge \in Nat /\ y.rcv_adv_edge \in Nat /\ z.rcv_adv_edge \in Nat
      /\ Held(x) \subseteq Nat
  BY ZenonT(30), HeldIsParked DEF RecvState
<1> QED
  BY <1>1 DEF Advances

\* receive_fin consumes the FIN at RCV.NXT and holds one that is ahead.
LEMMA FinSound ==
    ASSUME NEW x \in RecvState, NEW g \in Seq(Byte), Sound(x, g), Ahead(x), ~x.eof,
           NEW start \in Nat, start <= FinSeq, NEW y, y = ReceiveFin(x, start, FinSeq)
    PROVE  /\ y \in RecvState /\ Sound(y, g) /\ Ahead(y) /\ Advances(x, y)
           /\ y.eof => Settled(y)
<1>0. FinSeq \in Nat /\ x.rcv_nxt \in Nat /\ x.rcv_adv_edge \in Nat
  BY Numbers DEF RecvState
<1>1. CASE y = x
  BY <1>0, <1>1 DEF Advances
<1>2. CASE x.rcv_nxt = FinSeq /\ y = ConsumeFin(x)
  BY <1>2, ConsumeSound DEF Settled
<1>3. CASE y = [x EXCEPT !.ooo_fin = {[start |-> start, seq |-> FinSeq]}]
  <2> DEFINE fins == {[start |-> start, seq |-> FinSeq]}
  <2>1. fins \in SUBSET HeldFin /\ OneFin(fins)
    BY <1>0 DEF HeldFin, OneFin
  <2> HIDE DEF fins
  <2>2. y \in RecvState /\ y.ooo_fin = fins
    BY ZenonT(30), <1>3, <2>1 DEF RecvState, fins
  <2>3. /\ y.recv_ring = x.recv_ring /\ y.rcv_nxt = x.rcv_nxt /\ y.ooo = x.ooo
        /\ y.rcv_adv_edge = x.rcv_adv_edge /\ y.eof = x.eof
    BY <1>3 DEF RecvState
  <2>4. Free(y) = Free(x)
    BY <2>3 DEF Free
  <2>5. Sound(y, g)
    BY <2>1, <2>2, <2>3, <2>4 DEF Sound
  <2>6. Ahead(y) /\ Advances(x, y)
    BY <1>0, <2>3 DEF Ahead, Advances, Held
  <2> QED
    BY <2>2, <2>3, <2>5, <2>6
<1> QED
  BY <1>1, <1>2, <1>3 DEF ReceiveFin, HoldFin

\* Segment text and FIN as on_synchronized takes them: a sound, settled
\* half stays so, and nothing that was parked is dropped.
LEMMA SegmentSound ==
    ASSUME NEW x \in RecvState, NEW g \in Seq(Byte), Sound(x, g), Settled(x), ~x.eof,
           NEW seg \in Segments, NEW y, y = ReceiveSegment(x, seg)
    PROVE  y \in RecvState /\ Sound(y, g) /\ Settled(y) /\ Advances(x, y)
<1> DEFINE p == TakePayload(x, seg)
           z == TakeFin(x, seg)
<1>1. p \in RecvState /\ Sound(p, g) /\ Ahead(p) /\ ~p.eof /\ Advances(x, p)
  BY PayloadSound DEF Settled
<1>2. /\ z \in RecvState /\ Sound(z, g) /\ Ahead(z) /\ Advances(p, z)
      /\ z.eof => Settled(z)
  <2>1. CASE SegFin(x, seg) = {}
    <3>1. z = p
      BY <2>1 DEF TakeFin
    <3>2. Advances(p, p)
      BY <1>1 DEF Advances, RecvState
    <3> QED
      BY <1>1, <3>1, <3>2
  <2>2. CASE SegFin(x, seg) # {}
    <3>1. seg.seq + Len(seg.data) = FinSeq /\ seg.seq \in Nat /\ seg.seq <= FinSeq
      <4>1. seg.seq \in Nat /\ seg.data \in Seq(Byte) /\ seg.seq + Len(seg.data) = FinSeq
        BY <2>2, SegmentFacts
      <4> QED
        BY <4>1
    <3>2. z = ReceiveFin(p, seg.seq, FinSeq)
      BY <2>2, <3>1 DEF TakeFin
    <3> HIDE DEF p, z
    <3> QED
      BY <1>1, <3>1, <3>2, FinSound
  <2> QED
    BY <2>1, <2>2
<1>3. y = IF OooFinDue(z) THEN ConsumeFin(z) ELSE z
  BY DEF ReceiveSegment, MaybeConsumeOooFin
<1> HIDE DEF p, z
<1>4. Advances(x, z)
  BY <1>1, <1>2, AdvancesOn
<1>5. CASE OooFinDue(z)
  <2>1. ~z.eof /\ z.rcv_nxt = FinSeq /\ y = ConsumeFin(z)
    BY <1>2, <1>3, <1>5 DEF OooFinDue, Sound, OneFin
  <2>2. y \in RecvState /\ Sound(y, g) /\ Settled(y) /\ Advances(z, y)
    BY <1>2, <2>1, ConsumeSound
  <2>3. Advances(x, y)
    BY <1>2, <1>4, <2>2, AdvancesOn
  <2> QED
    BY SMTT(30), <2>2, <2>3
<1>6. CASE ~OooFinDue(z)
  <2>1. y = z
    BY <1>3, <1>6
  <2>2. ASSUME ~z.eof, NEW h \in z.ooo_fin PROVE z.rcv_nxt < h.seq
    <3>1. h.seq = FinSeq /\ z.rcv_nxt <= FinSeq /\ z.rcv_nxt # FinSeq
      BY SMTT(30), <1>2, <1>6, <2>2 DEF OooFinDue, Sound, OneFin
    <3> QED
      BY SMTT(30), <1>2, <3>1, Numbers DEF RecvState
  <2>3. Settled(z)
    BY <1>2, <2>2 DEF Settled
  <2> QED
    BY <1>2, <1>4, <2>1, <2>3
<1> QED
  BY <1>5, <1>6

\* Whole units: multiplying what was divided loses less than one unit.
LEMMA WholeUnits ==
    ASSUME NEW n \in Nat
    PROVE  /\ n \div GRAIN \in Nat /\ GRAIN * (n \div GRAIN) <= n
           /\ n < GRAIN * (n \div GRAIN) + GRAIN
<1>1. GRAIN \in Nat \ {0}
  BY CapacityAssumption
<1> QED
  BY <1>1

\* Fewer units are fewer bytes.
LEMMA UnitsMonotone ==
    ASSUME NEW a \in Nat, NEW b \in Nat, a <= b
    PROVE  GRAIN * a \in Nat /\ GRAIN * b \in Nat /\ GRAIN * a <= GRAIN * b
<1>1. GRAIN \in Nat \ {0}
  BY CapacityAssumption
<1> QED
  BY <1>1

\* The window put in a segment: within the free space and the field, and
\* short of what was offered before only if it takes all whole free units.
LEMMA WindowUnits ==
    ASSUME NEW x, Free(x) \in Nat, CurrentWindow(x) \in Nat, AdvertisedWindow(x) \in Nat
    PROVE  /\ OutboundWindow(x, FALSE) \in Nat
           /\ OutboundWindow(x, FALSE) <= Free(x)
           /\ OutboundWindow(x, FALSE) <= GRAIN * WMAX
           /\ \/ OutboundWindow(x, FALSE) >= CurrentWindow(x)
              \/ OutboundWindow(x, FALSE) + GRAIN > Free(x)
              \/ OutboundWindow(x, FALSE) = GRAIN * WMAX
<1> DEFINE cur   == CurrentWindow(x)
           fits  == Free(x) \div GRAIN
           units == Lesser(AdvertisedWindow(x) \div GRAIN, fits)
           up    == (cur + GRAIN - 1) \div GRAIN
           keep  == Lesser(up, fits)
           n     == IF GRAIN * units < cur THEN keep ELSE units
           w     == Lesser(n, WMAX)
<1>1. GRAIN \in Nat \ {0} /\ WMAX \in Nat \ {0}
  BY CapacityAssumption
<1>2. OutboundWindow(x, FALSE) = GRAIN * w
  BY DEF OutboundWindow
<1>3. fits \in Nat /\ GRAIN * fits <= Free(x) /\ Free(x) < GRAIN * fits + GRAIN
  BY WholeUnits
<1>4. AdvertisedWindow(x) \div GRAIN \in Nat
  BY WholeUnits
<1>5. cur + GRAIN - 1 \in Nat
  BY <1>1
<1>6. up \in Nat /\ cur + GRAIN - 1 < GRAIN * up + GRAIN
  BY <1>5, WholeUnits
<1>7. up \in Nat /\ cur <= GRAIN * up
  BY <1>1, <1>6
<1>8. units \in Nat /\ units <= fits /\ keep \in Nat /\ keep <= fits /\ (keep = up \/ keep = fits)
  BY <1>3, <1>4, <1>7 DEF Lesser
<1> HIDE DEF fits, units, up, keep, cur
<1>9. n \in Nat /\ n <= fits
  BY <1>8
<1>10. GRAIN * n >= cur \/ n = fits
  BY <1>1, <1>7, <1>8, UnitsMonotone DEF cur
<1> HIDE DEF n
<1>11. w \in Nat /\ w <= n /\ w <= WMAX /\ (w = n \/ w = WMAX)
  BY <1>1, <1>9 DEF Lesser
<1> HIDE DEF w
<1>12. GRAIN * w \in Nat /\ GRAIN * w <= GRAIN * WMAX /\ GRAIN * w <= GRAIN * fits
  BY <1>1, <1>3, <1>9, <1>11, UnitsMonotone
<1>13. GRAIN * w <= Free(x)
  BY <1>1, <1>3, <1>12
<1>14. GRAIN * w >= cur \/ GRAIN * w + GRAIN > Free(x) \/ GRAIN * w = GRAIN * WMAX
  BY <1>1, <1>3, <1>10, <1>11, <1>12
<1> QED
  BY ZenonT(30), <1>2, <1>12, <1>13, <1>14 DEF cur

\* A SYN-ACK or an ACK never advertises past the free space.
LEMMA AckSound ==
    ASSUME NEW x \in RecvState, NEW g \in Seq(Byte), Sound(x, g), Settled(x),
           NEW is_syn \in BOOLEAN, NEW y, y = NoteAckSent(x, is_syn)
    PROVE  y \in RecvState /\ Sound(y, g) /\ Settled(y) /\ Advances(x, y)
<1> DEFINE nxt  == x.rcv_nxt
           free == Free(x)
           edge == x.rcv_adv_edge
           new  == Greater(edge, nxt + OutboundWindow(x, is_syn))
<1>1. nxt \in Nat /\ edge \in Nat /\ free \in Nat /\ edge <= nxt + free
  BY Numbers DEF RecvState, Free, Sound, Prefix
<1>2. CurrentWindow(x) \in Nat
  BY <1>1 DEF CurrentWindow, Greater
<1>3. AdvertisedWindow(x) \in Nat /\ AdvertisedWindow(x) <= free
  BY <1>1, <1>2 DEF AdvertisedWindow, CurrentWindow, Greater
<1>4. OutboundWindow(x, is_syn) \in Nat /\ OutboundWindow(x, is_syn) <= free
  <2>1. CASE is_syn
    <3>1. OutboundWindow(x, is_syn) = Lesser(AdvertisedWindow(x), WMAX)
      BY <2>1 DEF OutboundWindow
    <3> QED
      BY <1>1, <1>3, <3>1, CapacityAssumption DEF Lesser
  <2>2. CASE ~is_syn
    <3>1. is_syn = FALSE
      BY <2>2
    <3> QED
      BY ZenonT(30), <1>1, <1>2, <1>3, <3>1, WindowUnits
  <2> QED
    BY <2>1, <2>2
<1>5. y = [x EXCEPT !.last_ack_sent = nxt, !.rcv_adv_edge = new]
  BY DEF NoteAckSent
<1> HIDE DEF nxt, free, edge
<1>6. new \in Nat /\ edge <= new /\ new <= nxt + free
  BY <1>1, <1>4 DEF Greater
<1> HIDE DEF new
<1>7. /\ y \in RecvState /\ y.recv_ring = x.recv_ring /\ y.rcv_nxt = x.rcv_nxt /\ y.ooo = x.ooo
      /\ y.ooo_fin = x.ooo_fin /\ y.rcv_adv_edge = new /\ y.eof = x.eof
  BY ZenonT(30), <1>1, <1>5, <1>6 DEF RecvState
<1>8. Free(y) = Free(x)
  BY <1>7 DEF Free
<1>9. Sound(y, g)
  BY <1>6, <1>7, <1>8 DEF Sound, nxt, free
<1>10. Settled(y)
  BY <1>7 DEF Settled, Ahead
<1>11. Advances(x, y)
  BY <1>1, <1>6, <1>7 DEF Advances, Held, nxt, edge
<1> QED
  BY SMTT(30), <1>7, <1>9, <1>10, <1>11

\* Reading n bytes moves them from the front of the ring to the end of what
\* was read.
LEMMA ReadMoves ==
    ASSUME NEW ring \in Seq(Byte), NEW g \in Seq(Byte), NEW n \in 1 .. Len(ring), Prefix(ring, g)
    PROVE  LET rest == SubSeq(ring, n + 1, Len(ring))
               all  == g \o SubSeq(ring, 1, n)
           IN  /\ rest \in Seq(Byte) /\ all \in Seq(Byte)
               /\ Len(rest) = Len(ring) - n /\ Len(all) = Len(g) + n
               /\ Prefix(rest, all)
<1> DEFINE len   == Len(ring)
           rest  == SubSeq(ring, n + 1, len)
           front == SubSeq(ring, 1, n)
           all   == g \o front
<1>0. len \in Nat /\ Len(g) \in Nat /\ n \in Nat /\ n >= 1 /\ n <= len /\ BUF \in Nat
  BY Numbers
<1>1. /\ len <= BUF /\ \A i \in 1 .. Len(g) : g[i] = Stream[i]
      /\ \A i \in 1 .. len : ring[i] = Stream[Len(g) + i] /\ ring[i] \in Byte
  BY DEF Prefix
<1> HIDE DEF len
<1>2. /\ rest \in Seq(Byte) /\ Len(rest) = len - n
      /\ \A i \in 1 .. len - n : rest[i] = ring[n + i]
  <2>1. \A i \in n + 1 .. len : ring[i] \in Byte
    BY <1>0, <1>1
  <2>2. /\ rest \in Seq(Byte)
        /\ Len(rest) = IF n + 1 <= len THEN len - (n + 1) + 1 ELSE 0
        /\ \A i \in 1 .. len - (n + 1) + 1 : rest[i] = ring[(n + 1) + i - 1]
    BY <1>0, <2>1, SubSeqProperties
  <2>3. len - (n + 1) + 1 = len - n /\ \A i \in 1 .. len - n : (n + 1) + i - 1 = n + i
    BY <1>0
  <2>4. Len(rest) = len - n
    BY <1>0, <2>2, <2>3
  <2> QED
    BY <2>2, <2>3, <2>4
<1>3. /\ front \in Seq(Byte) /\ Len(front) = n
      /\ \A i \in 1 .. n : front[i] = Stream[Len(g) + i]
  <2>1. \A i \in 1 .. n : ring[i] \in Byte
    BY <1>0, <1>1
  <2>2. /\ front \in Seq(Byte) /\ Len(front) = IF 1 <= n THEN n - 1 + 1 ELSE 0
        /\ \A i \in 1 .. n - 1 + 1 : front[i] = ring[1 + i - 1]
    BY <1>0, <2>1, SubSeqProperties
  <2>3. n - 1 + 1 = n /\ \A i \in 1 .. n : 1 + i - 1 = i /\ i \in 1 .. len
    BY <1>0
  <2> QED
    BY <1>0, <1>1, <2>2, <2>3
<1> HIDE DEF rest, front
<1>4. /\ all \in Seq(Byte) /\ Len(all) = Len(g) + n
      /\ \A i \in 1 .. Len(g) + n : all[i] = Stream[i]
  <2>1. /\ \A i \in 1 .. Len(g) : g[i] = Stream[0 + i]
        /\ \A i \in 1 .. Len(front) : front[i] = Stream[0 + Len(g) + i]
    BY <1>0, <1>1, <1>3
  <2>2. /\ all \in Seq(Byte) /\ Len(all) = Len(g) + Len(front)
        /\ \A i \in 1 .. Len(g) + Len(front) : all[i] = Stream[0 + i]
    BY <1>3, <2>1, RingGrows
  <2>3. \A i \in 1 .. Len(g) + n : 0 + i = i
    OBVIOUS
  <2> QED
    BY <1>3, <2>2, <2>3
<1> HIDE DEF all
<1>5. \A i \in 1 .. Len(rest) : rest[i] = Stream[Len(all) + i]
  <2> TAKE i \in 1 .. Len(rest)
  <2>1. n + i \in 1 .. len /\ Len(g) + (n + i) = (Len(g) + n) + i
    BY <1>0, <1>2
  <2>2. rest[i] = ring[n + i]
    BY <1>2
  <2> QED
    BY <1>1, <1>4, <2>1, <2>2
<1>6. Prefix(rest, all)
  <2>1. Len(rest) <= BUF
    BY <1>0, <1>1, <1>2
  <2> QED
    BY <1>4, <1>5, <2>1 DEF Prefix
<1> QED
  BY <1>2, <1>4, <1>6 DEF rest, all, front, len

\* recv() keeps the half sound: the space it frees lies to the right of what
\* was advertised and parked.
LEMMA ReadSound ==
    ASSUME NEW x \in RecvState, NEW g \in Seq(Byte), Sound(x, g), Settled(x),
           NEW n \in 1 .. Len(x.recv_ring), NEW y, y = RecvRead(x, n),
           NEW h, h = g \o SubSeq(x.recv_ring, 1, n)
    PROVE  y \in RecvState /\ h \in Seq(Byte) /\ Sound(y, h) /\ Settled(y) /\ Advances(x, y)
<1> DEFINE ring == x.recv_ring
           rest == SubSeq(ring, n + 1, Len(ring))
           len  == Len(ring)
           nxt  == x.rcv_nxt
           a    == Len(g)
<1>0. ring \in Seq(Byte) /\ Prefix(ring, g) /\ nxt \in Nat /\ x.rcv_adv_edge \in Nat
  BY DEF RecvState, Sound
<1>1. /\ rest \in Seq(Byte) /\ h \in Seq(Byte) /\ Prefix(rest, h)
      /\ Len(rest) = len - n /\ Len(h) = a + n
  BY <1>0, ReadMoves
<1>2. y = [x EXCEPT !.recv_ring = rest]
  BY DEF RecvRead
<1> HIDE DEF rest
<1>3. /\ y \in RecvState /\ y.recv_ring = rest /\ y.rcv_nxt = x.rcv_nxt /\ y.ooo = x.ooo
      /\ y.ooo_fin = x.ooo_fin /\ y.rcv_adv_edge = x.rcv_adv_edge /\ y.eof = x.eof
  BY ZenonT(30), <1>1, <1>2 DEF RecvState
<1>4. Free(x) = BUF - len /\ Free(y) = BUF - (len - n) /\ BUF \in Nat /\ Irs \in Nat
  BY ZenonT(30), <1>1, <1>3, Numbers DEF Free
<1>5. len \in Nat /\ n \in Nat /\ n <= len /\ a \in Nat
  BY <1>0
<1> HIDE DEF len, a, nxt
<1>6. Free(y) = Free(x) + n /\ Free(x) \in Int /\ Free(y) \in Int
  BY <1>4, <1>5
<1>7. (a + n) + (len - n) = a + len /\ Irs + 1 + (a + n) + (len - n) = Irs + 1 + a + len
  BY <1>4, <1>5
<1>8. nxt + Free(x) <= nxt + Free(y)
  BY <1>0, <1>5, <1>6
<1>9. ASSUME ~y.eof
      PROVE  y.rcv_nxt = Irs + 1 + Len(h) + Len(y.recv_ring) /\ y.rcv_nxt <= FinSeq
  <2>1. nxt = Irs + 1 + a + len /\ x.rcv_nxt <= FinSeq
    BY <1>3, <1>9 DEF Sound, a, len, nxt
  <2>2. nxt = Irs + 1 + (a + n) + (len - n)
    BY SMTT(30), <1>7, <2>1
  <2> QED
    BY <1>1, <1>3, <2>1, <2>2 DEF nxt
<1>10. ASSUME y.eof
       PROVE  y.rcv_nxt = FinSeq + 1 /\ Len(h) + Len(y.recv_ring) = Len(Stream)
  <2>1. a + len = Len(Stream) /\ x.rcv_nxt = FinSeq + 1
    BY <1>3, <1>10 DEF Sound, a, len
  <2>2. (a + n) + (len - n) = Len(Stream)
    BY SMTT(30), <1>7, <2>1
  <2> QED
    BY <1>1, <1>3, <2>1, <2>2
<1>11. InPlace(y.ooo, y.rcv_nxt + Free(y))
  <2> SUFFICES ASSUME NEW p \in x.ooo
               PROVE  /\ Irs < p[1] /\ p[1] < FinSeq /\ p[1] < nxt + Free(y)
                      /\ p[2] = Stream[p[1] - Irs]
    BY <1>3 DEF InPlace, nxt
  <2>1. p[1] \in Nat /\ Irs < p[1] /\ p[1] < FinSeq /\ p[1] < nxt + Free(x)
        /\ p[2] = Stream[p[1] - Irs]
    BY HeldIsParked DEF Sound, InPlace, nxt
  <2> QED
    BY SMTT(30), <1>0, <1>6, <1>8, <2>1
<1>12. y.rcv_adv_edge <= y.rcv_nxt + Free(y)
  <2>1. x.rcv_adv_edge <= nxt + Free(x)
    BY DEF Sound, nxt
  <2>2. x.rcv_adv_edge <= nxt + Free(y)
    BY SMTT(30), <1>0, <1>6, <1>8, <2>1
  <2> QED
    BY <1>3, <2>2 DEF nxt
<1>13. OneFin(y.ooo_fin) /\ Prefix(y.recv_ring, h)
  BY <1>1, <1>3 DEF Sound
<1>14. Sound(y, h)
  BY ZenonT(30), <1>9, <1>10, <1>11, <1>12, <1>13 DEF Sound
<1>15. Settled(y)
  BY <1>3 DEF Settled, Ahead
<1>16. Advances(x, y)
  BY <1>0, <1>3 DEF Advances, Held, nxt
<1> QED
  BY <1>1, <1>3, <1>14, <1>15, <1>16

-----------------------------------------------------------------------------
\* The inductive invariant.
IInv == TypeOK /\ Sound(r, got) /\ Settled(r)

\* A fresh half is sound: RCV.NXT is the peer's ISN plus one.
LEMMA InitIInv == Init => IInv
<1> DEFINE x == Synchronized
           g == <<>>
<1>1. x \in RecvState /\ g \in Seq(Byte)
  BY Numbers DEF Synchronized, RecvState
<1>2. /\ x.recv_ring = <<>> /\ x.ooo = {} /\ x.ooo_fin = {} /\ x.eof = FALSE
      /\ x.rcv_nxt = Irs + 1 /\ x.rcv_adv_edge = Irs + 1
  BY DEF Synchronized
<1>3. Len(g) = 0 /\ Len(x.recv_ring) = 0 /\ Free(x) = BUF
  BY <1>2, Numbers DEF Free
<1> HIDE DEF x, g
<1>4. Prefix(x.recv_ring, g)
  BY <1>3, Numbers DEF Prefix
<1>5. /\ x.rcv_nxt = Irs + 1 + Len(g) + Len(x.recv_ring) /\ x.rcv_nxt <= FinSeq
      /\ x.rcv_adv_edge <= x.rcv_nxt + Free(x)
  BY SMTT(30), <1>2, <1>3, Numbers
<1>6. Sound(x, g)
  BY <1>2, <1>4, <1>5 DEF Sound, InPlace, OneFin
<1>7. Settled(x)
  BY <1>2 DEF Settled, Ahead
<1>8. ASSUME NEW y, y = NoteAckSent(x, TRUE)
      PROVE  y \in RecvState /\ Sound(y, g) /\ Settled(y)
  BY ZenonT(30), <1>1, <1>6, <1>7, <1>8, AckSound
<1>9. ASSUME Init PROVE IInv
  <2>1. got = g /\ (r = x \/ r = NoteAckSent(x, TRUE))
    BY ZenonT(30), <1>9 DEF Init, x, g
  <2> QED
    BY ZenonT(30), <1>1, <1>6, <1>7, <1>8, <2>1 DEF IInv, TypeOK
<1> QED
  BY SMTT(30), <1>9

\* Every step of the receive half keeps the invariant and only advances.
LEMMA StepIInv == IInv /\ [Next]_vars => IInv' /\ Advances(r, r')
<1> SUFFICES ASSUME IInv, [Next]_vars PROVE IInv' /\ Advances(r, r')
  OBVIOUS
<1>0. r \in RecvState /\ got \in Seq(Byte) /\ Sound(r, got) /\ Settled(r)
  BY SMTT(30) DEF IInv, TypeOK
<1>1. ASSUME NEW seg \in Segments, Receive(seg) PROVE IInv' /\ Advances(r, r')
  <2>1. ~r.eof /\ r' = ReceiveSegment(r, seg) /\ got' = got
    BY <1>1 DEF Receive
  <2>2. r' \in RecvState /\ Sound(r', got) /\ Settled(r') /\ Advances(r, r')
    BY <1>0, <2>1, SegmentSound
  <2> QED
    BY <1>0, <2>1, <2>2 DEF IInv, TypeOK, Sound, Settled, Ahead
<1>2. ASSUME SendAck PROVE IInv' /\ Advances(r, r')
  <2>1. r' = NoteAckSent(r, FALSE) /\ got' = got
    BY <1>2 DEF SendAck
  <2>2. r' \in RecvState /\ Sound(r', got) /\ Settled(r') /\ Advances(r, r')
    BY ZenonT(30), <1>0, <2>1, AckSound
  <2> QED
    BY ZenonT(30), <1>0, <2>1, <2>2 DEF IInv, TypeOK
<1>3. ASSUME NEW n \in 1 .. BUF, Read(n) PROVE IInv' /\ Advances(r, r')
  <2>1. n \in 1 .. Len(r.recv_ring) /\ r' = RecvRead(r, n) /\ got' = got \o SubSeq(r.recv_ring, 1, n)
    BY <1>3 DEF Read
  <2>2. /\ r' \in RecvState /\ got' \in Seq(Byte) /\ Sound(r', got') /\ Settled(r')
        /\ Advances(r, r')
    BY ZenonT(30), <1>0, <2>1, ReadSound
  <2> QED
    BY <2>2 DEF IInv, TypeOK
<1>4. CASE UNCHANGED vars
  <2>1. r' = r /\ got' = got
    BY <1>4 DEF vars
  <2>2. Advances(r, r')
    BY <1>0, <2>1 DEF Advances, RecvState
  <2> QED
    BY <1>0, <2>1, <2>2 DEF IInv, TypeOK
<1> QED
  BY <1>1, <1>2, <1>3, <1>4 DEF Next

\* The receive half only ever reaches states that satisfy the invariant.
LEMMA AlwaysIInv == Spec => []IInv
BY InitIInv, StepIInv, PTL DEF Spec

\* The receive half keeps its types: sequence numbers stay natural, the ring
\* stays a sequence of bytes, parked data stays a set of placed bytes.
THEOREM TypeCorrect == Spec => []TypeOK
<1>1. IInv => TypeOK
  BY DEF IInv
<1> QED
  BY <1>1, AlwaysIInv, PTL

\* Whatever slices of the stream arrive, however often and in whatever
\* order, recv() returns the peer's stream: no byte lost, repeated,
\* reordered or altered.
THEOREM StreamIsIntact == Spec => []StreamIntegrity
<1>1. ASSUME IInv PROVE StreamIntegrity
  <2> DEFINE nxt == r.rcv_nxt
             a   == Len(got)
             b   == Len(r.recv_ring)
  <2>1. /\ r \in RecvState /\ got \in Seq(Byte) /\ r.recv_ring \in Seq(Byte)
        /\ nxt \in Nat /\ a \in Nat /\ b \in Nat /\ r.eof \in BOOLEAN
    BY <1>1 DEF IInv, TypeOK, RecvState
  <2>2. /\ \A i \in DOMAIN got : got[i] = Stream[i]
        /\ \A i \in DOMAIN r.recv_ring : r.recv_ring[i] = Stream[Len(got) + i]
    <3>1. DOMAIN got = 1 .. Len(got) /\ DOMAIN r.recv_ring = 1 .. Len(r.recv_ring)
      BY <2>1
    <3>2. Prefix(r.recv_ring, got)
      BY <1>1 DEF IInv, Sound
    <3> QED
      BY <3>1, <3>2 DEF Prefix
  <2>3. CASE ~r.eof
    <3>1. nxt = Irs + 1 + a + b /\ Taken = nxt - Irs - 1 - 0
      BY SMTT(30), <1>1, <2>3 DEF IInv, Sound, Taken, Bit
    <3> HIDE DEF nxt, a, b
    <3>2. nxt - Irs - 1 - 0 = a + b
      BY <2>1, <3>1, Numbers
    <3> QED
      BY <2>2, <3>1, <3>2 DEF StreamIntegrity, a, b
  <2>4. CASE r.eof
    <3>1. nxt = FinSeq + 1 /\ a + b = Len(Stream) /\ Taken = nxt - Irs - 1 - 1
      BY <1>1, <2>4 DEF IInv, Sound, Taken, Bit
    <3> HIDE DEF nxt, a, b
    <3>2. nxt - Irs - 1 - 1 = a + b
      BY <2>1, <3>1, Numbers
    <3> QED
      BY <2>2, <3>1, <3>2 DEF StreamIntegrity, a, b
  <2> QED
    BY <2>1, <2>3, <2>4
<1> QED
  BY <1>1, AlwaysIInv, PTL

\* The end of stream is reported only after the whole stream was taken, even
\* when the FIN overtook data and was held.
THEOREM EofIsComplete == Spec => []EofComplete
<1>1. ASSUME IInv PROVE EofComplete
  <2> SUFFICES ASSUME r.eof PROVE Taken = Len(Stream)
    BY DEF EofComplete
  <2>1. r.rcv_nxt = FinSeq + 1 /\ Taken = r.rcv_nxt - Irs - 1 - 1
    BY <1>1 DEF IInv, Sound, Taken, Bit
  <2>2. (FinSeq + 1) - Irs - 1 - 1 = Len(Stream)
    BY Numbers
  <2> QED
    BY <2>1, <2>2
<1> QED
  BY <1>1, AlwaysIInv, PTL

\* Parked data is always strictly ahead of RCV.NXT, inside the free space of
\* the ring and unambiguous; after the FIN nothing is parked.
THEOREM ParkedIsValid == Spec => []ParkedValid
<1>1. ASSUME IInv PROVE ParkedValid
  <2>1. r \in RecvState /\ Sound(r, got) /\ Settled(r)
    BY SMTT(30), <1>1 DEF IInv, TypeOK
  <2>2. Len(r.recv_ring) <= BUF
    BY <2>1 DEF Sound, Prefix
  <2>3. Held(r) \subseteq r.rcv_nxt + 1 .. r.rcv_nxt + Free(r) - 1
    <3> SUFFICES ASSUME NEW n \in Held(r) PROVE n \in r.rcv_nxt + 1 .. r.rcv_nxt + Free(r) - 1
      OBVIOUS
    <3>1. n \in Nat /\ r.rcv_nxt < n /\ n < r.rcv_nxt + Free(r)
      BY <2>1, HeldIsParked DEF Sound, InPlace, Settled, Ahead
    <3>2. r.rcv_nxt \in Nat /\ Free(r) \in Int
      BY <2>1, Numbers DEF RecvState, Free
    <3> QED
      BY <3>1, <3>2
  <2>4. \A p, q \in r.ooo : p[1] = q[1] => p = q
    BY <2>1, HeldIsParked DEF Sound, InPlace
  <2>5. /\ \A h \in r.ooo_fin : h.seq > r.rcv_nxt /\ h.start <= h.seq
        /\ \A h, g \in r.ooo_fin : h = g
        /\ r.eof => r.ooo = {} /\ r.ooo_fin = {}
    BY <2>1 DEF Sound, OneFin, Settled, RecvState, HeldFin
  <2> QED
    BY <2>2, <2>3, <2>4, <2>5 DEF ParkedValid
<1> QED
  BY <1>1, AlwaysIInv, PTL

\* The window promised to the peer is always backed by free space.
THEOREM EdgeIsBacked == Spec => []EdgeBacked
<1>1. IInv => EdgeBacked
  BY DEF IInv, Sound, EdgeBacked
<1> QED
  BY <1>1, AlwaysIInv, PTL

\* Nothing that may have been SACKed is dropped before RCV.NXT passes it.
THEOREM NeverReneges == Spec => NoReneging
<1>1. ASSUME IInv, [Next]_vars
      PROVE  [\A x \in Held(r) : x \in Held(r)' \/ x < r'.rcv_nxt]_vars
  BY <1>1, StepIInv DEF Advances, Held
<1> QED
  BY <1>1, AlwaysIInv, PTL DEF Spec, NoReneging

\* The ring never holds more than it can.
LEMMA FreeIsNat ==
    ASSUME NEW x \in RecvState, NEW g \in Seq(Byte), Sound(x, g)
    PROVE  Free(x) \in Nat
<1>1. x.recv_ring \in Seq(Byte)
  BY DEF RecvState
<1>2. Len(x.recv_ring) <= BUF
  BY DEF Sound, Prefix
<1>3. Len(x.recv_ring) \in Nat
  BY <1>1
<1> QED
  BY <1>2, <1>3, Numbers

\* A segment leaves the advertised edge where it was.
LEMMA EdgeUntouched ==
    ASSUME NEW x \in RecvState, NEW g \in Seq(Byte), Sound(x, g), Settled(x), ~x.eof,
           NEW seg \in Segments
    PROVE  ReceiveSegment(x, seg).rcv_adv_edge = x.rcv_adv_edge
<1> DEFINE p == TakePayload(x, seg)
           z == TakeFin(x, seg)
<1>1. p \in RecvState /\ Sound(p, g) /\ Ahead(p) /\ ~p.eof
  BY PayloadSound DEF Settled
<1>2. ASSUME NEW y \in RecvState, NEW data
      PROVE  AppendText(y, data).rcv_adv_edge = y.rcv_adv_edge
  BY SMTT(30) DEF AppendText, RecvState
<1>3. ASSUME NEW y \in RecvState, NEW data, NEW fins
      PROVE  AbsorbOoo(AppendText(y, data), fins).rcv_adv_edge = y.rcv_adv_edge
  <2> DEFINE a == AppendText(y, data)
  <2>1. a = [y EXCEPT !.recv_ring = a.recv_ring, !.rcv_nxt = a.rcv_nxt, !.ooo_fin = a.ooo_fin]
    BY DEF AppendText, RecvState
  <2>2. AbsorbOoo(a, fins).rcv_adv_edge = a.rcv_adv_edge
    BY <2>1 DEF AbsorbOoo, RecvState
  <2> QED
    BY <1>2, <2>2
<1>4. ASSUME NEW start, NEW data
      PROVE  OooInsert(x, start, data).rcv_adv_edge = x.rcv_adv_edge
  BY SMTT(30) DEF OooInsert, RecvState
<1>5. p.rcv_adv_edge = x.rcv_adv_edge
  BY <1>3, <1>4 DEF TakePayload, ReceivePayload
<1>6. ASSUME NEW y \in RecvState PROVE ConsumeFin(y).rcv_adv_edge = y.rcv_adv_edge
  BY DEF ConsumeFin, RecvState
<1>7. ASSUME NEW y \in RecvState, NEW s, NEW f
      PROVE  HoldFin(y, s, f).rcv_adv_edge = y.rcv_adv_edge
  BY DEF HoldFin, RecvState
<1>8. z.rcv_adv_edge = p.rcv_adv_edge
  BY <1>1, <1>6, <1>7 DEF TakeFin, ReceiveFin
<1>9. z \in RecvState
  <2>1. CASE SegFin(x, seg) = {}
    BY <1>1, <2>1 DEF TakeFin
  <2>2. CASE SegFin(x, seg) # {}
    <3>1. z = ReceiveFin(p, seg.seq, FinSeq) /\ seg.seq \in Nat /\ seg.seq <= FinSeq
      <4>1. z = ReceiveFin(p, seg.seq, seg.seq + Len(seg.data))
        BY <2>2 DEF TakeFin
      <4>2. seg.seq + Len(seg.data) = FinSeq /\ seg.seq \in Nat /\ seg.data \in Seq(Byte)
        BY <2>2, SegmentFacts
      <4> QED
        BY <4>1, <4>2
    <3> QED
      BY <1>1, <3>1, FinSound
  <2> QED
    BY <2>1, <2>2
<1> QED
  BY SMTT(30), <1>5, <1>6, <1>8, <1>9 DEF ReceiveSegment, MaybeConsumeOooFin

\* The edge stays within what one window field can express from RCV.NXT.
EdgeInField == r.rcv_adv_edge <= r.rcv_nxt + GRAIN * WMAX

\* No step moves the edge out of reach of the window field.
LEMMA StepEdge == IInv /\ EdgeInField /\ [Next]_vars => EdgeInField'
<1> SUFFICES ASSUME IInv, EdgeInField, [Next]_vars PROVE EdgeInField'
  OBVIOUS
<1> DEFINE reach == GRAIN * WMAX
<1>0. /\ r \in RecvState /\ got \in Seq(Byte) /\ Sound(r, got) /\ Settled(r) /\ r' \in RecvState
      /\ r.rcv_nxt <= r'.rcv_nxt
  BY StepIInv DEF IInv, TypeOK, Advances
<1>1. /\ r.rcv_nxt \in Nat /\ r'.rcv_nxt \in Nat /\ r.rcv_adv_edge \in Nat
      /\ r'.rcv_adv_edge \in Nat /\ reach \in Nat
  <2>1. GRAIN \in Nat /\ WMAX \in Nat
    BY CapacityAssumption
  <2> QED
    BY <1>0, <2>1 DEF RecvState
<1>2. ASSUME r'.rcv_adv_edge = r.rcv_adv_edge PROVE EdgeInField'
  <2>1. r.rcv_adv_edge <= r.rcv_nxt + reach
    BY DEF EdgeInField
  <2> HIDE DEF reach
  <2>2. r'.rcv_adv_edge <= r'.rcv_nxt + reach
    BY <1>0, <1>1, <1>2, <2>1
  <2> QED
    BY <2>2 DEF EdgeInField, reach
<1>3. ASSUME NEW seg \in Segments, Receive(seg) PROVE EdgeInField'
  BY <1>0, <1>2, <1>3, EdgeUntouched DEF Receive
<1>4. ASSUME SendAck PROVE EdgeInField'
  <2>1. r' = NoteAckSent(r, FALSE)
    BY <1>4 DEF SendAck
  <2>2. /\ r'.rcv_nxt = r.rcv_nxt
        /\ r'.rcv_adv_edge = Greater(r.rcv_adv_edge, r.rcv_nxt + OutboundWindow(r, FALSE))
    BY <1>0, <2>1 DEF NoteAckSent, RecvState
  <2>3. Free(r) \in Nat
    BY <1>0, FreeIsNat
  <2>4. CurrentWindow(r) \in Nat
    BY <1>1 DEF CurrentWindow, Greater
  <2>5. AdvertisedWindow(r) \in Nat
    BY <2>3, <2>4 DEF AdvertisedWindow
  <2>6. OutboundWindow(r, FALSE) \in Nat /\ OutboundWindow(r, FALSE) <= reach
    BY ZenonT(30), <2>3, <2>4, <2>5, WindowUnits
  <2>7. r.rcv_adv_edge <= r.rcv_nxt + reach
    BY DEF EdgeInField
  <2> DEFINE nxt  == r.rcv_nxt
             edge == r.rcv_adv_edge
             w    == OutboundWindow(r, FALSE)
  <2>a. r'.rcv_nxt = nxt /\ r'.rcv_adv_edge = Greater(edge, nxt + w)
    BY <2>2
  <2>b. nxt \in Nat /\ edge \in Nat /\ w \in Nat /\ reach \in Nat /\ w <= reach /\ edge <= nxt + reach
    BY ZenonT(30), <1>1, <2>6, <2>7
  <2> HIDE DEF reach, nxt, edge, w
  <2>c. Greater(edge, nxt + w) <= nxt + reach
    BY <2>b DEF Greater
  <2>8. r'.rcv_adv_edge <= r'.rcv_nxt + reach
    BY <2>a, <2>c
  <2> QED
    BY <2>8 DEF EdgeInField, reach
<1>5. ASSUME NEW n \in 1 .. BUF, Read(n) PROVE EdgeInField'
  BY <1>0, <1>2, <1>5 DEF Read, RecvRead, RecvState
<1>6. CASE UNCHANGED vars
  BY <1>2, <1>6 DEF vars
<1> QED
  BY <1>3, <1>4, <1>5, <1>6 DEF Next

\* At first the edge is at RCV.NXT, or a SYN-ACK's unscaled window beyond it.
LEMMA InitEdge == Init => EdgeInField
<1> SUFFICES ASSUME Init PROVE EdgeInField
  OBVIOUS
<1> DEFINE x == Synchronized
           w == Lesser(AdvertisedWindow(x), WMAX)
<1>1. x.rcv_nxt = Irs + 1 /\ x.rcv_adv_edge = Irs + 1
  BY DEF Synchronized
<1>2. /\ NoteAckSent(x, TRUE).rcv_nxt = x.rcv_nxt
      /\ NoteAckSent(x, TRUE).rcv_adv_edge = Greater(x.rcv_adv_edge, x.rcv_nxt + w)
  BY DEF NoteAckSent, OutboundWindow, Synchronized
<1>3. /\ GRAIN \in Nat \ {0} /\ WMAX \in Nat /\ Irs \in Nat
      /\ AdvertisedWindow(x) \in Int
  <2>1. Free(x) \in Int /\ CurrentWindow(x) \in Int
    BY <1>1, Numbers DEF Free, Synchronized, CurrentWindow, Greater
  <2> QED
    BY SMTT(30), <2>1, CapacityAssumption, Numbers DEF AdvertisedWindow
<1>4. w \in Int /\ w <= WMAX
  BY <1>3 DEF Lesser
<1>5. WMAX <= GRAIN * WMAX /\ GRAIN * WMAX \in Nat
  BY <1>3
<1>6. r = x \/ r = NoteAckSent(x, TRUE)
  BY ZenonT(30) DEF Init
<1> HIDE DEF x, w
<1> DEFINE reach == GRAIN * WMAX
<1>7. /\ r.rcv_nxt = Irs + 1
      /\ r.rcv_adv_edge = Irs + 1 \/ r.rcv_adv_edge = Greater(Irs + 1, Irs + 1 + w)
  BY ZenonT(30), <1>1, <1>2, <1>6
<1>8. WMAX <= reach /\ reach \in Nat
  BY <1>5
<1> HIDE DEF reach
<1>9. r.rcv_adv_edge <= r.rcv_nxt + reach
  BY <1>3, <1>4, <1>7, <1>8 DEF Greater
<1> QED
  BY <1>9 DEF EdgeInField, reach

\* What an ACK takes back of an earlier offer is less than a unit of the window
\* field, and only what that field cannot express of the free space.
THEOREM OfferIsKept == Spec => []OfferKept
<1>1. Spec => []EdgeInField
  BY InitEdge, AlwaysIInv, StepEdge, PTL DEF Spec
<1>2. ASSUME IInv, EdgeInField PROVE OfferKept
  <2> DEFINE reach == GRAIN * WMAX
             w     == OutboundWindow(r, FALSE)
  <2>1. r \in RecvState /\ got \in Seq(Byte) /\ Sound(r, got)
    BY <1>2 DEF IInv, TypeOK
  <2>2. /\ r.rcv_nxt \in Nat /\ r.rcv_adv_edge \in Nat /\ GRAIN \in Nat
        /\ r.rcv_adv_edge <= r.rcv_nxt + Free(r)
    BY <2>1, CapacityAssumption DEF RecvState, Sound
  <2>3. Free(r) \in Nat
    BY <2>1, FreeIsNat
  <2>4. CurrentWindow(r) \in Nat /\ CurrentWindow(r) >= r.rcv_adv_edge - r.rcv_nxt
    BY <2>2 DEF CurrentWindow, Greater
  <2>5. AdvertisedWindow(r) \in Nat
    BY <2>3, <2>4 DEF AdvertisedWindow
  <2>6. w \in Nat /\ (w >= CurrentWindow(r) \/ w + GRAIN > Free(r) \/ w = reach)
    BY ZenonT(30), <2>3, <2>4, <2>5, WindowUnits
  <2>7. r.rcv_adv_edge <= r.rcv_nxt + reach
    BY <1>2 DEF EdgeInField
  <2> HIDE DEF reach, w
  <2>8. \/ r.rcv_nxt + w >= r.rcv_adv_edge
        \/ r.rcv_nxt + w > r.rcv_adv_edge - GRAIN /\ r.rcv_nxt + w + GRAIN > r.rcv_nxt + Free(r)
    BY <2>2, <2>3, <2>4, <2>6, <2>7
  <2> QED
    BY ZenonT(30), <2>8 DEF OfferKept, w
<1> QED
  BY <1>1, <1>2, AlwaysIInv, PTL
=============================================================================
