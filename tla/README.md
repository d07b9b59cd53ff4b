# A verification model of tcp-sans-io

TLA+ modules, TLC configurations and TLAPS proofs for the user-space TCP stack
in `src/`. The subject is the protocol engine `src/tcb/*.rs` and the data
structures it rests on. Line numbers of every modelled function are in
`PROJECT.json` under `map`.

## 1. The system

A `Tcb` is one connection. It performs no I/O: the host calls it with packets,
time and application data, and collects staged packets from its egress ring.

| Part | Source | State | Operations |
|---|---|---|---|
| State machine | `state.rs`, `tcb/mod.rs`, `tcb/input.rs` | `state`, `is_listener`, `error`, counters | `connect`, `listen`, `close`, `abort`, `inject_packet` |
| Receive half | `tcb/input.rs`, `ooo.rs`, `ring.rs` | `rcv_nxt`, advertised edge, receive ring, parked ranges, held FIN | text and FIN of a segment, `recv` |
| Send half | `tcb/output.rs`, `tcb/ack.rs`, `rtx_queue.rs` | `snd_una`, `snd_nxt`, send ring, scoreboard, peer window | `send`, output, ACK processing |
| Timers | `tcb/timers.rs` | nine deadlines, retry counters | `tick` |
| Egress | `tx_ring.rs`, `tcb/output.rs` | ring of staged packets, pause flag | `extract_packet`, `set_egress_paused` |
| Loss detection | `rack.rs`, `tcb/ack.rs` | send times, reordering window, TLP episode | marks records lost |
| Congestion control | `congestion.rs` | window, PRR and undo counters | admits segments |
| Listener | `tcb/cookie.rs`, `tcb/input.rs` | half-open slot, cookie keys | cookie SYN-ACK, promotion, takeover |
| Wire format | `wire.rs` | none | parse, emit |
| C ABI | `ffi.rs` | handle magic | wrappers |
| Server example | `bindings/wgserver-rs` | table of TCBs | accept, evict, route |

Interactions. Every inbound segment runs ACK processing first, then text and
FIN, then the acknowledgment they call for, then output; a tick runs the timers
in a fixed order and then output. Anything that wants to transmit competes for
the egress ring, which may be full or paused: output then waits, and whatever
is owed must be remembered. Received text changes the window that the next
acknowledgment carries; that acknowledgment drives the other end's send half.

What makes it hard: segments are lost, duplicated and reordered; timeouts may be
spurious; a FIN may overtake data or share a record with it; both ends may open
or close at once; several timers may be due in one tick; every fixed buffer may
be full at the wrong moment; the peer may vanish.

## 2. Modules

`c` below is a TCB; `r`, `s` and `w` its receive half, send half and the peer's
window. The code's functions are operators from a TCB to the TCB after the
call, composed in the order of the code, with the code's names.

| Module | Models |
|---|---|
| `TcpCommon` | capacities and small helpers |
| `RecvSide` | receive half: acceptance, trimming, parking, absorbing, FINs, window |
| `RecvStream` | the receive half fed by an arbitrary network; its properties |
| `RecvStreamProofs` | the proofs about `RecvStream` |
| `SendSide` | send half: scoreboard, new data, ACK, loss marks, peer window |
| `TcbState` | the whole TCB: states, timers, reset, teardown |
| `TcbOutput` | staging segments, pure ACKs, data, persist, window updates |
| `TcbInput` | `inject_segment` in each state, ACK processing |
| `TcbTimers` | `run_timers` |
| `Tcb` | the public calls; the code's own invariants as operators |
| `TcbHost` | one TCB, any host, any peer |
| `TcbAlone` | the same, until the peer vanishes |
| `TcpPair` | two TCBs and a network that may do anything but corrupt |
| `TcpPairLive` | two TCBs, a bounded number of losses, fair hosts |
| `MC*` | values of constants that a configuration cannot express |

### Abstractions

* **Units.** A sequence number is a natural number without 32-bit wrap. In
  `RecvSide` and `RecvStream` a unit is a byte and `MSS` is arbitrary. The TCB
  modules set `MSS = 1`: the unit is a full-sized segment, so sender-side silly
  window avoidance always sees a full segment.
* **Records.** A record of the retransmission queue is one unit, or the last
  unit together with the FIN (`fin_rides`). A SACK of half of that record splits
  it if the queue has room, as `RtxQueue::sack` does.
* **Time.** `c.tm` is the set of armed deadlines; `Tick(c, due, ...)` gets those
  that are due. In `TcbHost` and `TcpPair` any armed deadline may be due at any
  tick, so every timeout may be spurious. A deadline that a tick re-arms is not
  due again in it.
* **Decisions from numbers.** What congestion control, RACK, NewReno, the D-SACK
  undo and the rate limiter decide is an argument `o` of the call, over which
  the actions quantify. The runs let it range over the extreme answers: nothing
  admitted or one segment, no loss, the first record or all of them.
* **Window field.** `OutboundWindow` rounds to units of `GRAIN` bytes
  (`2^rcv_wscale`) and caps the field at `WMAX` (`u16::MAX`); a SYN's window is
  capped but not scaled. `RecvStream` checks and proves it scaled; in the TCB
  modules a unit is already a full segment, so `GRAIN = 1` and the field is wide
  enough.
* **End of stream.** `r.eof` is kept beside `state`; `FinsMatchState` says they
  agree.
* **Left out of the core:** timestamps and PAWS, ECN, path-MTU discovery, RTT
  estimation, D-SACK contents, the send loan, SYN cookies and the busy listener. Configuration setters are constants of a run. `listen` is
  modelled with a secret installed, as it requires one.

## 3. Runs

All runs but the last pass, with deadlock checking on.

| Run | Checks | Distinct states |
|---|---|---|
| `RecvStream` | type, `StreamIntegrity`, `EofComplete`, `ParkedValid`, `RangesBounded`, `EdgeBacked`, `OfferKept`, `NoReneging` | 2,848 |
| `HostLifecycle` | type, `TimersMatchWork`, `FinsMatchState`, `CleanCloseIsComplete`, `TransitionsAllowed` | 31,808 |
| `HostReceive` | `RecvHalfValid`, `AckOwed`, `PauseRespected` | 42,190 |
| `HostRecovery` | `SendHalfValid`, `CapacityKept`, `TimersMatchWork`, `FinAfterData` | 10,438 |
| `HostWindow` | `SendHalfValid`, `TimersMatchWork`, `StuckDataIsTimed` | 8,585 |
| `TcbAlone` | `VanishedPeerIsNoticed` | 21,076 |
| `PairOpen` | `NoSpuriousReset`, `CleanEndDelivered` | 107,134 |
| `PairWindow` | `WindowHonoured` | 32,437 |
| `PairTransfer` | `StreamsIntact`, `AckedIsReceived`, `EofIsEndOfStream` | 35,571 |
| `PairFinish` | `BothFinish` | 251,327 |
| `PairFinishLossy` | `CleanEndDelivered`, `BothFinish` | 83,662 |
| `PairEarlyClose` | `BothFinish`, violated | |

What they show, by level:

* **Receiver** (`RecvStream`). Whatever the network does with the segments of a
  stream, the application reads exactly the stream, the end is reported after
  it, and nothing SACKed is dropped. The window never offers space that is not
  there (`EdgeBacked`), and a later one takes back part of an earlier offer only
  as `outbound_window` says it may: less than one unit of the scale, and only
  when one more unit would not fit the free space (`OfferKept`). TLC does reach
  such retractions.
* **One TCB, arbitrary host and peer** (`Host*`). The properties are the code's
  own debug checks (`debug_validate_invariants`, `debug_check_liveness`,
  `debug_transition_allowed`), strengthened: a timer is armed *exactly* when its
  work exists, an acknowledgment is never forgotten by a full or paused egress
  ring but stays owed and timed, the state says of both FINs what happened to
  them, a connection that closes without an error has the peer's whole stream.
  `HostReceive`'s peer may send FINs that disagree; `RecvStream`'s and the pairs'
  peers are honest and have one end of stream. User timeouts are on in
  `HostLifecycle` and `HostWindow`, pauses in `HostReceive`.
* **Two TCBs, hostile network** (`Pair*`). `net` only grows and any segment in
  it may arrive at any time, so loss, duplication and reordering are free. What
  one application reads is what the other wrote; an acknowledgment means the
  data arrived; no duplicate or spurious timeout resets a connection. In
  `PairOpen` and `PairFinishLossy` both ends close, at once or in turn, so FINs
  and their ACKs cross in every order: an end that reaches `FIN_WAIT_2`,
  `TIME_WAIT` or a clean `CLOSED` has had its whole stream and its FIN taken.
* **Two TCBs, finitely many losses** (`PairFinish*`). Every stream arrives and
  both ends close cleanly.

### Divergences

`PairEarlyClose` shows that `close()` in `SYN_RCVD` is not the graceful close its
documentation promises ("Begin a graceful close", `tcb/mod.rs:1239`). The state
becomes `FIN_WAIT_1`, in which only the FIN is retransmitted. If the SYN-ACK was
lost, the peer, still in `SYN_SENT`, ignores the FIN because it carries no SYN,
and its repeated SYN draws only challenge ACKs. Both ends run into their retry
limits. The other `PairFinish*` runs set `CloseEarly = FALSE`: their
applications close once the handshake is over.

`HostLifecycle` shows (`TimersMatchWork`) that keepalive is never armed in
`TIME_WAIT`, where the comment at `tcb/timers.rs:16` says "Segments the peer sent
during TIME_WAIT may have re-armed keepalive". `enter_time_wait` disarms it and
every place that arms it asks `keepalive_applies`, which excludes `TIME_WAIT`.
The code is right and disarming every timer there is harmless; the comment
describes a case that no longer exists.

### Bounds, and why they are enough

* `RecvStream`: seven distinct bytes, a ring of six, segments of up to three
  bytes and two ranges, windows in units of two bytes and a field of at most two
  units. Distinct bytes expose any permutation; the stream is
  longer than the ring, so the window closes; the ring is larger than the field can
  say and its free space is often odd, so both the cap and the rounding bite; two ranges with gaps fit beside a
  third, so the list fills and bridges.
* `Host*`: peer sequence numbers up to three units past its initial one and
  acknowledgments from one below `snd_una` to one above `snd_nxt` reach both
  sides of each comparison (`StrayAcks = FALSE` in `HostReceive` and `TcbAlone`
  keeps to acceptable ones, which the other runs do not). One or two units of buffer, one egress slot and at
  most one retry make every resource run out. Each run enables the inputs of its own
  question (control segments, text, windows, losses); together they take every
  branch.
* `MaxWrite` bounds what an application writes in a connection; `Windows`,
  `Credits` and `MaxPeer` bound the inputs; `MaxOpens` the accepted SYNs;
  `MaxLosses` the lost segments.
* Pair runs: up to three units, so there is a first, a last and, in `PairWindow`,
  a middle one. `PairOpen` (without data) and `PairFinishLossy` cover
  both ways to open: one end listens, or both connect.
* Retry limits in `PairFinish*` exceed the losses by one, because a persist timer
  that sends its last allowed probe aborts in the same tick. More than losses can
  cost a retry: a segment overtaken by two later ones carries an acknowledgment
  older than `snd_una - max_snd_wnd` and is refused, so its text is sent again.
  With a one-segment window, one retry to spare and a simultaneous open such a
  straggler and one loss use up the budget; `PairFinish` therefore opens
  passively, and `PairFinishLossy` has a window of two and four retries for three
  losses.

### Fairness

The only fairness is that the host's loop turns. `lib.rs` demands it: "Advance
the clock and tick", "Drain the egress ring after every call". It is stated with
a variable `beat` that each step of the loop flips and weak fairness of that
flip; no particular action is favoured.

* `TcbAlone`: after the peer vanished, at most one segment still arrives; a turn resumes egress, drains the ring
  and ticks with all armed deadlines due.
* `TcpPairLive`: applications and deliveries go before deadlines, because a
  deadline is at least 40 ms and a delivery takes one network delay. The short
  deadlines pass before the 60 s of FIN_WAIT_2 and TIME_WAIT. A segment in
  transit is delivered or lost. One reply to an unacceptable segment is allowed
  per deadline, as the 500 ms limiter does: without it, two closed windows would
  answer each other forever.

## 4. Proofs

`RecvStreamProofs` proves, for every `Stream`, `BUF`, `MSS`, `OOO_MAX_RANGES`,
`GRAIN`, `WMAX` and `MaxSeg`: `TypeCorrect`, `StreamIsIntact`, `EofIsComplete`,
`ParkedIsValid`, `EdgeIsBacked`, `NeverReneges` and `OfferIsKept`. Assumptions:
the capacities are positive naturals (`CapacityAssumption`) and the stream is a
finite sequence of bytes (`RecvStreamAssumption`). The peer is honest: its
segments are slices of one stream with one end, so the discarding of text beyond
a FIN (`consume_fin`) never discards anything here; `HostReceive` exercises it.

The inductive invariant is `IInv == TypeOK /\ Sound(r, got) /\ Settled(r)`.

* `Sound` ties every byte the receiver holds to its place in the stream: those
  read, those in the ring and those parked. None of the properties is inductive
  without the parked bytes: absorbing makes them readable much later. It also
  says that a held FIN can only be the true end, and that the advertised edge is
  backed by free space.
* `Settled` holds between segments but not inside one: nothing is parked at
  `rcv_nxt`, and no held FIN is due. It is why `AbsorbOoo` and
  `MaybeConsumeOooFin` must run on every segment.

`OfferIsKept` needs one more invariant, `EdgeInField`: the remembered edge is
within what one field can say from `rcv_nxt`, so the 16-bit cap never takes an
offer back. With it `WindowUnits`, which bounds the rounded window from both
sides, gives the property.

The argument follows the code: one lemma per operator (`AppendSound`,
`AbsorbSound`, `InsertSound`, `PayloadSound`, `ConsumeSound`, `FinSound`,
`SegmentSound`, `AckSound`, `ReadSound`) says that it preserves `Sound`;
`StepIInv` combines them per action. `RunEndExists` finds the end of a parked run
by well-founded induction, as `RunEnd` is a `CHOOSE`.

Checked by TLC only: `RangesBounded` (a cardinality of runs), the modules from
`TcbState` up, and all liveness, which is outside the prover's logic.

## 5. Plan

Done: the core above. Next, in this order.

1. **Data structures.** `RtxQueue` (records of many bytes, split, partial
   retransmission, counters equal the sums, `lost_hint`), `OooList` (the sorted
   array implements the set of `RecvSide`), `Ring` and `TxRing` (indices,
   `write_at`, send loan). Each shown to implement the abstraction the core uses.
2. **Listener.** Cookies as unforgeable tokens with key and time bucket,
   half-open takeover by a third party, key rotation, incarnations that reuse an
   initial sequence number.
3. **Loss and congestion.** Reno with PRR and undo accounting, RACK's reordering
   window and timer, TLP episodes; bounded arithmetic.
4. **Numbers.** 32-bit sequence comparison.
5. **Time.** `next_deadline` over real times, with a full or paused egress ring.
6. **Hosts.** C handle life cycle, the server's table of connections.
7. **Proofs.** A `SendStream` counterpart of `RecvStream` (what is acknowledged
   was sent and is released once), the refinement of an abstract byte stream by
   the receiver, `TimersMatchWork` for the TCB.

Not planned: byte layout in `wire.rs` and checksums, the keyed hash, the language
bindings and test harnesses.
