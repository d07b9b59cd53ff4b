------------------------------ MODULE TcbAlone ------------------------------
(***************************************************************************)
(* A TCB whose peer may vanish at any point of any behaviour of TcbHost.   *)
(* From then on at most one segment still arrives, a straggler that may    *)
(* restart retries and keepalive probes; the host stops writing and        *)
(* reading, but keeps driving the TCB as the API asks: it drains the       *)
(* egress ring, resumes a paused egress and ticks once deadlines passed.   *)
(***************************************************************************)
EXTENDS TcbHost

VARIABLES
    gone,    \* the peer has vanished
    late,    \* a segment it sent before has arrived since
    beat     \* flips with every turn of the host's loop

aloneVars == <<c, gone, late, beat>>

AloneInit == Init /\ gone = FALSE /\ late = FALSE /\ beat = 0

Vanish == c.k.state \notin {"Closed", "Listen"} /\ gone' = TRUE /\ UNCHANGED <<c, late, beat>>

\* The loop turns; time passes until every armed deadline is due.
Beat == gone /\ beat' = 1 - beat
HostLoop ==
    /\ Beat
    /\ \E o \in Output :
         LET ready == [SetEgressPaused(c, FALSE, o) EXCEPT !.tx = <<>>]
         IN  Becomes(Tick(ready, ready.tm, Iss, o))
    /\ UNCHANGED <<gone, late>>

\* A segment that was delayed in the network.
Straggler == gone /\ ~late /\ late' = TRUE /\ InjectCall /\ UNCHANGED <<gone, beat>>

AloneNext ==
    \/ ~gone /\ Next /\ UNCHANGED <<gone, late, beat>>
    \/ ~gone /\ Vanish
    \/ HostLoop
    \/ Straggler

\* The host's loop keeps turning: it sleeps until next_deadline(), then ticks.
AloneSpec == AloneInit /\ [][AloneNext]_aloneVars /\ WF_beat(Beat)

-----------------------------------------------------------------------------
\* With keepalive on, a vanished peer is always noticed: by R2 for anything
\* outstanding (SYN, data, FIN), by the persist probes' share of R2 for a
\* closed window, by keepalive when idle, by the FIN_WAIT_2 and TIME_WAIT
\* timeouts.  A straggler that resets the retry count only postpones it.  The
\* TCB ends CLOSED, or back in LISTEN; it never waits forever.
VanishedPeerIsNoticed == gone ~> c.k.state \in {"Closed", "Listen"}
=============================================================================
