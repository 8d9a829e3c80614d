------------------------------ MODULE TcpTimer -------------------------------
(***************************************************************************)
(* The retransmission timers of one socket: the table of timers with its   *)
(* loops, the backoff, and the estimate of the round trip time that sets   *)
(* the timeout.  Segments are numbered in the order they are first sent.   *)
(* The tick handler runs in one piece; acknowledgements come between two   *)
(* ticks, and as nothing keeps their order each may say less than the one   *)
(* before it.                                                              *)
(***************************************************************************)
EXTENDS Integers, FiniteSets, Sequences, SequencesExt

CONSTANTS
    MaxTimers,      \* entries of tcp_timers (200)
    InitialRto,     \* ticks of the first timeout (100)
    Period,         \* ticks between two updates of the estimate (20)
    MaxSegments,    \* bound: segments that are sent
    MaxTime         \* bound: ticks

ASSUME TimerAssumption ==
    /\ {InitialRto, Period} \subseteq Nat \ {0}
    /\ {MaxTimers, MaxSegments, MaxTime} \subseteq Nat

VARIABLES
    time,                        \* ticks
    tcp_timers, backoff_factor, rto, srtt, rttvar,
    rtt_sample, rtt_sample_available,
    send_next,                   \* segments sent, numbered from 0
    send_unacknowledged,         \* what came last acknowledges all below it
    seen,                        \* history: the most that a tick has seen of it
    dropped                      \* history: AddTimer found no room

estimate == <<rto, srtt, rttvar, rtt_sample, rtt_sample_available>>
timerVars ==
    <<time, tcp_timers, backoff_factor, estimate,
      send_next, send_unacknowledged, seen, dropped>>

(* A timer; once is a history: when its segment was sent first.            *)
Timer(start, now) ==
    [start |-> start, active |-> TRUE, timeout |-> FALSE,
     send_time |-> now, once |-> now]

TimerInit ==
    /\ time = 0
    /\ tcp_timers = <<>>
    /\ backoff_factor = 1
    /\ rto = InitialRto
    /\ srtt = 0 /\ rttvar = 0
    /\ rtt_sample = 0 /\ rtt_sample_available = FALSE
    /\ send_next = 0 /\ send_unacknowledged = 0 /\ seen = 0
    /\ dropped = FALSE

AddTimer(timers, t) == IF Len(timers) >= MaxTimers THEN timers ELSE Append(timers, t)

(* The table when n segments have been sent, one or none.                  *)
Entered(n, now) ==
    IF n = 0 THEN tcp_timers ELSE AddTimer(tcp_timers, Timer(send_next, now))

(* The first loop: each active timer either times out, which doubles the   *)
(* backoff for those after it, or is done with.  The least time a segment  *)
(* took that was sent only once is the new sample (Karn's algorithm).      *)
Due(t, backoff, now) ==
    now - t.send_time >= rto * backoff /\ t.start + 1 > send_unacknowledged

Acked(t) == t.start + 1 <= send_unacknowledged

(* Mutant: also of the segments sent again.                                *)
SampledAny(t, sample, now) ==
    LET elapsed == now - t.send_time
    IN  IF sample # 0 /\ elapsed > sample THEN sample ELSE elapsed

Sampled(t, sample, now) ==
    LET elapsed == now - t.send_time
    IN  IF t.timeout THEN sample
        ELSE IF sample # 0 /\ elapsed > sample THEN sample ELSE elapsed

Check(st, t, now) ==
    CASE t.active /\ Due(t, st.backoff, now) ->
           [timers  |-> Append(st.timers, [t EXCEPT !.timeout = TRUE,
                                                    !.send_time = now]),
            backoff |-> 2 * st.backoff,
            sample  |-> st.sample]
      [] t.active /\ ~Due(t, st.backoff, now) /\ Acked(t) ->
           [timers  |-> Append(st.timers, [t EXCEPT !.active = FALSE]),
            backoff |-> IF t.timeout THEN st.backoff ELSE 1,
            sample  |-> Sampled(t, st.sample, now)]
      [] OTHER -> [st EXCEPT !.timers = Append(@, t)]

Checked(timers, now) ==
    LET upTo[i \in 0 .. Len(timers)] ==
            IF i = 0
            THEN [timers |-> <<>>, backoff |-> backoff_factor, sample |-> 0]
            ELSE Check(upTo[i - 1], timers[i], now)
    IN  upTo[Len(timers)]

(* The second loop: the last timer takes the place of one that is done     *)
(* with, and is not looked at itself.  (Mutant: the last is only taken off.) *)
SwapOff(timers, i) == Front(timers)

SwapOut(timers, i) == Front([timers EXCEPT ![i] = Last(timers)])

(* (Mutant: it stops at the first it finds.)                               *)
SweptOnce(timers) ==
    LET done == {i \in DOMAIN timers : ~timers[i].active}
    IN  IF done = {} THEN timers
        ELSE SwapOut(timers, CHOOSE i \in done : \A j \in done : i <= j)

Sweep(ts, i) == IF i <= Len(ts) /\ ~ts[i].active THEN SwapOut(ts, i) ELSE ts

Swept(timers) ==
    LET upTo[i \in 0 .. Len(timers)] ==
            IF i = 0 THEN timers ELSE Sweep(upTo[i - 1], i)
    IN  upTo[Len(timers)]

(* UpdateRtt, in integers.                                                 *)
Deviation(a, b) == IF a > b THEN a - b ELSE b - a

(* Mutant: the estimate alone, without the old one's weight.               *)
UpdateRttLight(sample) ==
    /\ srtt' = (srtt + sample) \div 8
    /\ rttvar' = (3 * rttvar + Deviation(sample, srtt)) \div 4
    /\ rto' = srtt' + 4 * rttvar'

UpdateRtt(sample) ==
    LET s == IF srtt = 0 THEN sample ELSE srtt
        v == IF srtt = 0 THEN sample \div 2 ELSE rttvar
        err == Deviation(sample, s)
    IN  /\ srtt' = (7 * s + sample) \div 8
        /\ rttvar' = (3 * v + err) \div 4
        /\ rto' = srtt' + 4 * rttvar'

(* Expired: a new segment if the window lets it, the two loops, the sample *)
(* and, now and then, the estimate.                                        *)
Expired ==
    LET now == time + 1
    IN  \E n \in 0 .. 1 :
        LET timers  == Entered(n, now)
            checked == Checked(timers, now)
            sample  == IF checked.sample # 0 THEN checked.sample ELSE rtt_sample
            ready   == checked.sample # 0 \/ rtt_sample_available
            update  == now % Period = 0 /\ sample # 0 /\ ready
        IN  /\ time < MaxTime /\ send_next + n <= MaxSegments
            /\ time' = now
            /\ send_next' = send_next + n
            /\ dropped' = (dropped \/ (n = 1 /\ timers = tcp_timers))
            /\ seen' = IF send_unacknowledged > seen THEN send_unacknowledged ELSE seen
            /\ backoff_factor' = checked.backoff
            /\ tcp_timers' = Swept(checked.timers)
            /\ rtt_sample' = sample
            /\ rtt_sample_available' = (ready /\ ~update)
            /\ IF update THEN UpdateRtt(sample) ELSE UNCHANGED <<rto, srtt, rttvar>>
            /\ UNCHANGED send_unacknowledged

(* Update(msg): everything below a is acknowledged, and nothing above, also *)
(* when another has overtaken this acknowledgement, or when it counts what  *)
(* is yet to be sent.                                                      *)
AcknowledgedBelow(a) ==
    /\ send_unacknowledged' = a
    /\ UNCHANGED <<time, tcp_timers, backoff_factor, estimate, send_next, seen, dropped>>

TimerNext == Expired \/ \E a \in 0 .. MaxSegments : AcknowledgedBelow(a)

TimerSpec == TimerInit /\ [][TimerNext]_timerVars

-----------------------------------------------------------------------------
Timers == {tcp_timers[i] : i \in DOMAIN tcp_timers}

(* Type invariant.                                                         *)
TimersTyped ==
    /\ time \in 0 .. MaxTime
    /\ Len(tcp_timers) <= MaxTimers
    /\ \A t \in Timers : /\ t.start \in 0 .. send_next - 1
                         /\ {t.active, t.timeout} \subseteq BOOLEAN
                         /\ t.send_time \in 0 .. time /\ t.once \in 0 .. time
    /\ {backoff_factor, rto, srtt, rttvar, rtt_sample} \subseteq Nat
    /\ {rtt_sample_available, dropped} \subseteq BOOLEAN
    /\ {send_next, send_unacknowledged, seen} \subseteq 0 .. MaxSegments

(* The swaps in the table double no timer and lose none that is needed: a  *)
(* segment has an active one until a tick sees it acknowledged, whatever   *)
(* came and was taken back between two ticks.  Once a tick has seen it the *)
(* timer is never started again, though an overtaken acknowledgement may   *)
(* take it back; the segment has arrived.                                  *)
EachHasOne ==
    /\ TimersTyped
    /\ \A s \in 0 .. send_next - 1 :
        LET its == {i \in DOMAIN tcp_timers : tcp_timers[i].start = s}
        IN  /\ Cardinality(its) <= 1
            /\ s >= seen /\ ~dropped => \E i \in its : tcp_timers[i].active

(* "... and gets destroyed when it is acknowledged" (tcp_timer.h 22): some  *)
(* wait, but of those that a tick finds done with, the ones that waited    *)
(* included, at least half go, so the table empties in the end.            *)
Done(timers) == Cardinality({i \in DOMAIN timers : ~timers[i].active})

Finished(timers) ==
    Cardinality({i \in DOMAIN timers : ~timers[i].active \/ Acked(timers[i])})

SweepsHalf ==
    [][time' # time =>
          2 * Done(tcp_timers') <= Finished(Entered(send_next' - send_next, time'))]_timerVars

(* No sample is less than what some segment really took, from its only     *)
(* sending to its acknowledgement: a segment that was sent again says      *)
(* nothing (Karn).                                                         *)
SampleIsReal ==
    [][rtt_sample' # rtt_sample =>
          \E t \in Timers :
              /\ Acked(t) /\ t.send_time = t.once
              /\ rtt_sample' = time' - t.once]_timerVars

(* However short the samples are, the integer divisions never make the     *)
(* timeout vanish, which would send every segment again at every tick.     *)
TimeoutStays == rto >= 1
=============================================================================
