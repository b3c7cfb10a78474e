-------------------------------- MODULE Clock -------------------------------
(***************************************************************************)
(* The numbers of time: the timer and its interrupt, src/src/timers.c, and *)
(* the network and NTP time derived from it, src/src/wcom_time.c.          *)
(*                                                                         *)
(* The counter runs freely; the interrupt, which may come late, takes ten  *)
(* milliseconds off it and adds them to the system time.  All times wrap.  *)
(* The elapsed time is taken from the system time with the counter; across *)
(* a wrap it is one too short, twice when the network time wraps too.  A   *)
(* timeout is set and compared by the system time alone, which moves in    *)
(* steps of the period.                                                    *)
(***************************************************************************)
EXTENDS Integers

CONSTANTS
    WordSize,   \* 2^32
    Top,        \* TIMER_TOP: the counts that the interrupt takes off
    TicksPerMs, \* TICKS_PER_MS, a divisor of Top
    MaxLate     \* bound: counts by which the interrupt is late at most

VARIABLES
    systemTime, \* system_time, in milliseconds
    tcnt,       \* TCNT1
    start,      \* the system time when a timer was started or the network time received
    base,       \* the network time received then
    armed,      \* the system time without the counter at that moment
    since       \* history: counts since then, from the beginning of the millisecond

clockVars == <<systemTime, tcnt, start, base, armed, since>>

Init == systemTime = 0 /\ tcnt = 0 /\ start = 0 /\ base = 0 /\ armed = 0 /\ since = 0

MsSince == since \div TicksPerMs

TypeOK ==
    /\ systemTime \in 0 .. WordSize - 1 /\ start \in 0 .. WordSize - 1 /\ base \in 0 .. WordSize - 1
    /\ armed \in 0 .. WordSize - 1
    /\ tcnt \in 0 .. Top + MaxLate
    /\ MsSince \in 0 .. WordSize

\* tmr_u32_get_system_time_ms; microseconds and ticks are made from the same two.
NowMs == (systemTime + tcnt \div TicksPerMs) % WordSize

\* tmr_u32_elapsed_time, tmr_u32_elapsed_ticks, wcom_time_u32_elapsed_local and its like in
\* wcom_time_t_get_ntp_time
\* Mutant: the counter is taken not to wrap.
Elapsed_Unsigned(from, to) == IF to >= from THEN to - from ELSE from - to
Elapsed(from, to) == IF to >= from THEN to - from ELSE WordSize - 1 - (from - to)

\* tmr_i8_compare_time, tmr_i8_compare_times: the sign of the signed difference.
\* Mutant: the difference is taken without its sign.
Compare_Plain(time, now) == IF time > now THEN 1 ELSE IF time < now THEN -1 ELSE 0
Compare(time, now) ==
    LET distance == (time - now) % WordSize IN
    IF distance = 0 THEN 0 ELSE IF distance < WordSize \div 2 THEN 1 ELSE -1

\* wcom_time_u32_compensated_network_time, without drift, and the time that
\* wcom_time_t_get_ntp_time adds to the NTP time of the last synchronization.
NetworkTime == (base + Elapsed(start, NowMs)) % WordSize
NtpElapsed == Elapsed(base, NetworkTime)

-----------------------------------------------------------------------------
\* One count; the interrupt is never so late that the counter wraps.
Count ==
    /\ tcnt < Top + MaxLate
    /\ since < WordSize * TicksPerMs
    /\ tcnt' = tcnt + 1 /\ since' = since + 1
    /\ UNCHANGED <<systemTime, start, base, armed>>

\* Mutant: the counts since the compare match are dropped.
TakenOff_All(count) == 0
TakenOff(count) == count - Top

\* TIMER1_COMPA_vect
TimerInterrupt ==
    /\ tcnt > Top
    /\ systemTime' = (systemTime + Top \div TicksPerMs) % WordSize
    /\ tcnt' = TakenOff(tcnt)
    /\ UNCHANGED <<start, base, armed, since>>

\* The time is taken: a timestamp of wcom_time_v_sync or of a transmission, or the end of
\* a wait that TMR_WAIT computes, from tmr_u32_get_system_time.
Start ==
    /\ start' = NowMs /\ armed' = systemTime /\ since' = tcnt % TicksPerMs
    /\ base' \in 0 .. WordSize - 1
    /\ UNCHANGED <<systemTime, tcnt>>

Next == Count \/ TimerInterrupt \/ Start

Spec == Init /\ [][Next]_clockVars

-----------------------------------------------------------------------------
\* The time that a timer measures is right, but for one unit when the clock wraps, though
\* the interrupt comes late and the clock is read before it.
ElapsedWithinOne ==
    MsSince < WordSize =>
        Elapsed(start, NowMs) = IF NowMs >= start THEN MsSince ELSE MsSince - 1

\* TMR_WAIT still waits: tmr_i8_compare_time looks at the system time alone.
Waits(delay) == Compare((armed + delay) % WordSize, systemTime) > 0

\* The counts that the system time may be behind.
Behind == Top + MaxLate

\* A wait of less than half the range ends, also across the wrap, and it is wrong by no more
\* than the system time was behind when it started, or is when it is looked at: a period and
\* the delay of the interrupt.
TimeoutsInTime ==
    since + Behind < (WordSize \div 2) * TicksPerMs =>
        \A delay \in 1 .. WordSize \div 2 - 1 :
            IF Waits(delay) THEN since < delay * TicksPerMs + Behind
            ELSE since >= delay * TicksPerMs - Behind

\* Between two synchronizations the NTP time never goes back, though the local time and
\* the network time wrap at different moments.
NtpNeverGoesBack ==
    [][start' = start /\ base' = base /\ since <= since' /\ MsSince' < WordSize
          => NtpElapsed' >= NtpElapsed]_clockVars

\* What is measured is right, timeouts end in time, and the NTP time moves on.
ClockSound == [](TypeOK /\ ElapsedWithinOne /\ TimeoutsInTime) /\ NtpNeverGoesBack
=============================================================================
