---------------------------- MODULE NodeProofs -----------------------------
(***************************************************************************)
(* What a node keeps by itself: its clock, its settings, the files of its  *)
(* clients and its persisted values, for every size of the clock and of    *)
(* the memories.                                                           *)
(*                                                                         *)
(* The clock: its reading is always the reading when the timer was started *)
(* and the milliseconds since then, however late the interrupts are.  That *)
(* is an invariant only with the counts within a millisecond, in which the *)
(* counter and the time that has passed agree.  The system time alone, by  *)
(* which timeouts are compared, is behind by no more than the counter.     *)
(*                                                                         *)
(* The settings: a part of a parameter is in one block, or in two while a  *)
(* new value is checked, and each block has a value that may be read.  So  *)
(* the blocks that are in use are fewer than there are, and the one to     *)
(* write to is found.  An entry of the index leads to the block of its     *)
(* parameter, or the parameter has no block; then the EEPROM was erased    *)
(* since the start, and a write may erase the block of another.            *)
(*                                                                         *)
(* The persisted values: records lie where a search looks, one for each    *)
(* parameter, but for the last one, which may be incomplete.  What is      *)
(* added behind that is found by no search, or as a part of it, and only   *)
(* the parameters of these two records are harmed.                         *)
(*                                                                         *)
(* The files of clients: the file is the old one with the units over its   *)
(* beginning that the one thread which the client of the upload answers    *)
(* has taken, other threads of requests that came twice take none, and     *)
(* every message on its way agrees with it.  A client that has sent its    *)
(* message again has lost one each time, and another one while nothing is  *)
(* left that will answer it.                                               *)
(***************************************************************************)
EXTENDS Node, SequenceTheorems, FiniteSetTheorems, WellFoundedInduction, TLAPS

-----------------------------------------------------------------------------
(* Division and remainders *)

LEMMA Division ==
    ASSUME NEW a \in Int, NEW t \in Int, t > 0
    PROVE  /\ a \div t \in Int /\ a % t \in 0 .. t - 1
           /\ a = t * (a \div t) + (a % t)
<1>1. a = t * (a \div t) + (a % t)
  BY Z3
<1>2. a \div t \in Int /\ a % t \in 0 .. t - 1
  OBVIOUS
<1> QED BY <1>1, <1>2

LEMMA Multiples ==
    ASSUME NEW t \in Int, t > 0, NEW p \in Int, NEW q \in Int, p < q
    PROVE  t * p + t <= t * q
<1>1. t * (q - p) >= t * 1
  OBVIOUS
<1> QED BY <1>1

LEMMA Quotient ==
    ASSUME NEW a \in Int, NEW t \in Int, t > 0, NEW q \in Int, NEW r \in 0 .. t - 1, a = t * q + r
    PROVE  a \div t = q /\ a % t = r
<1>1. a \div t \in Int /\ a % t \in 0 .. t - 1 /\ a = t * (a \div t) + (a % t)
  BY Division
<1>2. ~(a \div t < q)
  BY <1>1, Multiples
<1>3. ~(a \div t > q)
  BY <1>1, Multiples
<1> QED BY <1>1, <1>2, <1>3

\* A number that is less than twice the divisor, or no further below zero than it.
LEMMA Wraps ==
    ASSUME NEW a \in Int, NEW t \in Int, t > 0
    PROVE  /\ a \in 0 .. t - 1 => a % t = a
           /\ a \in t .. 2 * t - 1 => a % t = a - t
           /\ a \in -t .. -1 => a % t = a + t
<1>1. ASSUME a \in 0 .. t - 1 PROVE a % t = a
  <2>1. a = t * 0 + a
    OBVIOUS
  <2> QED BY <1>1, <2>1, Quotient
<1>2. ASSUME a \in t .. 2 * t - 1 PROVE a % t = a - t
  <2>1. a = t * 1 + (a - t) /\ a - t \in 0 .. t - 1
    BY <1>2
  <2> QED BY <2>1, Quotient
<1>3. ASSUME a \in -t .. -1 PROVE a % t = a + t
  <2>1. a = t * (-1) + (a + t) /\ a + t \in 0 .. t - 1
    BY <1>3
  <2>2. -1 \in Int
    OBVIOUS
  <2> QED BY <2>1, <2>2, Quotient
<1> QED BY <1>1, <1>2, <1>3

\* Adding to a remainder.
LEMMA RemainderOfSum ==
    ASSUME NEW a \in Int, NEW b \in Int, NEW t \in Int, t > 0
    PROVE  ((a % t) + b) % t = (a + b) % t
<1> DEFINE q == a \div t
           r == a % t
           p == (r + b) \div t
           s == (r + b) % t
<1>1. q \in Int /\ r \in 0 .. t - 1 /\ a = t * q + r
  BY Division
<1>2. p \in Int /\ s \in 0 .. t - 1 /\ r + b = t * p + s
  <2>1. r + b \in Int
    BY <1>1
  <2> HIDE DEF r
  <2> QED BY <2>1, Division
<1> HIDE DEF q, r, p, s
<1>3. a + b = t * (p + q) + s
  <2>1. t * (p + q) = t * p + t * q
    BY <1>1, <1>2
  <2>2. t * p \in Int /\ t * q \in Int
    BY <1>1, <1>2
  <2> QED BY <1>1, <1>2, <2>1, <2>2
<1>4. (a + b) % t = s
  <2> DEFINE u == p + q
             v == a + b
  <2>1. u \in Int /\ v \in Int /\ v = t * u + s /\ s \in 0 .. t - 1
    BY <1>1, <1>2, <1>3
  <2> HIDE DEF u, v
  <2>2. v % t = s
    BY <2>1, Quotient
  <2> QED BY <2>2 DEF v
<1> QED BY <1>4 DEF s, r

\* One more, and a whole multiple less.
LEMMA OneMore ==
    ASSUME NEW a \in Int, NEW t \in Int, t > 0
    PROVE  /\ (a + 1) \div t = IF a % t = t - 1 THEN a \div t + 1 ELSE a \div t
           /\ (a + 1) % t = IF a % t = t - 1 THEN 0 ELSE (a % t) + 1
<1>1. a \div t \in Int /\ a % t \in 0 .. t - 1 /\ a = t * (a \div t) + (a % t)
  BY Division
<1>2. CASE a % t = t - 1
  <2>1. a + 1 = t * (a \div t + 1) + 0
    BY <1>1, <1>2
  <2>2. a \div t + 1 \in Int /\ 0 \in 0 .. t - 1 /\ a + 1 \in Int
    BY <1>1
  <2> QED BY <1>2, <2>1, <2>2, Quotient
<1>3. CASE a % t # t - 1
  <2>1. a + 1 = t * (a \div t) + ((a % t) + 1)
    BY <1>1
  <2>2. (a % t) + 1 \in 0 .. t - 1 /\ a + 1 \in Int
    BY <1>1, <1>3
  <2> QED BY <1>1, <1>3, <2>1, <2>2, Quotient
<1> QED BY <1>2, <1>3

LEMMA WholeLess ==
    ASSUME NEW a \in Int, NEW t \in Int, t > 0, NEW b \in Int, b % t = 0
    PROVE  (a - b) \div t = a \div t - b \div t /\ (a - b) % t = a % t
<1> DEFINE q == a \div t
           r == a % t
           p == b \div t
<1>1. q \in Int /\ r \in 0 .. t - 1 /\ a = t * q + r
  BY Division
<1>2. p \in Int /\ b = t * p
  <2>1. p \in Int /\ b = t * p + (b % t)
    BY Division
  <2>2. t * p \in Int
    BY <2>1
  <2> QED BY <2>1, <2>2
<1> HIDE DEF q, r, p
<1>3. a - b = t * (q - p) + r
  BY <1>1, <1>2
<1>4. q - p \in Int /\ a - b \in Int
  BY <1>1, <1>2
<1>5. (a - b) \div t = q - p /\ (a - b) % t = r
  BY <1>1, <1>3, <1>4, Quotient
<1> QED BY <1>5 DEF q, r, p

LEMMA QuotientGrows ==
    ASSUME NEW a \in Int, NEW b \in Int, a <= b, NEW t \in Int, t > 0
    PROVE  a \div t <= b \div t
<1>1. /\ a \div t \in Int /\ a % t \in 0 .. t - 1 /\ a = t * (a \div t) + (a % t)
      /\ b \div t \in Int /\ b % t \in 0 .. t - 1 /\ b = t * (b \div t) + (b % t)
  BY Division
<1>2. ~(b \div t < a \div t)
  BY <1>1, Multiples
<1> QED BY <1>1, <1>2
-----------------------------------------------------------------------------
(* The clock *)

\* The system time alone since the timer was started, in whole milliseconds: behind by the
\* counter now, and by c counts then.
SystemTimeMoves ==
    \E ms \in Nat, c \in 0 .. Top + MaxLate :
        systemTime = (armed + ms) % WordSize /\ ms * TicksPerMs + tcnt = since + c

ClockInv ==
    /\ systemTime \in 0 .. WordSize - 1 /\ start \in 0 .. WordSize - 1 /\ base \in 0 .. WordSize - 1
    /\ tcnt \in 0 .. Top + MaxLate
    /\ since \in 0 .. WordSize * TicksPerMs
    /\ tcnt % TicksPerMs = since % TicksPerMs
    /\ Clock!NowMs = (start + Clock!MsSince) % WordSize
    /\ armed \in 0 .. WordSize - 1
    /\ SystemTimeMoves

LEMMA ClockBounds ==
    ASSUME ClockAssumption, ClockInv
    PROVE  Clock!MsSince \in 0 .. WordSize /\ Clock!NowMs \in 0 .. WordSize - 1
<1>1. /\ WordSize \in Int /\ WordSize > 0 /\ TicksPerMs \in Int /\ TicksPerMs > 0
      /\ since \in Int /\ since >= 0 /\ tcnt \in Int /\ systemTime \in Int
      /\ WordSize * TicksPerMs \in Int /\ since <= WordSize * TicksPerMs
  BY DEF ClockAssumption, ClockInv
<1>2. since \div TicksPerMs \in Int /\ tcnt \div TicksPerMs \in Int
  BY <1>1, Division
<1>3. 0 \div TicksPerMs = 0
  <2>1. 0 = TicksPerMs * 0 + 0 /\ 0 \in 0 .. TicksPerMs - 1
    BY <1>1
  <2> QED BY <1>1, <2>1, Quotient
<1>4. (WordSize * TicksPerMs) \div TicksPerMs = WordSize
  <2>1. WordSize * TicksPerMs = TicksPerMs * WordSize + 0 /\ 0 \in 0 .. TicksPerMs - 1
    BY <1>1
  <2> QED BY <1>1, <2>1, Quotient
<1>5. 0 \div TicksPerMs <= since \div TicksPerMs
      /\ since \div TicksPerMs <= (WordSize * TicksPerMs) \div TicksPerMs
  BY <1>1, QuotientGrows
<1>6. Clock!NowMs \in 0 .. WordSize - 1
  <2>1. systemTime + tcnt \div TicksPerMs \in Int
    BY <1>1, <1>2
  <2> QED BY <1>1, <2>1, Division DEF Clock!NowMs
<1> QED BY <1>2, <1>3, <1>4, <1>5, <1>6 DEF Clock!MsSince

\* What the elapsed time comes to, from what the clock shows.
LEMMA ElapsedIs ==
    ASSUME ClockAssumption, ClockInv, Clock!MsSince < WordSize
    PROVE  /\ Clock!NowMs = IF start + Clock!MsSince < WordSize THEN start + Clock!MsSince
                      ELSE start + Clock!MsSince - WordSize
           /\ Clock!Elapsed(start, Clock!NowMs)
                = IF start + Clock!MsSince < WordSize THEN Clock!MsSince ELSE Clock!MsSince - 1
<1>1. /\ WordSize \in Int /\ WordSize > 0 /\ start \in 0 .. WordSize - 1
      /\ Clock!MsSince \in 0 .. WordSize - 1 /\ Clock!NowMs = (start + Clock!MsSince) % WordSize
  BY ClockBounds DEF ClockAssumption, ClockInv
<1> DEFINE m == Clock!MsSince
<1> HIDE DEF m
<1>2. start + m \in Int /\ m \in 0 .. WordSize - 1 /\ Clock!NowMs = (start + m) % WordSize
  BY <1>1 DEF m
<1>3. Clock!NowMs = IF start + m < WordSize THEN start + m ELSE start + m - WordSize
  <2>1. start + m \in 0 .. WordSize - 1 \/ start + m \in WordSize .. 2 * WordSize - 1
    BY <1>1, <1>2
  <2> QED BY <1>1, <1>2, <2>1, Wraps
<1>4. Clock!Elapsed(start, Clock!NowMs) = IF start + m < WordSize THEN m ELSE m - 1
  BY <1>1, <1>2, <1>3 DEF Clock!Elapsed
<1> QED BY <1>3, <1>4 DEF m

LEMMA TimerIsRight == ClockAssumption /\ ClockInv => Clock!ElapsedWithinOne
<1> SUFFICES ASSUME ClockAssumption, ClockInv, Clock!MsSince < WordSize
             PROVE  Clock!Elapsed(start,
                        Clock!NowMs) = IF Clock!NowMs >= start THEN Clock!MsSince ELSE Clock!MsSince - 1
  BY DEF Clock!ElapsedWithinOne
<1>1. Clock!MsSince \in 0 .. WordSize - 1 /\ WordSize \in Int /\ start \in 0 .. WordSize - 1
  BY ClockBounds DEF ClockAssumption, ClockInv
<1>2. Clock!NowMs >= start <=> start + Clock!MsSince < WordSize
  BY <1>1, ElapsedIs
<1> QED BY <1>2, ElapsedIs

\* The sign of the signed difference tells whether m milliseconds are less than the delay.
LEMMA CompareIs ==
    ASSUME ClockAssumption, NEW from \in Int, NEW now,
           NEW delay \in 1 .. WordSize \div 2 - 1, NEW m \in 0 .. WordSize \div 2 - 1,
           now = (from + m) % WordSize
    PROVE  Clock!Compare((from + delay) % WordSize, now) > 0 <=> m < delay
<1> DEFINE w == WordSize
           h == WordSize \div 2
           time == (from + delay) % WordSize
           distance == (time - now) % WordSize
<1>0. SUFFICES Clock!Compare(time, now) > 0 <=> m < delay
  OBVIOUS
<1>1. w \in Int /\ w > 0 /\ h \in Int /\ 2 * h <= w
  BY DEF ClockAssumption
<1>2. m \in Int /\ 0 <= m /\ m < h /\ delay \in Int /\ 1 <= delay /\ delay < h
      /\ from \in Int /\ now = (from + m) % w
  BY <1>1
<1>3. distance = (delay - m) % w
  <2> DEFINE a == from + delay
             b == from + m
  <2>1. a \in Int /\ b \in Int /\ -now \in Int /\ now \in Int /\ b \div w \in Int
        /\ b = w * (b \div w) + now
    BY <1>1, <1>2, Division
  <2>2. ((a % w) + (-now)) % w = (a + (-now)) % w
    <3> DEFINE c == -now
    <3>1. a \in Int /\ c \in Int /\ w \in Int /\ w > 0
      BY <1>1, <2>1
    <3> HIDE DEF a, b, w, c
    <3>2. ((a % w) + c) % w = (a + c) % w
      BY <3>1, RemainderOfSum
    <3> QED BY <3>2 DEF c
  <2>3. time - now = (a % w) + (-now) /\ a + (-now) = a - now
    BY <2>1
  <2>4. (a - now) % w = (delay - m) % w
    <3>1. a - now = (delay - m) + w * (b \div w)
      BY <1>1, <1>2, <2>1
    <3> DEFINE q == (delay - m) \div w
               r == (delay - m) % w
               c == b \div w
    <3>2. q \in Int /\ r \in 0 .. w - 1 /\ delay - m = w * q + r
      <4>1. delay - m \in Int
        BY <1>2
      <4> HIDE DEF w
      <4> QED BY <1>1, <4>1, Division
    <3> HIDE DEF w, a, q, r, c
    <3>3. a - now = w * (q + c) + r
      <4>1. w * (q + c) = w * q + w * c /\ w * q \in Int /\ w * c \in Int
        BY <1>1, <2>1, <3>2 DEF c
      <4> QED BY <1>2, <2>1, <3>1, <3>2, <4>1 DEF c
    <3>4. q + c \in Int /\ a - now \in Int
      BY <2>1, <3>2 DEF c
    <3>5. (a - now) % w = r
      <4> DEFINE d == a - now
                 k == q + c
      <4>1. d \in Int /\ k \in Int /\ d = w * k + r
        BY <3>3, <3>4
      <4> HIDE DEF d, k
      <4>2. d % w = r
        BY <1>1, <3>2, <4>1, Quotient
      <4> QED BY <4>2 DEF d
    <3> QED BY <3>5 DEF r
  <2> HIDE DEF a, w
  <2> QED BY <2>2, <2>3, <2>4 DEF w
<1>4. Clock!Compare(time, now) = IF distance = 0 THEN 0 ELSE IF distance < h THEN 1 ELSE -1
  BY DEF Clock!Compare
<1>5. CASE delay = m
  <2>1. delay - m = 0 /\ 0 \in 0 .. w - 1
    BY <1>1, <1>2, <1>5
  <2>2. distance = 0
    <3> HIDE DEF w, distance
    <3> QED BY <1>1, <1>3, <2>1, Wraps
  <2> HIDE DEF distance, time, h
  <2> QED BY <1>2, <1>4, <1>5, <2>2
<1>6. CASE m < delay
  <2>1. delay - m \in 1 .. h - 1 /\ delay - m \in 0 .. w - 1 /\ delay - m \in Int
    BY <1>1, <1>2, <1>6
  <2>2. distance = delay - m
    <3> HIDE DEF w, distance, h
    <3> QED BY <1>1, <1>3, <2>1, Wraps
  <2> HIDE DEF distance, time, h
  <2>3. Clock!Compare(time, now) = 1
    <3>1. distance # 0 /\ distance < h
      BY <1>1, <1>2, <1>6, <2>2
    <3> QED BY <1>4, <3>1
  <2> QED BY <1>6, <2>3
<1>7. CASE delay < m
  <2>1. delay - m \in -w .. -1 /\ delay - m \in Int
    BY <1>1, <1>2, <1>7
  <2>2. distance = delay - m + w
    <3> HIDE DEF w, distance, h
    <3> QED BY <1>1, <1>3, <2>1, Wraps
  <2>3. distance >= h /\ distance # 0
    <3> HIDE DEF distance, h, w
    <3> QED BY <1>1, <1>2, <1>7, <2>2
  <2> HIDE DEF distance, time, h
  <2>4. Clock!Compare(time, now) = -1
    <3>1. distance \in Int
      BY <1>1, <1>2, <2>2
    <3> QED BY <1>1, <1>4, <2>3, <3>1
  <2> QED BY <1>2, <1>7, <2>4
<1> QED
  <2>1. delay = m \/ m < delay \/ delay < m
    BY <1>2
  <2> HIDE DEF w, h, time, distance
  <2> QED BY <1>5, <1>6, <1>7, <2>1

LEMMA TimeoutsAreRight == ClockAssumption /\ ClockInv => Clock!TimeoutsInTime
<1> DEFINE behind == Top + MaxLate
           half == WordSize \div 2
<1> SUFFICES ASSUME ClockAssumption, ClockInv, since + behind < half * TicksPerMs,
                    NEW delay \in 1 .. half - 1
             PROVE  IF Clock!Compare((armed + delay) % WordSize, systemTime) > 0
                    THEN since < delay * TicksPerMs + behind
                    ELSE since >= delay * TicksPerMs - behind
  BY DEF Clock!TimeoutsInTime, Clock!Waits, Clock!Behind
<1>1. PICK ms \in Nat, c \in 0 .. behind :
        systemTime = (armed + ms) % WordSize /\ ms * TicksPerMs + tcnt = since + c
  BY DEF ClockInv, SystemTimeMoves
<1>2. /\ TicksPerMs \in Int /\ TicksPerMs >= 1 /\ behind \in Int /\ armed \in Int /\ half \in Int
      /\ since \in Int /\ since >= 0 /\ tcnt \in 0 .. behind
  BY DEF ClockAssumption, ClockInv
<1> DEFINE n == ms * TicksPerMs
           d == delay * TicksPerMs
<1>3. n \in Int /\ d \in Int /\ n = since + c - tcnt
  BY <1>1, <1>2
<1>4. \A p, q \in Int : /\ p < q => p * TicksPerMs + TicksPerMs <= q * TicksPerMs
                        /\ p >= q => p * TicksPerMs >= q * TicksPerMs
  <2>1. ASSUME NEW p \in Int, NEW q \in Int, p < q
        PROVE  p * TicksPerMs + TicksPerMs <= q * TicksPerMs
    <3>1. TicksPerMs * p + TicksPerMs <= TicksPerMs * q
      BY <1>2, <2>1, Multiples
    <3> QED BY <1>2, <3>1
  <2>2. \A p, q \in Int : p >= q => p = q \/ q < p
    OBVIOUS
  <2>3. \A p \in Int : p * TicksPerMs \in Int
    BY <1>2
  <2> QED BY <1>2, <2>1, <2>2, <2>3
<1>5. ms \in 0 .. half - 1
  <2>1. ~(ms >= half)
    <3>1. n < half * TicksPerMs /\ half * TicksPerMs \in Int
      BY <1>1, <1>2, <1>3
    <3> QED BY <1>1, <1>2, <1>3, <1>4, <3>1
  <2> QED BY <1>1, <1>2, <2>1
<1>6. Clock!Compare((armed + delay) % WordSize, systemTime) > 0 <=> ms < delay
  BY <1>1, <1>2, <1>5, CompareIs
<1>7. CASE ms < delay
  <2>1. n + TicksPerMs <= d
    BY <1>1, <1>4, <1>7
  <2> HIDE DEF n, d
  <2>2. since < d + behind
    BY <1>1, <1>2, <1>3, <2>1
  <2> QED BY <1>6, <1>7, <2>2 DEF d
<1>8. CASE ~(ms < delay)
  <2>1. n >= d
    <3>1. ms >= delay /\ ms \in Int /\ delay \in Int
      BY <1>1, <1>8
    <3> QED BY <1>4, <3>1
  <2> HIDE DEF n, d
  <2>2. since >= d - behind
    BY <1>1, <1>2, <1>3, <2>1
  <2> QED BY <1>6, <1>8, <2>2 DEF d
<1> QED BY <1>7, <1>8

\* The NTP time since the last synchronization: one less when the network time wraps.
Shown(from, ms) == IF from + ms < WordSize THEN ms ELSE ms - 1
LEMMA NtpIs ==
    ClockAssumption /\ ClockInv /\ Clock!MsSince < WordSize =>
        Clock!NtpElapsed = Shown(base, Shown(start, Clock!MsSince))
<1> SUFFICES ASSUME ClockAssumption, ClockInv, Clock!MsSince < WordSize
             PROVE  Clock!NtpElapsed = Shown(base, Shown(start, Clock!MsSince))
  OBVIOUS
<1> DEFINE w == WordSize
           m == Clock!MsSince
           e == IF start + m < w THEN m ELSE m - 1
           n == (base + e) % w
<1>1. w \in Int /\ w > 0 /\ start \in 0 .. w - 1 /\ base \in 0 .. w - 1 /\ m \in 0 .. w - 1
  BY ClockBounds DEF ClockAssumption, ClockInv
<1>2. Clock!Elapsed(start, Clock!NowMs) = e
  BY ElapsedIs
<1>3. Clock!NtpElapsed = Clock!Elapsed(base, n)
  BY <1>2 DEF Clock!NtpElapsed, Clock!NetworkTime
<1> HIDE DEF w, m
<1>4. e \in 0 .. w - 1
  BY <1>1
<1> HIDE DEF e
<1>5. n = IF base + e < w THEN base + e ELSE base + e - w
  <2> DEFINE s == base + e
  <2>1. s \in Int /\ (s \in 0 .. w - 1 \/ s \in w .. 2 * w - 1)
    BY <1>1, <1>4
  <2>2. n = s % w
    BY DEF n
  <2>3. (s < w => n = s) /\ (~(s < w) => n = s - w)
    <3> HIDE DEF s
    <3> QED BY <1>1, <2>1, <2>2, Wraps
  <2> HIDE DEF n
  <2> QED BY <1>1, <1>4, <2>3
<1> HIDE DEF n
<1>6. Clock!Elapsed(base, n) = IF base + e < w THEN e ELSE e - 1
  BY <1>1, <1>4, <1>5 DEF Clock!Elapsed, w
<1> QED BY <1>3, <1>6 DEF e, m, w, Shown

\* Each step keeps the count of the history and the clock together.
LEMMA ClockStep ==
    ASSUME ClockAssumption, ClockInv, [Clock!Next]_clockVars
    PROVE  ClockInv'
<1>1. /\ WordSize \in Int /\ WordSize > 0 /\ TicksPerMs \in Int /\ TicksPerMs > 0
      /\ Top \in Int /\ Top >= 0 /\ MaxLate \in Int /\ MaxLate >= 0 /\ Top % TicksPerMs = 0
      /\ systemTime \in Int /\ tcnt \in Int /\ since \in Int /\ start \in Int
      /\ tcnt \div TicksPerMs \in Int /\ since \div TicksPerMs \in Int
      /\ Top \div TicksPerMs \in Int /\ tcnt % TicksPerMs \in 0 .. TicksPerMs - 1
      /\ WordSize * TicksPerMs \in Int /\ WordSize * TicksPerMs > 0
  <2>1. /\ WordSize \in Int /\ WordSize > 0 /\ TicksPerMs \in Int /\ TicksPerMs > 0
        /\ Top \in Int /\ Top >= 0 /\ MaxLate \in Int /\ MaxLate >= 0 /\ Top % TicksPerMs = 0
        /\ systemTime \in Int /\ tcnt \in Int /\ since \in Int /\ start \in Int
    BY DEF ClockAssumption, ClockInv
  <2>2. WordSize * TicksPerMs \in Int /\ WordSize * TicksPerMs > 0
    BY <2>1
  <2> QED BY <2>1, <2>2, Division
<1>2. CASE Clock!Count
  <2>1. /\ tcnt' = tcnt + 1 /\ since' = since + 1
        /\ systemTime' = systemTime /\ start' = start /\ base' = base /\ armed' = armed
        /\ tcnt < Top + MaxLate /\ since < WordSize * TicksPerMs
    BY <1>2 DEF Clock!Count
  <2>2. tcnt' \in 0 .. Top + MaxLate /\ since' \in 0 .. WordSize * TicksPerMs
    BY <1>1, <2>1 DEF ClockInv
  <2>3. tcnt' % TicksPerMs = since' % TicksPerMs
    BY <1>1, <2>1, OneMore DEF ClockInv
  <2> DEFINE one == IF tcnt % TicksPerMs = TicksPerMs - 1 THEN 1 ELSE 0
             c == tcnt \div TicksPerMs
             m == since \div TicksPerMs
  <2>4. tcnt' \div TicksPerMs = c + one /\ since' \div TicksPerMs = m + one
    BY <1>1, <2>1, OneMore DEF ClockInv
  <2>5. one \in Int /\ c \in Int /\ m \in Int
    BY <1>1
  <2>6. (systemTime + c) % WordSize = (start + m) % WordSize
    BY DEF ClockInv, Clock!NowMs, Clock!MsSince
  <2>7. Clock!NowMs' = (start + (m + one)) % WordSize
    <3> HIDE DEF one, c, m
    <3>1. Clock!NowMs' = ((systemTime + c) + one) % WordSize
      <4>1. Clock!NowMs' = (systemTime + (c + one)) % WordSize
        BY <2>1, <2>4 DEF Clock!NowMs
      <4>2. systemTime + (c + one) = (systemTime + c) + one
        BY <1>1, <2>5
      <4> QED BY <4>1, <4>2
    <3>2. systemTime + c \in Int /\ start + m \in Int
      BY <1>1, <2>5
    <3>0. \A a \in Int : ((a % WordSize) + one) % WordSize = (a + one) % WordSize
      <4> TAKE a \in Int
      <4> DEFINE t == WordSize
      <4>1. t \in Int /\ t > 0
        BY <1>1
      <4> HIDE DEF t
      <4>2. ((a % t) + one) % t = (a + one) % t
        BY <2>5, <4>1, RemainderOfSum
      <4> QED BY <4>2 DEF t
    <3>3. ((systemTime + c) + one) % WordSize = (((systemTime + c) % WordSize) + one) % WordSize
      BY <3>0, <3>2
    <3>4. (((start + m) % WordSize) + one) % WordSize = ((start + m) + one) % WordSize
      BY <3>0, <3>2
    <3>5. (start + m) + one = start + (m + one)
      BY <1>1, <2>5
    <3> QED BY <2>6, <3>1, <3>3, <3>4, <3>5
  <2>8. Clock!NowMs' = (start' + Clock!MsSince') % WordSize
    <3>1. Clock!MsSince' = m + one
      <4> HIDE DEF m, one
      <4> QED BY <2>4 DEF Clock!MsSince
    <3> HIDE DEF m, one
    <3> QED BY <2>1, <2>7, <3>1
  <2>9. \E ms \in Nat, d \in 0 .. Top + MaxLate :
          systemTime' = (armed' + ms) % WordSize /\ ms * TicksPerMs + tcnt' = since' + d
    <3>1. PICK ms \in Nat, d \in 0 .. Top + MaxLate :
            systemTime = (armed + ms) % WordSize /\ ms * TicksPerMs + tcnt = since + d
      BY DEF ClockInv, SystemTimeMoves
    <3>2. ms * TicksPerMs \in Int
      BY <1>1
    <3>3. ms * TicksPerMs + tcnt' = since' + d
      BY <1>1, <2>1, <3>1, <3>2
    <3> QED BY <2>1, <3>1, <3>3
  <2>10. armed' \in 0 .. WordSize - 1
    BY <2>1 DEF ClockInv
  <2> HIDE DEF one, c, m
  <2> QED BY <2>1, <2>2, <2>3, <2>8, <2>9, <2>10 DEF ClockInv, SystemTimeMoves
<1>3. CASE Clock!TimerInterrupt
  <2> DEFINE k == Top \div TicksPerMs
             c == tcnt \div TicksPerMs
  <2>1. /\ tcnt' = tcnt - Top /\ tcnt > Top /\ systemTime' = (systemTime + k) % WordSize
        /\ start' = start /\ base' = base /\ since' = since /\ armed' = armed
    BY <1>3 DEF Clock!TimerInterrupt, Clock!TakenOff
  <2>2. tcnt' \in 0 .. Top + MaxLate
    BY <1>1, <2>1 DEF ClockInv
  <2>3. tcnt' \div TicksPerMs = c - k /\ tcnt' % TicksPerMs = tcnt % TicksPerMs
    <3>1. /\ (tcnt - Top) \div TicksPerMs = tcnt \div TicksPerMs - Top \div TicksPerMs
          /\ (tcnt - Top) % TicksPerMs = tcnt % TicksPerMs
      BY <1>1, WholeLess
    <3> QED BY <2>1, <3>1
  <2>4. k \in Int /\ c \in Int
    BY <1>1
  <2>5. systemTime' \in 0 .. WordSize - 1
    <3>1. systemTime + k \in Int
      BY <1>1, <2>4
    <3> HIDE DEF k
    <3> QED BY <1>1, <2>1, <3>1, Division
  <2>6. Clock!NowMs' = Clock!NowMs
    <3> HIDE DEF k, c
    <3>1. Clock!NowMs' = (((systemTime + k) % WordSize) + (c - k)) % WordSize
      BY <2>1, <2>3 DEF Clock!NowMs
    <3>2. systemTime + k \in Int /\ c - k \in Int /\ (systemTime + k) + (c - k) = systemTime + c
      BY <1>1, <2>4
    <3>3. Clock!NowMs' = ((systemTime + k) + (c - k)) % WordSize
      BY <1>1, <3>1, <3>2, RemainderOfSum
    <3> QED BY <3>2, <3>3 DEF Clock!NowMs, c
  <2>7. Clock!MsSince' = Clock!MsSince
    BY <2>1 DEF Clock!MsSince
  <2>8. \E ms \in Nat, d \in 0 .. Top + MaxLate :
          systemTime' = (armed' + ms) % WordSize /\ ms * TicksPerMs + tcnt' = since' + d
    <3>1. PICK ms \in Nat, d \in 0 .. Top + MaxLate :
            systemTime = (armed + ms) % WordSize /\ ms * TicksPerMs + tcnt = since + d
      BY DEF ClockInv, SystemTimeMoves
    <3>2. Top = TicksPerMs * k + (Top % TicksPerMs)
      BY <1>1, Division
    <3>3. k \in Nat
      <4>1. ~(k < 0)
        <5>1. k < 0 => TicksPerMs * k + TicksPerMs <= TicksPerMs * 0
          <6> HIDE DEF k
          <6> QED BY <1>1, <2>4, Multiples
        <5> QED BY <1>1, <2>4, <3>2, <5>1
      <4> QED BY <2>4, <4>1
    <3> HIDE DEF k, c
    <3>4. (ms + k) * TicksPerMs = ms * TicksPerMs + Top /\ ms * TicksPerMs \in Int
      <4>1. (ms + k) * TicksPerMs = ms * TicksPerMs + TicksPerMs * k /\ TicksPerMs * k \in Int
            /\ ms * TicksPerMs \in Int
        BY <1>1, <3>3
      <4> QED BY <1>1, <3>2, <4>1
    <3>5. (ms + k) * TicksPerMs + tcnt' = since' + d
      BY <1>1, <2>1, <3>1, <3>4
    <3>6. systemTime' = (armed' + (ms + k)) % WordSize
      <4>1. armed \in Int /\ armed + ms \in Int /\ (armed + ms) + k = armed + (ms + k)
        BY <1>1, <3>3 DEF ClockInv
      <4>2. (((armed + ms) % WordSize) + k) % WordSize = ((armed + ms) + k) % WordSize
        <5> DEFINE a == armed + ms
                   w == WordSize
        <5>1. a \in Int /\ k \in Int /\ w \in Int /\ w > 0
          BY <1>1, <3>3, <4>1
        <5> HIDE DEF a, w
        <5>2. ((a % w) + k) % w = (a + k) % w
          BY <5>1, RemainderOfSum
        <5> QED BY <5>2 DEF a, w
      <4> QED BY <2>1, <3>1, <4>1, <4>2
    <3> QED BY <3>1, <3>3, <3>5, <3>6
  <2>9. armed' \in 0 .. WordSize - 1
    BY <2>1 DEF ClockInv
  <2> HIDE DEF k, c
  <2> QED BY <2>1, <2>2, <2>3, <2>5, <2>6, <2>7, <2>8, <2>9 DEF ClockInv, SystemTimeMoves
<1>4. CASE Clock!Start
  <2>1. /\ start' = Clock!NowMs /\ since' = tcnt % TicksPerMs /\ base' \in 0 .. WordSize - 1
        /\ systemTime' = systemTime /\ tcnt' = tcnt /\ armed' = systemTime
    BY <1>4 DEF Clock!Start
  <2>2. Clock!NowMs' = Clock!NowMs /\ Clock!NowMs \in 0 .. WordSize - 1
    BY <2>1, ClockBounds DEF Clock!NowMs
  <2> DEFINE r == tcnt % TicksPerMs
  <2>3. r \in 0 .. TicksPerMs - 1 /\ r = TicksPerMs * 0 + r
    BY <1>1
  <2>4. since' \div TicksPerMs = 0 /\ since' % TicksPerMs = r
    <3> HIDE DEF r
    <3> QED BY <1>1, <2>1, <2>3, Quotient DEF r
  <2>5. Clock!NowMs' = (start' + Clock!MsSince') % WordSize
    <3>1. Clock!MsSince' = 0
      BY <2>4 DEF Clock!MsSince
    <3>2. Clock!NowMs \in Int /\ start' + Clock!MsSince' = Clock!NowMs
      BY <2>1, <2>2, <3>1
    <3>3. Clock!NowMs % WordSize = Clock!NowMs
      BY <1>1, <2>2, <3>2, Wraps
    <3> QED BY <2>2, <3>2, <3>3
  <2>6. since' \in 0 .. WordSize * TicksPerMs
    <3>1. TicksPerMs * 1 <= TicksPerMs * WordSize
      BY <1>1
    <3>2. TicksPerMs * WordSize = WordSize * TicksPerMs
      BY <1>1
    <3> QED BY <1>1, <2>1, <2>3, <3>1, <3>2
  <2>7. tcnt' % TicksPerMs = since' % TicksPerMs
    BY <2>1, <2>4
  <2>8. \E ms \in Nat, d \in 0 .. Top + MaxLate :
          systemTime' = (armed' + ms) % WordSize /\ ms * TicksPerMs + tcnt' = since' + d
    <3>1. systemTime' = (armed' + 0) % WordSize
      <4>1. systemTime \in 0 .. WordSize - 1 /\ systemTime + 0 = systemTime
        BY <1>1 DEF ClockInv
      <4>2. systemTime % WordSize = systemTime
        BY <1>1, <4>1, Wraps
      <4> QED BY <2>1, <4>1, <4>2
    <3>2. tcnt = TicksPerMs * (tcnt \div TicksPerMs) + r /\ tcnt \in 0 .. Top + MaxLate
      BY <1>1, Division DEF ClockInv
    <3>3. tcnt - r \in 0 .. Top + MaxLate
      <4>1. tcnt \div TicksPerMs >= 0
        <5>1. tcnt \div TicksPerMs < 0 => TicksPerMs * (tcnt \div TicksPerMs) + TicksPerMs <= TicksPerMs * 0
          BY <1>1, Multiples
        <5> DEFINE x == TicksPerMs * (tcnt \div TicksPerMs)
                   y == tcnt \div TicksPerMs
        <5>2. x \in Int /\ y \in Int /\ tcnt = x + r /\ tcnt >= 0 /\ r \in 0 .. TicksPerMs - 1
              /\ (y < 0 => x + TicksPerMs <= 0)
          BY <1>1, <2>3, <3>2, <5>1
        <5> HIDE DEF x, y, r
        <5>3. ~(y < 0)
          BY <1>1, <5>2
        <5> QED BY <5>2, <5>3 DEF y
      <4>2. TicksPerMs * (tcnt \div TicksPerMs) >= 0
        BY <1>1, <4>1
      <4> DEFINE x == TicksPerMs * (tcnt \div TicksPerMs)
      <4>3. x \in Int /\ x >= 0 /\ tcnt = x + r /\ r >= 0 /\ r \in Int
        BY <1>1, <2>3, <3>2, <4>2
      <4> HIDE DEF x, r
      <4> QED BY <1>1, <3>2, <4>3
    <3>4. 0 * TicksPerMs + tcnt' = since' + (tcnt - r)
      BY <1>1, <2>1, <2>3
    <3> HIDE DEF r
    <3> QED BY <3>1, <3>3, <3>4
  <2>9. armed' \in 0 .. WordSize - 1
    BY <2>1 DEF ClockInv
  <2> HIDE DEF r
  <2> QED BY <2>1, <2>2, <2>5, <2>6, <2>7, <2>8, <2>9 DEF ClockInv, SystemTimeMoves
<1>5. CASE UNCHANGED clockVars
  BY <1>5 DEF clockVars, ClockInv, SystemTimeMoves, Clock!NowMs, Clock!MsSince
<1> QED BY <1>2, <1>3, <1>4, <1>5 DEF Clock!Next

LEMMA ClockStarts == ClockAssumption /\ Clock!Init => ClockInv
<1> SUFFICES ASSUME ClockAssumption, Clock!Init PROVE ClockInv
  OBVIOUS
<1>1. WordSize \in Int /\ WordSize > 0 /\ TicksPerMs \in Int /\ TicksPerMs > 0
  BY DEF ClockAssumption
<1>2. 0 \div TicksPerMs = 0 /\ 0 % TicksPerMs = 0 /\ 0 % WordSize = 0
  <2>1. 0 = TicksPerMs * 0 + 0 /\ 0 \in 0 .. TicksPerMs - 1 /\ 0 \in 0 .. WordSize - 1
    BY <1>1
  <2> QED BY <1>1, <2>1, Quotient, Wraps
<1>3. Clock!NowMs = (start + Clock!MsSince) % WordSize
  BY <1>2 DEF Clock!Init, Clock!NowMs, Clock!MsSince
<1>4. 0 \in 0 .. WordSize * TicksPerMs
  <2>1. WordSize * TicksPerMs > 0 /\ WordSize * TicksPerMs \in Int
    BY <1>1
  <2> QED BY <2>1
<1>5. 0 \in 0 .. Top + MaxLate /\ 0 \in 0 .. WordSize - 1
  BY DEF ClockAssumption
<1>6. systemTime = (armed + 0) % WordSize /\ 0 * TicksPerMs + tcnt = since + 0
  BY <1>1, <1>2 DEF Clock!Init
<1>7. armed = 0
  BY DEF Clock!Init
<1> QED BY <1>3, <1>4, <1>5, <1>6, <1>7 DEF Clock!Init, ClockInv, SystemTimeMoves

\* Between synchronizations, what the NTP time shows grows with the time that passed.
LEMMA NtpGrows ==
    ASSUME ClockAssumption, ClockInv, ClockInv', start' = start, base' = base,
           since <= since', Clock!MsSince' < WordSize
    PROVE  Clock!NtpElapsed' >= Clock!NtpElapsed
<1> DEFINE w == WordSize
           m == Clock!MsSince
           n == Clock!MsSince'
<1>1. ClockAssumption'
  BY DEF ClockAssumption
<1>2. m <= n
  <2>1. since \in Int /\ since' \in Int /\ TicksPerMs \in Int /\ TicksPerMs > 0
    BY DEF ClockInv, ClockAssumption
  <2> QED BY <2>1, QuotientGrows DEF Clock!MsSince
<1>3. /\ w \in Int /\ w > 0 /\ start \in 0 .. w - 1 /\ base \in 0 .. w - 1
      /\ m \in 0 .. w /\ n \in 0 .. w
  <2>1. (ClockAssumption /\ ClockInv => Clock!MsSince \in 0 .. WordSize)'
    BY ClockBounds, PTL
  <2> QED BY <1>1, <2>1, ClockBounds DEF ClockAssumption, ClockInv
<1>4. m < w /\ n < w
  <2> HIDE DEF m, n, w
  <2>1. n < w
    BY DEF n, w
  <2> QED BY <1>2, <1>3, <2>1
<1>5. Clock!NtpElapsed = Shown(base, Shown(start, m))
  BY <1>4, NtpIs
<1>6. Clock!NtpElapsed' = Shown(base, Shown(start, n))
  <2>1. (ClockAssumption /\ ClockInv /\ Clock!MsSince < WordSize =>
           Clock!NtpElapsed = Shown(base, Shown(start, Clock!MsSince)))'
    BY NtpIs, PTL
  <2>2. Clock!NtpElapsed' = Shown(base, Shown(start, Clock!MsSince))'
    BY <1>1, <1>4, <2>1
  <2> QED BY <2>2 DEF Shown
<1> HIDE DEF m, n
<1>7. Shown(base, Shown(start, m)) <= Shown(base, Shown(start, n))
  BY <1>2, <1>3, <1>4 DEF Shown
<1>8. Shown(base, Shown(start, m)) \in Int /\ Shown(base, Shown(start, n)) \in Int
  BY <1>3 DEF Shown
<1> QED BY <1>5, <1>6, <1>7, <1>8

-----------------------------------------------------------------------------
(* Finite sets *)

\* A set of numbers that is not empty has a least one.
LEMMA LeastMember ==
    ASSUME NEW S \in SUBSET Nat, S # {}
    PROVE  \E x \in S : \A y \in S : x <= y
<1>1. PICK x \in S : \A y \in S : ~(<<y, x>> \in OpToRel(<, Nat))
  BY NatLessThanWellFounded, WFMin
<1>2. ASSUME NEW y \in S PROVE ~(y < x)
  BY <1>1, Zenon DEF OpToRel
<1> QED
  BY <1>2

LEMMA FiniteImage ==
    ASSUME NEW S, IsFiniteSet(S), NEW f, DOMAIN f = S
    PROVE  IsFiniteSet({f[x] : x \in S})
<1> DEFINE T == {f[x] : x \in S}
           g == [x \in S |-> f[x]]
<1>1. g \in Surjection(S, T)
  BY DEF Surjection
<1> QED BY <1>1, FS_Surjection

-----------------------------------------------------------------------------
(* The configuration store *)

Types == {"none"} \cup {TypeIn[f][p] : f \in DOMAIN KnownTo, p \in Config!Params}
Block == [id : Config!Params \cup {"empty"}, type : Types, n : Nat, value : Int]

ConfigTypes ==
    /\ eeprom \in [Config!Blocks -> Block]
    /\ index \subseteq Config!Params \X Config!Blocks
    /\ firmware \in DOMAIN KnownTo
    /\ power \in {"on", "off"}
    /\ stale \in BOOLEAN
    /\ DOMAIN writing = {"pc", "todo", "n", "free", "old"}
    /\ writing.pc \in {"idle", "erase", "write", "check"}
    /\ DOMAIN allowed = Config!Params
    /\ \A p \in Config!Params : DOMAIN allowed[p] = Config!PartsOf(p)

WritingSane ==
    /\ power = "off" => writing.pc = "idle"
    /\ writing.pc = "erase" => writing.n \in Config!Blocks
    /\ writing.pc \in {"write", "check"} =>
          /\ writing.todo \in Seq(KnownTo[firmware] \X Int) /\ writing.todo # <<>>
          /\ \A i \in 1 .. Len(writing.todo) : writing.todo[i][1] = "version" => writing.todo[i][2] = firmware
          /\ writing.n \in Config!PartsOf(Head(writing.todo)[1])
    /\ writing.pc = "check" => writing.free \in Config!Blocks
           /\ writing.old \in Config!Blocks \cup {Config!None}

IsAt(b, p, n) == eeprom[b].id = p /\ eeprom[b].n = n
Missing(p, n) == \A b \in Config!Blocks : ~IsAt(b, p, n)
\* The version is not looked for.
Current == \E b \in Config!Blocks : IsAt(b, "version", 0) /\ eeprom[b].value = firmware
SameOnce(b, c) == eeprom[b].id # "empty" /\ IsAt(c, eeprom[b].id, eeprom[b].n) => b = c

BlocksSane ==
    \A b \in Config!Blocks :
        IF eeprom[b].id = "empty" THEN eeprom[b] = Config!Erased
        ELSE /\ eeprom[b].n \in Config!PartsOf(eeprom[b].id)
             /\ eeprom[b].id = "version" => eeprom[b].value \in Int /\ eeprom[b].value <= firmware
             /\ power = "on" => eeprom[b].id \in KnownTo[firmware]
             /\ power = "on" \/ Current => eeprom[b].type = TypeIn[firmware][eeprom[b].id]

Faithful ==
    /\ \A b \in Config!Blocks : eeprom[b].id # "empty" => eeprom[b].value \in allowed[eeprom[b].id][eeprom[b].n]
    /\ power = "on" \/ Current =>
          \A p \in KnownTo[firmware] : \A n \in Config!PartsOf(p) : Missing(p, n)
              => Config!Zeroes \in allowed[p][n]
    /\ writing.pc = "erase" => \A p \in Config!Params : \A n \in Config!PartsOf(p) : Config!Zeroes \in allowed[p][n]

\* An entry leads to the first block of its parameter, or is an old one of a parameter that has
\* none, unless it is just being written.
Leads(q, b) ==
    \/ IsAt(b, q, 0)
    \/ stale /\ \A c \in Config!Blocks : IsAt(c, q, 0) => writing.pc = "check" /\ c = writing.free

IndexInv ==
    /\ power = "off" => index = {}
    /\ writing.pc = "erase" /\ ~stale => index = {}
    /\ \A q \in Config!Params : \A b, c \in Config!Blocks : <<q, b>> \in index /\ <<q, c>> \in index => b = c
    /\ \A q \in Config!Params, b \in Config!Blocks : <<q, b>> \in index => Leads(q, b)
    /\ writing.pc = "check" /\ writing.n = 0 =>
          \A b \in Config!Blocks : <<Head(writing.todo)[1], b>> \in index => b = writing.old

\* The other block of what is being written is the one to erase; or an old entry of the index
\* led elsewhere.
OldIs(p, n) ==
    \/ /\ writing.old # writing.free
       /\ \A c \in Config!Blocks \ {writing.free} : IsAt(c, p, n) <=> c = writing.old
    \/ /\ stale /\ writing.old # Config!None
       /\ \A c \in Config!Blocks \ {writing.free} : ~IsAt(c, p, n)

Once ==
    IF writing.pc # "check" THEN power = "on" => \A b, c \in Config!Blocks : SameOnce(b, c)
    ELSE LET p == Head(writing.todo)[1] IN
         /\ IsAt(writing.free, p, writing.n)
         /\ \A b, c \in Config!Blocks \ {writing.free} : SameOnce(b, c)
         /\ OldIs(p, writing.n)
         /\ (\A c \in Config!Blocks \ {writing.free} : ~IsAt(c, p, writing.n))
                => Config!Zeroes \in allowed[p][writing.n]

ConfigInv == ConfigTypes /\ WritingSane /\ BlocksSane /\ Faithful /\ IndexInv /\ Once

-----------------------------------------------------------------------------
(* The search for blocks *)

LEMMA FirstIs ==
    ASSUME ConfigAssumption, NEW S \in SUBSET Config!Blocks
    PROVE  /\ S = {} => Config!First(S) = Config!None
           /\ S # {} => Config!First(S) \in S /\ Config!First(S) \in Config!Blocks
                    /\ \A c \in S : Config!First(S) <= c
           /\ Config!First(S) \in Config!Blocks \cup {Config!None}
           /\ Config!None \notin Config!Blocks
<1>1. Config!Blocks \subseteq Nat /\ Config!None \notin Config!Blocks
  BY DEF ConfigAssumption, Config!Blocks, Config!None
<1>2. CASE S = {}
  BY <1>1, <1>2 DEF Config!First
<1>3. CASE S # {}
  <2>1. \E b \in S : \A c \in S : b <= c
    BY <1>1, <1>3, LeastMember
  <2>2. Config!First(S) = CHOOSE b \in S : \A c \in S : b <= c
    BY <1>3 DEF Config!First
  <2>3. Config!First(S) \in S /\ \A c \in S : Config!First(S) <= c
    BY <2>1, <2>2
  <2> QED BY <1>1, <1>3, <2>3
<1> QED BY <1>2, <1>3

\* What a search gives: what the index has, or else the block, if there is one.
Found(s, p, n) ==
    \/ n = 0 /\ s \in Config!Blocks /\ <<p, s>> \in index
    \/ /\ n = 0 => \A b \in Config!Blocks : <<p, b>> \notin index
       /\ s = Config!None <=> Missing(p, n)
       /\ s # Config!None => IsAt(s, p, n)

LEMMA SeekIs ==
    ASSUME ConfigAssumption, index \subseteq Config!Params \X Config!Blocks, NEW p, NEW n
    PROVE  /\ Config!Seek(p, n, eeprom, index) \in Config!Blocks \cup {Config!None}
           /\ Found(Config!Seek(p, n, eeprom, index), p, n)
<1> DEFINE S == {b \in Config!Blocks : eeprom[b].id = p /\ eeprom[b].n = n}
           I == Config!InIndex(p, index)
           s == Config!Seek(p, n, eeprom, index)
<1>1. I \in SUBSET Config!Blocks /\ S \in SUBSET Config!Blocks
  BY DEF Config!InIndex
<1>2. \A b \in Config!Blocks : b \in I <=> <<p, b>> \in index
  BY DEF Config!InIndex
<1>3. CASE n = 0 /\ I # {}
  <2>1. s = Config!First(I)
    BY <1>3 DEF Config!Seek
  <2>2. Config!First(I) \in I /\ Config!First(I) \in Config!Blocks
    BY <1>1, <1>3, FirstIs
  <2> HIDE DEF s, I, S
  <2>3. s \in Config!Blocks /\ <<p, s>> \in index
    BY <1>2, <2>1, <2>2
  <2> QED BY <1>3, <2>3 DEF Found, s
<1>4. CASE ~(n = 0 /\ I # {})
  <2>1. s = Config!First(S)
    BY <1>4 DEF Config!Seek
  <2>2. /\ S # {} => Config!First(S) \in S /\ Config!First(S) \in Config!Blocks
        /\ S = {} => Config!First(S) = Config!None
        /\ Config!None \notin Config!Blocks
    BY <1>1, FirstIs
  <2>3. n = 0 => \A b \in Config!Blocks : <<p, b>> \notin index
    BY <1>2, <1>4
  <2>4. S = {} <=> Missing(p, n)
    BY DEF Missing, IsAt
  <2>5. Config!First(S) \in S => IsAt(Config!First(S), p, n)
    BY DEF IsAt
  <2> HIDE DEF s, I, S
  <2>6. /\ s \in Config!Blocks \cup {Config!None}
        /\ s = Config!None <=> Missing(p, n)
        /\ s # Config!None => IsAt(s, p, n)
    BY <2>1, <2>2, <2>4, <2>5
  <2> QED BY <2>3, <2>6 DEF Found, s
<1> QED BY <1>3, <1>4

\* A search adds what it found at most.
LEMMA IndexIs ==
    ASSUME ConfigAssumption, NEW e, NEW ix, NEW p, NEW n, NEW ix2 \in Config!IndexAfterSeek(p, n, e, ix)
    PROVE  \/ ix2 \subseteq ix
           \/ /\ n = 0 /\ Config!Seek(p, n, e, ix) # Config!None
              /\ ix2 \subseteq ix \cup {<<p, Config!Seek(p, n, e, ix)>>}
<1> DEFINE b == Config!Seek(p, n, e, ix)
<1>1. CASE n # 0 \/ b = Config!None \/ Config!InIndex(p, ix) # {}
  BY <1>1 DEF Config!IndexAfterSeek
<1>2. CASE ~(n # 0 \/ b = Config!None \/ Config!InIndex(p, ix) # {})
  <2>1. ix2 \in {kept \cup {<<p, b>>} : kept \in {ix} \cup {ix \ {entry} : entry \in ix}}
    BY <1>2 DEF Config!IndexAfterSeek
  <2>2. PICK kept \in {ix} \cup {ix \ {entry} : entry \in ix} : ix2 = kept \cup {<<p, b>>}
    BY <2>1
  <2>3. kept \subseteq ix
    BY <2>2
  <2> QED BY <1>2, <2>2, <2>3
<1> QED BY <1>1, <1>2

\* The index stays right when a parameter is looked for.
LEMMA IndexStaysRight ==
    ASSUME ConfigAssumption, ConfigTypes, IndexInv, NEW p \in Config!Params, NEW n,
           NEW ix \in Config!IndexAfterSeek(p, n, eeprom, index)
    PROVE  /\ ix \subseteq Config!Params \X Config!Blocks
           /\ \A q \in Config!Params : \A b, c \in Config!Blocks : <<q, b>> \in ix /\ <<q, c>> \in ix => b = c
           /\ \A q \in Config!Params, b \in Config!Blocks : <<q, b>> \in ix => Leads(q, b)
           /\ n = 0 => \A b \in Config!Blocks : <<p, b>> \in ix => b = Config!Seek(p, n, eeprom, index)
<1> DEFINE s == Config!Seek(p, n, eeprom, index)
<1>1. \/ ix \subseteq index
      \/ n = 0 /\ s # Config!None /\ ix \subseteq index \cup {<<p, s>>}
  BY IndexIs
<1>2. index \subseteq Config!Params \X Config!Blocks
  BY DEF ConfigTypes
<1>3. s \in Config!Blocks \cup {Config!None} /\ Found(s, p, n)
  BY <1>2, SeekIs
<1>4. /\ \A q \in Config!Params : \A b, c \in Config!Blocks : <<q, b>> \in index /\ <<q, c>> \in index => b = c
      /\ \A q \in Config!Params, b \in Config!Blocks : <<q, b>> \in index => Leads(q, b)
  BY DEF IndexInv
<1> HIDE DEF s
<1>5. ix \subseteq Config!Params \X Config!Blocks
  BY <1>1, <1>2, <1>3
<1>6. ASSUME n = 0, NEW b \in Config!Blocks, <<p, b>> \in ix PROVE b = s
  <2>1. CASE <<p, b>> \in index
    BY <1>3, <1>4, <1>6, <2>1 DEF Found
  <2>2. CASE ~(<<p, b>> \in index)
    BY <1>1, <1>6, <2>2
  <2> QED BY <2>1, <2>2
<1>7. ASSUME NEW q \in Config!Params, NEW b \in Config!Blocks, NEW c \in Config!Blocks,
             <<q, b>> \in ix, <<q, c>> \in ix
      PROVE  b = c
  <2>1. CASE ix \subseteq index
    BY <1>4, <1>7, <2>1
  <2>2. CASE ~(ix \subseteq index)
    <3>1. n = 0 /\ (q # p => <<q, b>> \in index /\ <<q, c>> \in index)
      BY <1>1, <1>7, <2>2
    <3> QED BY <1>4, <1>6, <1>7, <3>1
  <2> QED BY <2>1, <2>2
<1>8. ASSUME NEW q \in Config!Params, NEW b \in Config!Blocks, <<q, b>> \in ix PROVE Leads(q, b)
  <2>1. CASE <<q, b>> \in index
    BY <1>4, <2>1
  <2>2. CASE ~(<<q, b>> \in index)
    <3>1. n = 0 /\ q = p /\ b = s /\ s # Config!None
      BY <1>1, <1>8, <2>2
    <3>2. IsAt(b, q, 0)
      BY <1>3, <2>2, <3>1 DEF Found
    <3> QED BY <3>2 DEF Leads
  <2> QED BY <2>1, <2>2
<1> QED BY <1>5, <1>6, <1>7, <1>8 DEF s

-----------------------------------------------------------------------------
(* Room for another block *)

\* What is assumed of the parameters.
LEMMA ParamsAre ==
    ASSUME ConfigAssumption
    PROVE  /\ "empty" \notin Config!Params /\ TotalBlocks \in Nat \ {0} /\ Values \subseteq Int
           /\ \A p \in Config!Params : Length[p] \in Nat \ {0}
           /\ 1 \in DOMAIN KnownTo /\ \A f \in DOMAIN KnownTo : f \in Nat
           /\ \A f \in DOMAIN KnownTo : \A p \in KnownTo[f] : p \in Config!Params
BY DEF ConfigAssumption

LEMMA CellsAreFinite ==
    ASSUME ConfigAssumption, NEW f \in DOMAIN KnownTo
    PROVE  IsFiniteSet(Config!CellsOf(f))
<1> DEFINE rows == [p \in KnownTo[f] |-> {p} \X Config!PartsOf(p)]
           images == {rows[p] : p \in KnownTo[f]}
<1>1. IsFiniteSet(KnownTo[f])
  BY FS_Subset DEF ConfigAssumption
<1>2. IsFiniteSet(images)
  <2> HIDE DEF rows
  <2>1. DOMAIN rows = KnownTo[f]
    BY DEF rows
  <2> QED BY <1>1, <2>1, FiniteImage
<1>3. ASSUME NEW T \in images PROVE IsFiniteSet(T)
  <2>1. PICK p \in KnownTo[f] : T = {p} \X Config!PartsOf(p)
    BY <1>3
  <2>2. p \in Config!Params /\ Length[p] - 1 \in Int
    BY ParamsAre
  <2>3. IsFiniteSet(Config!PartsOf(p))
    BY <2>2, 0 \in Int, FS_Interval DEF Config!PartsOf
  <2>4. IsFiniteSet({p})
    BY FS_Singleton
  <2> QED BY <2>1, <2>3, <2>4, FS_Product
<1>4. IsFiniteSet(UNION images)
  <2> HIDE DEF images
  <2> QED BY <1>2, <1>3, FS_UNION
<1>5. Config!CellsOf(f) = UNION images
  BY DEF Config!CellsOf
<1> QED BY <1>4, <1>5

\* Each part of a parameter has one block, and there are more blocks than parts.
LEMMA ThereIsRoom ==
    ASSUME ConfigAssumption, ConfigInv, power = "on", writing.pc # "check"
    PROVE  Config!FreeBlock(eeprom) # Config!None
<1> SUFFICES ASSUME Config!FreeBlock(eeprom) = Config!None PROVE FALSE
  OBVIOUS
<1> DEFINE S == {b \in Config!Blocks : eeprom[b] = Config!Erased}
<1>1. \A b \in Config!Blocks : eeprom[b] # Config!Erased
  <2>1. S = {}
    BY FirstIs DEF Config!FreeBlock
  <2> QED BY <2>1
<1>2. firmware \in DOMAIN KnownTo /\ TotalBlocks \in Nat
  BY DEF ConfigInv, ConfigTypes, ConfigAssumption
<1> DEFINE C == Config!CellsOf(firmware)
           f == [b \in Config!Blocks |-> <<eeprom[b].id, eeprom[b].n>>]
<1>3. \A b \in Config!Blocks : /\ eeprom[b].id \in KnownTo[firmware] /\ eeprom[b].id # "empty"
                        /\ eeprom[b].n \in Config!PartsOf(eeprom[b].id)
  BY <1>1 DEF ConfigInv, BlocksSane, ConfigAssumption
<1>4. \A b \in Config!Blocks : f[b] \in C
  BY <1>3 DEF Config!CellsOf
<1>5. \A b, c \in Config!Blocks : SameOnce(b, c)
  BY DEF ConfigInv, Once
<1>6. ASSUME NEW b \in Config!Blocks, NEW c \in Config!Blocks, f[b] = f[c] PROVE b = c
  BY <1>3, <1>5, <1>6 DEF SameOnce, IsAt
<1> HIDE DEF C
<1>7. f \in Injection(Config!Blocks, C)
  <2>1. f \in [Config!Blocks -> C]
    BY <1>4
  <2> HIDE DEF f
  <2> QED BY <1>6, <2>1 DEF Injection, IsInjective
<1> HIDE DEF f
<1>8. IsFiniteSet(C)
  BY <1>2, CellsAreFinite DEF C
<1>9. Cardinality(Config!Blocks) <= Cardinality(C)
  BY <1>7, <1>8, FS_Injection
<1>10. Cardinality(Config!Blocks) = TotalBlocks
  <2>1. 0 \in Int /\ TotalBlocks - 1 \in Int
    BY <1>2
  <2>2. Cardinality(0 .. TotalBlocks - 1) = IF 0 > TotalBlocks - 1 THEN 0 ELSE (TotalBlocks - 1) - 0 + 1
    BY <2>1, FS_Interval
  <2> QED BY <1>2, <2>2 DEF Config!Blocks
<1>11. Cardinality(C) < TotalBlocks
  BY <1>2 DEF C, ConfigAssumption
<1>12. Cardinality(C) \in Nat
  BY <1>8, FS_CardinalityType
<1> QED BY <1>2, <1>9, <1>10, <1>11, <1>12

-----------------------------------------------------------------------------
(* The steps *)

LEMMA ConfigStarts == ConfigAssumption /\ Config!Init => ConfigInv
<1> SUFFICES ASSUME ConfigAssumption, Config!Init PROVE ConfigInv
  OBVIOUS
<1>1. ConfigTypes
  <2>1. Config!Erased \in Block
    BY DEF Config!Erased, Config!Zeroes, Block, Types
  <2>2. eeprom \in [Config!Blocks -> Block] /\ index = {} /\ power = "off" /\ stale = FALSE
    BY <2>1 DEF Config!Init
  <2>3. firmware \in DOMAIN KnownTo
    BY ParamsAre DEF Config!Init
  <2>4. DOMAIN writing = {"pc", "todo", "n", "free", "old"} /\ writing.pc = "idle"
    BY DEF Config!Init, Config!Idle
  <2>5. DOMAIN allowed = Config!Params /\ \A p \in Config!Params : DOMAIN allowed[p] = Config!PartsOf(p)
    BY DEF Config!Init, Config!PartsOf
  <2> QED BY <2>2, <2>3, <2>4, <2>5 DEF ConfigTypes
<1>2. WritingSane
  BY DEF Config!Init, WritingSane, Config!Idle
<1>3. BlocksSane
  BY DEF Config!Init, BlocksSane, Config!Erased
<1>4. \A b \in Config!Blocks : eeprom[b].id = "empty"
  BY DEF Config!Init, Config!Erased
<1>5. Faithful
  <2>1. ~Current
    BY <1>4 DEF Current, IsAt
  <2> QED BY <1>4, <2>1 DEF Config!Init, Config!Idle, Faithful
<1>6. IndexInv
  BY DEF Config!Init, Config!Idle, IndexInv
<1>7. Once
  BY DEF Config!Init, Config!Idle, Once
<1> QED BY <1>1, <1>2, <1>3, <1>5, <1>6, <1>7 DEF ConfigInv

LEMMA GetStep ==
    ASSUME ConfigAssumption, ConfigInv, NEW p \in KnownTo[firmware], Config!Get(p)
    PROVE  ConfigInv'
<1>1. /\ index' \in Config!IndexAfterSeek(p, 0, eeprom, index) /\ power = "on" /\ writing.pc = "idle"
      /\ UNCHANGED <<eeprom, writing, firmware, power, allowed, stale, sets, failures>>
  BY DEF Config!Get
<1>2. p \in Config!Params /\ ConfigTypes /\ IndexInv
  BY DEF ConfigAssumption, ConfigInv, ConfigTypes
<1>3. /\ index' \subseteq Config!Params \X Config!Blocks
      /\ \A q \in Config!Params : \A b, c \in Config!Blocks :
            <<q, b>> \in index' /\ <<q, c>> \in index' => b = c
      /\ \A q \in Config!Params, b \in Config!Blocks : <<q, b>> \in index' => Leads(q, b)
  BY <1>1, <1>2, IndexStaysRight
<1>4. ConfigTypes'
  BY <1>1, <1>3 DEF ConfigInv, ConfigTypes
<1>5. WritingSane' /\ BlocksSane'
  BY <1>1 DEF ConfigInv, WritingSane, BlocksSane, Current, IsAt
<1>6. Faithful' /\ Once'
  BY <1>1 DEF ConfigInv, Faithful, Once, Current, Missing, IsAt, SameOnce
<1>7. IndexInv'
  BY <1>1, <1>3 DEF IndexInv, Leads, IsAt
<1> QED BY <1>4, <1>5, <1>6, <1>7 DEF ConfigInv

LEMMA SetStep ==
    ASSUME ConfigAssumption, ConfigInv, NEW p \in KnownTo[firmware], NEW v \in Values, Config!Set(p, v)
    PROVE  ConfigInv'
<1>1. /\ writing' = [pc |-> "write", todo |-> <<<<p, v>>>>, n |-> 0, free |-> Config!None, old |-> Config!None]
      /\ power = "on" /\ writing.pc = "idle" /\ p # "version"
      /\ UNCHANGED <<eeprom, index, firmware, power, allowed, stale, failures>>
  BY DEF Config!Set, Config!Idle
<1>2. p \in Config!Params /\ firmware \in DOMAIN KnownTo /\ 0 \in Config!PartsOf(p)
  BY ParamsAre DEF ConfigInv, ConfigTypes, Config!PartsOf
<1>3. ConfigTypes'
  BY <1>1 DEF ConfigInv, ConfigTypes
<1>4. WritingSane'
  <2>1. <<p, v>> \in KnownTo[firmware] \X Int
    BY DEF ConfigAssumption
  <2>2. writing'.todo = <<<<p, v>>>> /\ Len(writing'.todo) = 1 /\ Head(writing'.todo) = <<p, v>>
        /\ writing'.todo \in Seq(KnownTo[firmware] \X Int)
    BY <1>1, <2>1
  <2> QED BY <1>1, <1>2, <2>2 DEF WritingSane
<1>5. BlocksSane'
  BY <1>1 DEF ConfigInv, BlocksSane, Current, IsAt
<1>6. Faithful' /\ IndexInv' /\ Once'
  BY <1>1 DEF ConfigInv, Faithful, IndexInv, Leads, Once, Current, Missing, IsAt, SameOnce
<1> QED BY <1>3, <1>4, <1>5, <1>6 DEF ConfigInv

LEMMA ResetStep ==
    ASSUME ConfigAssumption, ConfigInv, Config!ResetCfg
    PROVE  ConfigInv'
<1>1. /\ writing' = [pc |-> "erase", todo |-> <<>>, n |-> 0, free |-> Config!None, old |-> Config!None]
      /\ power = "on" /\ writing.pc = "idle"
      /\ stale' = (stale \/ index # {})
      /\ allowed' = [p \in Config!Params |-> [n \in Config!PartsOf(p) |-> allowed[p][n] \cup {Config!Zeroes}]]
      /\ UNCHANGED <<eeprom, index, firmware, power, failures>>
  BY DEF Config!ResetCfg, Config!EraseAll, Config!Idle, Config!MayBeZeroes, Config!PartsOf
<1>2. ConfigTypes'
  BY <1>1 DEF ConfigInv, ConfigTypes
<1>3. WritingSane'
  <2>1. 0 \in Config!Blocks
    BY DEF ConfigAssumption, Config!Blocks
  <2> QED BY <1>1, <2>1 DEF WritingSane
<1>4. BlocksSane'
  BY <1>1 DEF ConfigInv, BlocksSane, Current, IsAt
<1>5. Once'
  BY <1>1 DEF ConfigInv, Once, SameOnce, IsAt
<1>6. Faithful'
  <2>1. \A b \in Config!Blocks : eeprom[b].id # "empty" =>
           eeprom[b].id \in Config!Params /\ eeprom[b].n \in Config!PartsOf(eeprom[b].id)
           /\ eeprom[b].value \in allowed[eeprom[b].id][eeprom[b].n]
    BY DEF ConfigInv, Faithful, BlocksSane, ConfigTypes, Block
  <2>2. \A p \in Config!Params : \A n \in Config!PartsOf(p) :
           allowed'[p][n] = allowed[p][n] \cup {Config!Zeroes}
    BY <1>1
  <2>3. \A p \in KnownTo[firmware] : p \in Config!Params
    BY DEF ConfigAssumption, ConfigInv, ConfigTypes
  <2> QED BY <1>1, <2>1, <2>2, <2>3 DEF Faithful
<1>7. IndexInv'
  <2>1. ASSUME NEW q \in Config!Params, NEW b \in Config!Blocks, Leads(q, b) PROVE Leads(q, b)'
    BY <1>1, <2>1 DEF Leads, IsAt
  <2> QED BY <1>1, <2>1 DEF ConfigInv, IndexInv
<1> QED BY <1>2, <1>3, <1>4, <1>5, <1>6, <1>7 DEF ConfigInv

LEMMA PowerFailureStep ==
    ASSUME ConfigAssumption, ConfigInv, Config!PowerFailure
    PROVE  ConfigInv'
<1>1. /\ writing' = [pc |-> "idle", todo |-> <<>>, n |-> 0, free |-> Config!None, old |-> Config!None]
      /\ index' = {} /\ power' = "off" /\ power = "on"
      /\ UNCHANGED <<eeprom, firmware, allowed, stale, sets>>
  BY DEF Config!PowerFailure, Config!Idle
<1>2. ConfigTypes' /\ WritingSane'
  BY <1>1 DEF ConfigInv, ConfigTypes, WritingSane
<1>3. BlocksSane'
  BY <1>1 DEF ConfigInv, BlocksSane
<1>4. Faithful' /\ IndexInv' /\ Once'
  BY <1>1 DEF ConfigInv, Faithful, IndexInv, Once, Missing, IsAt, Current
<1> QED BY <1>2, <1>3, <1>4 DEF ConfigInv

\* The new firmware finds the version of the prior one at most, and writes the defaults.
LEMMA UpgradeStep ==
    ASSUME ConfigAssumption, ConfigInv, Config!Upgrade
    PROVE  ConfigInv'
<1>1. /\ power = "off" /\ firmware + 1 \in DOMAIN KnownTo /\ firmware' = firmware + 1
      /\ UNCHANGED <<eeprom, index, writing, power, allowed, stale, sets, failures>>
  BY DEF Config!Upgrade
<1>2. writing.pc = "idle" /\ firmware \in Nat
  BY <1>1 DEF ConfigInv, WritingSane, ConfigTypes, ConfigAssumption
<1>3. ConfigTypes' /\ WritingSane'
  BY <1>1, <1>2 DEF ConfigInv, ConfigTypes, WritingSane
<1>4. ~Current'
  <2>1. ASSUME NEW b \in Config!Blocks, IsAt(b, "version", 0)
        PROVE  eeprom[b].value <= firmware /\ eeprom[b].value \in Int
    BY <2>1 DEF ConfigInv, BlocksSane, IsAt
  <2> QED BY <1>1, <1>2, <2>1 DEF Current, IsAt
<1>5. BlocksSane'
  BY <1>1, <1>2, <1>4 DEF ConfigInv, BlocksSane
<1>6. Faithful'
  BY <1>1, <1>2, <1>4 DEF ConfigInv, Faithful
<1>7. IndexInv' /\ Once'
  BY <1>1, <1>2 DEF ConfigInv, IndexInv, Once
<1> QED BY <1>3, <1>5, <1>6, <1>7 DEF ConfigInv

\* A start leaves one block for each part of a parameter that has any.
LEMMA CleanedIs ==
    ASSUME ConfigAssumption, ConfigTypes, NEW e, e = Config!Cleaned(eeprom)
    PROVE  /\ e \in [Config!Blocks -> Block]
           /\ \A b \in Config!Blocks : e[b] = Config!Erased \/ (e[b] = eeprom[b]
                  /\ e[b].id \in KnownTo[firmware] /\ e[b].type = TypeIn[firmware][e[b].id])
           /\ \A b, c \in Config!Blocks : e[b].id # "empty" /\ e[c].id = e[b].id /\ e[c].n = e[b].n => b = c
           /\ (\A b \in Config!Blocks : eeprom[b].id \in KnownTo[firmware]
                                               => eeprom[b].type = TypeIn[firmware][eeprom[b].id]) =>
                 \A p \in KnownTo[firmware], n \in Nat :
                    (\A b \in Config!Blocks : ~(e[b].id = p /\ e[b].n = n)) => Missing(p, n)
<1> DEFINE Stays(b) == /\ eeprom[b].id \in KnownTo[firmware]
                       /\ eeprom[b].type = TypeIn[firmware][eeprom[b].id]
                       /\ ~\E c \in Config!Blocks : c < b /\ eeprom[c].id = eeprom[b].id
                              /\ eeprom[c].n = eeprom[b].n
<1>1. e = [b \in Config!Blocks |-> IF Stays(b) THEN eeprom[b] ELSE Config!Erased]
  BY DEF Config!Cleaned, Config!TypeOf
<1>2. Config!Erased \in Block
          /\ Config!Erased.id = "empty"
  BY DEF Config!Erased, Config!Zeroes, Block, Types
<1>3. eeprom \in [Config!Blocks -> Block]
  BY DEF ConfigTypes
<1>4. Config!Blocks \subseteq Nat
  BY DEF ConfigAssumption, Config!Blocks
<1>5. \A p \in KnownTo[firmware] : p # "empty"
  BY DEF ConfigAssumption, ConfigTypes
<1>6. ASSUME NEW b \in Config!Blocks, NEW c \in Config!Blocks, e[b].id # "empty", e[c].id = e[b].id,
                     e[c].n = e[b].n
      PROVE  b = c
  <2>1. Stays(b) /\ Stays(c) /\ e[b] = eeprom[b] /\ e[c] = eeprom[c]
    BY <1>1, <1>2, <1>6
  <2>2. ~(b < c) /\ ~(c < b)
    BY <1>6, <2>1
  <2> QED BY <1>4, <2>2
<1>7. ASSUME NEW p \in KnownTo[firmware], NEW n \in Nat, ~Missing(p, n),
             \A b \in Config!Blocks : eeprom[b].id \in KnownTo[firmware]
                                          => eeprom[b].type = TypeIn[firmware][eeprom[b].id]
      PROVE  \E b \in Config!Blocks : e[b].id = p /\ e[b].n = n
  <2> DEFINE S == {b \in Config!Blocks : eeprom[b].id = p /\ eeprom[b].n = n}
  <2>1. S # {} /\ S \in SUBSET Nat
    BY <1>4, <1>7 DEF Missing, IsAt
  <2>2. PICK b \in S : \A c \in S : b <= c
    BY <2>1, LeastMember
  <2>3. Stays(b)
    <3>1. b \in Config!Blocks /\ eeprom[b].id = p /\ eeprom[b].n = n
      BY <2>2
    <3>2. ASSUME NEW c \in Config!Blocks, c < b, eeprom[c].id = eeprom[b].id, eeprom[c].n = eeprom[b].n
          PROVE  FALSE
      <4>1. c \in S
        BY <3>1, <3>2
      <4>2. b <= c
        BY <2>2, <4>1
      <4> QED BY <1>4, <3>1, <3>2, <4>2
    <3> QED BY <1>7, <3>1, <3>2
  <2>4. e[b] = eeprom[b]
    BY <1>1, <2>3
  <2> QED BY <2>2, <2>4
<1>8. e \in [Config!Blocks -> Block]
  BY <1>1, <1>2, <1>3
<1>9. \A b \in Config!Blocks : e[b] = Config!Erased \/ (e[b] = eeprom[b]
          /\ e[b].id \in KnownTo[firmware] /\ e[b].type = TypeIn[firmware][e[b].id])
  BY <1>1
<1> QED BY <1>6, <1>7, <1>8, <1>9

\* What is in the only block of a part, or zeroes.
LEMMA SettledIs ==
    ASSUME ConfigAssumption, NEW e,
           \A b, c \in Config!Blocks : e[b].id # "empty" /\ e[c].id = e[b].id /\ e[c].n = e[b].n => b = c,
           NEW p \in Config!Params, NEW n \in Config!PartsOf(p)
    PROVE  /\ \A b \in Config!Blocks : e[b].id = p /\ e[b].n = n => Config!Settled(e)[p][n] = {e[b].value}
           /\ (\A b \in Config!Blocks : ~(e[b].id = p /\ e[b].n = n))
                  => Config!Settled(e)[p][n] = {Config!Zeroes}
<1> DEFINE S == {c \in Config!Blocks : e[c].id = p /\ e[c].n = n}
<1>1. Config!Settled(e)[p][n] = {IF Config!First(S)
          = Config!None THEN Config!Zeroes ELSE e[Config!First(S)].value}
  BY DEF Config!Settled, Config!PartsOf
<1>2. p # "empty"
  BY DEF ConfigAssumption
<1>3. ASSUME NEW b \in Config!Blocks, e[b].id = p, e[b].n = n PROVE Config!Settled(e)[p][n] = {e[b].value}
  <2>1. b \in S /\ S \in SUBSET Config!Blocks
    BY <1>3
  <2>2. Config!First(S) \in S /\ Config!First(S) # Config!None
    BY <2>1, FirstIs
  <2>3. Config!First(S) = b
    BY <1>2, <1>3, <2>2
  <2> HIDE DEF S
  <2> QED BY <1>1, <2>2, <2>3
<1>4. ASSUME \A b \in Config!Blocks : ~(e[b].id = p /\ e[b].n = n)
                 PROVE Config!Settled(e)[p][n] = {Config!Zeroes}
  <2>1. S = {} /\ S \in SUBSET Config!Blocks
    BY <1>4
  <2>2. Config!First(S) = Config!None
    BY <2>1, FirstIs
  <2> QED BY <1>1, <2>2
<1> QED BY <1>3, <1>4

LEMMA StartStep ==
    ASSUME ConfigAssumption, ConfigInv, Config!Start
    PROVE  ConfigInv'
<1> DEFINE e == Config!Cleaned(eeprom)
           b0 == Config!Seek("version", 0, e, {})
           now == [p \in Config!Params |-> [n \in Config!PartsOf(p) |->
                      allowed[p][n] \cap Config!Settled(e)[p][n]]]
           reset == b0 = Config!None \/ e[b0].value # firmware
<1>1. /\ power = "off" /\ power' = "on" /\ eeprom' = e
      /\ index' \in Config!IndexAfterSeek("version", 0, e, {})
      /\ writing' = IF reset THEN Config!EraseAll ELSE Config!Idle
      /\ stale' = (reset /\ b0 # Config!None)
      /\ allowed' = IF reset THEN [p \in Config!Params |-> [n \in DOMAIN now[p] |-> now[p][n] \cup {Config!Zeroes}]]
                    ELSE now
      /\ UNCHANGED <<firmware, sets, failures>>
  BY DEF Config!Start, Config!PartsOf
<1>2. ConfigTypes /\ WritingSane /\ BlocksSane /\ Faithful
  BY DEF ConfigInv
<1>3. /\ e \in [Config!Blocks -> Block]
      /\ \A b \in Config!Blocks : e[b] = Config!Erased \/ (e[b] = eeprom[b]
            /\ e[b].id \in KnownTo[firmware] /\ e[b].type = TypeIn[firmware][e[b].id])
      /\ \A b, c \in Config!Blocks : e[b].id # "empty" /\ e[c].id = e[b].id /\ e[c].n = e[b].n => b = c
      /\ (\A b \in Config!Blocks : eeprom[b].id \in KnownTo[firmware]
                                          => eeprom[b].type = TypeIn[firmware][eeprom[b].id]) =>
            \A p \in KnownTo[firmware], n \in Nat :
               (\A b \in Config!Blocks : ~(e[b].id = p /\ e[b].n = n)) => Missing(p, n)
  <2> HIDE DEF e
  <2>1. e = Config!Cleaned(eeprom)
    BY DEF e
  <2> QED BY <1>2, <2>1, CleanedIs
<1>4. /\ \A p \in Config!Params : \A n \in Config!PartsOf(p) : \A b \in Config!Blocks :
            e[b].id = p /\ e[b].n = n => Config!Settled(e)[p][n] = {e[b].value}
      /\ \A p \in Config!Params : \A n \in Config!PartsOf(p) :
            (\A b \in Config!Blocks : ~(e[b].id = p /\ e[b].n = n)) => Config!Settled(e)[p][n] = {Config!Zeroes}
  <2> HIDE DEF e
  <2> QED BY <1>3, SettledIs
<1>5. /\ b0 \in Config!Blocks \cup {Config!None} /\ Config!None \notin Config!Blocks
      /\ b0 # Config!None => e[b0].id = "version" /\ e[b0].n = 0
  <2> DEFINE S == {b \in Config!Blocks : e[b].id = "version" /\ e[b].n = 0}
  <2>1. b0 = Config!First(S)
    BY DEF Config!Seek, Config!InIndex
  <2>2. S \in SUBSET Config!Blocks
    OBVIOUS
  <2> HIDE DEF b0, e, S
  <2>3. Config!First(S) \in Config!Blocks \cup {Config!None} /\ Config!None \notin Config!Blocks
            /\ (S # {} => Config!First(S) \in S) /\ (S = {} => Config!First(S) = Config!None)
    BY <2>2, FirstIs
  <2> QED BY <2>1, <2>3 DEF S
<1>6. index' = {} \/ (b0 # Config!None /\ index' \subseteq {<<"version", b0>>})
  <2> HIDE DEF e
  <2>1. \/ index' \subseteq {}
        \/ 0 = 0 /\ b0 # Config!None /\ index' \subseteq {} \cup {<<"version", b0>>}
    BY <1>1, IndexIs
  <2> QED BY <2>1
<1>7. firmware \in DOMAIN KnownTo /\ KnownTo[firmware] \subseteq Config!Params /\ "empty" \notin Config!Params
  BY <1>2 DEF ConfigTypes, ConfigAssumption
<1>8. \A p \in Config!Params : \A n \in Config!PartsOf(p) :
        /\ now[p][n] = allowed[p][n] \cap Config!Settled(e)[p][n]
        /\ now[p][n] \subseteq allowed'[p][n]
        /\ reset => Config!Zeroes \in allowed'[p][n]
  <2> HIDE DEF e, reset
  <2> QED BY <1>1
<1>9. DOMAIN allowed' = Config!Params /\ \A p \in Config!Params : DOMAIN allowed'[p] = Config!PartsOf(p)
  <2> HIDE DEF e, reset
  <2> QED BY <1>1
<1> HIDE DEF e, b0, now
<1>10. ConfigTypes'
  <2>1. /\ DOMAIN writing' = {"pc", "todo", "n", "free", "old"}
        /\ writing'.pc \in {"idle", "erase", "write", "check"}
    BY <1>1 DEF Config!EraseAll, Config!Idle
  <2>2. "version" \in Config!Params \/ b0 = Config!None
    BY <1>3, <1>5, <1>7 DEF Config!Erased
  <2>3. index' \subseteq Config!Params \X Config!Blocks
    BY <1>5, <1>6, <2>2
  <2>4. firmware' \in DOMAIN KnownTo /\ power' \in {"on", "off"} /\ stale' \in BOOLEAN
    BY <1>1, <1>7
  <2>5. eeprom' \in [Config!Blocks -> Block]
    BY <1>1, <1>3
  <2> QED BY <1>9, <2>1, <2>3, <2>4, <2>5 DEF ConfigTypes
<1>11. WritingSane'
  <2>1. 0 \in Config!Blocks
    BY DEF ConfigAssumption, Config!Blocks
  <2> QED BY <1>1, <2>1 DEF WritingSane, Config!EraseAll, Config!Idle
<1>12. BlocksSane'
  <2>1. ASSUME NEW b \in Config!Blocks, e[b].id # "empty"
        PROVE  /\ e[b].n \in Config!PartsOf(e[b].id)
               /\ e[b].id = "version" => e[b].value \in Int /\ e[b].value <= firmware
               /\ e[b].id \in KnownTo[firmware] /\ e[b].type = TypeIn[firmware][e[b].id]
    <3>1. /\ e[b] = eeprom[b] /\ e[b].id \in KnownTo[firmware]
          /\ e[b].type = TypeIn[firmware][e[b].id]
      BY <1>3, <2>1 DEF Config!Erased
    <3> QED BY <1>2, <2>1, <3>1 DEF BlocksSane
  <2>2. ASSUME NEW b \in Config!Blocks, e[b].id = "empty" PROVE e[b] = Config!Erased
    BY <1>3, <1>7, <2>2
  <2> QED BY <1>1, <2>1, <2>2 DEF BlocksSane
<1>13. Once'
  <2>1. writing'.pc # "check"
    BY <1>1 DEF Config!EraseAll, Config!Idle
  <2> QED BY <1>1, <1>3, <2>1 DEF Once, SameOnce, IsAt
<1>14. IndexInv'
  <2>1. writing'.pc # "check" /\ (writing'.pc = "erase" => reset)
    BY <1>1 DEF Config!EraseAll, Config!Idle
  <2>2. writing'.pc = "erase" /\ ~stale' => b0 = Config!None
    BY <1>1, <2>1
  <2>3. \A q \in Config!Params, b \in Config!Blocks : <<q, b>> \in index' => Leads(q, b)'
    BY <1>1, <1>5, <1>6 DEF Leads, IsAt
  <2> HIDE DEF reset
  <2> QED BY <1>1, <1>6, <2>1, <2>2, <2>3 DEF IndexInv
<1>15. Faithful'
  <2>1. ASSUME NEW b \in Config!Blocks, e[b].id # "empty" PROVE e[b].value \in allowed'[e[b].id][e[b].n]
    <3> DEFINE p == e[b].id
               n == e[b].n
    <3>1. e[b] = eeprom[b] /\ p \in KnownTo[firmware]
      BY <1>3, <2>1 DEF Config!Erased
    <3>2. p \in Config!Params /\ n \in Config!PartsOf(p)
      BY <1>2, <1>7, <2>1, <3>1 DEF BlocksSane
    <3>3. Config!Settled(e)[p][n] = {e[b].value}
      BY <1>4, <3>2
    <3>4. e[b].value \in allowed[p][n]
      BY <1>2, <2>1, <3>1 DEF Faithful
    <3> HIDE DEF p, n, reset
    <3>5. e[b].value \in now[p][n]
      BY <1>8, <3>2, <3>3, <3>4
    <3>6. e[b].value \in allowed'[p][n]
      BY <1>8, <3>2, <3>5
    <3> QED BY <3>6 DEF p, n
  <2>2. ASSUME NEW p \in KnownTo[firmware], NEW n \in Config!PartsOf(p),
               \A b \in Config!Blocks : ~(e[b].id = p /\ e[b].n = n), ~reset
        PROVE  Config!Zeroes \in allowed'[p][n]
    <3>1. p \in Config!Params /\ n \in Nat
      BY <1>7 DEF ConfigAssumption, Config!PartsOf
    <3>2. Config!Settled(e)[p][n] = {Config!Zeroes}
      BY <1>4, <2>2, <3>1
    <3>3. Current
      <4>1. b0 \in Config!Blocks /\ e[b0].id = "version" /\ e[b0].n = 0 /\ e[b0].value = firmware
        BY <1>5, <2>2
      <4>2. e[b0] = eeprom[b0]
        BY <1>3, <4>1 DEF Config!Erased
      <4> QED BY <4>1, <4>2 DEF Current, IsAt
    <3>4. Missing(p, n)
      <4>1. \A b \in Config!Blocks : eeprom[b].id \in KnownTo[firmware]
               => eeprom[b].type = TypeIn[firmware][eeprom[b].id]
        BY <1>2, <1>7, <3>3 DEF BlocksSane
      <4> QED BY <1>3, <2>2, <3>1, <4>1
    <3>5. Config!Zeroes \in allowed[p][n]
      BY <1>2, <3>3, <3>4 DEF Faithful
    <3> HIDE DEF reset
    <3> QED BY <1>8, <3>1, <3>2, <3>5
  <2>3. writing'.pc = "erase" => reset
    BY <1>1 DEF Config!Idle
  <2> HIDE DEF reset
  <2> QED BY <1>1, <1>7, <1>8, <2>1, <2>2, <2>3 DEF Faithful, Missing, IsAt
<1> QED BY <1>10, <1>11, <1>12, <1>13, <1>14, <1>15 DEF ConfigInv

LEMMA EraseStep ==
    ASSUME ConfigAssumption, ConfigInv, Config!Erase
    PROVE  ConfigInv'
<1> DEFINE k == writing.n
           todo == Defaults[firmware]
<1>1. /\ writing.pc = "erase" /\ eeprom' = [eeprom EXCEPT ![k] = Config!Erased]
      /\ UNCHANGED <<index, firmware, power, allowed, stale, sets, failures>>
  BY DEF Config!Erase
<1>2. /\ k < TotalBlocks - 1 => writing' = [writing EXCEPT !.n = writing.n + 1]
      /\ ~(k < TotalBlocks - 1) => writing' = [pc |-> "write", todo |-> todo, n |-> 0,
             free |-> Config!None, old |-> Config!None]
  BY DEF Config!Erase, Config!Idle
<1>3. /\ k \in Config!Blocks /\ power = "on" /\ firmware \in DOMAIN KnownTo /\ firmware \in Nat
      /\ Config!Erased \in Block
             /\ Config!Erased.id = "empty"
      /\ "empty" \notin Config!Params /\ KnownTo[firmware] \subseteq Config!Params
  <2>1. k \in Config!Blocks /\ power = "on" /\ firmware \in DOMAIN KnownTo
    BY <1>1 DEF ConfigInv, ConfigTypes, WritingSane
  <2>2. Config!Erased \in Block /\ Config!Erased.id = "empty"
    BY DEF Config!Erased, Config!Zeroes, Block, Types
  <2> QED BY <2>1, <2>2, ParamsAre
<1>4. /\ todo \in Seq(KnownTo[firmware] \X Int) /\ todo # <<>>
      /\ \A i \in 1 .. Len(todo) : todo[i][1] = "version" => todo[i][2] = firmware
      /\ Head(todo)[1] \in Config!Params
  <2>1. /\ todo \in Seq(KnownTo[firmware] \X Int) /\ todo # <<>>
        /\ \A i \in 1 .. Len(todo) : todo[i][1] = "version" => todo[i][2] = firmware
    BY <1>3 DEF ConfigAssumption
  <2> HIDE DEF todo
  <2>2. Head(todo) \in KnownTo[firmware] \X Int
    BY <2>1
  <2> QED BY <1>3, <2>1, <2>2
<1> HIDE DEF todo
<1>5. ConfigTypes'
  <2>1. /\ DOMAIN writing' = {"pc", "todo", "n", "free", "old"}
        /\ writing'.pc \in {"idle", "erase", "write", "check"}
    BY <1>1, <1>2 DEF ConfigInv, ConfigTypes
  <2>2. eeprom' \in [Config!Blocks -> Block]
    BY <1>1, <1>3 DEF ConfigInv, ConfigTypes
  <2> QED BY <1>1, <2>1, <2>2 DEF ConfigInv, ConfigTypes
<1>6. WritingSane'
  <2>1. CASE k < TotalBlocks - 1
    <3>1. writing'.pc = "erase" /\ writing'.n = writing.n + 1
      BY <1>1, <1>2, <2>1 DEF ConfigInv, ConfigTypes
    <3>2. k + 1 \in Config!Blocks
      BY <1>3, <2>1 DEF Config!Blocks, ConfigAssumption
    <3> QED BY <1>1, <1>3, <3>1, <3>2 DEF WritingSane
  <2>2. CASE ~(k < TotalBlocks - 1)
    <3>1. writing'.pc = "write" /\ writing'.n = 0 /\ writing'.todo = todo
      BY <1>2, <2>2
    <3>2. 0 \in Config!PartsOf(Head(todo)[1])
      BY <1>4 DEF ConfigAssumption, Config!PartsOf
    <3> QED BY <1>1, <1>3, <1>4, <3>1, <3>2 DEF WritingSane
  <2> QED BY <2>1, <2>2
<1>7. \A b \in Config!Blocks : eeprom'[b] = IF b = k THEN Config!Erased ELSE eeprom[b]
  BY <1>1 DEF ConfigInv, ConfigTypes
<1>8. writing'.pc \in {"erase", "write"}
  BY <1>1, <1>2 DEF ConfigInv, ConfigTypes
<1>9. \A b \in Config!Blocks : eeprom'[b].id # "empty" => b # k /\ eeprom'[b] = eeprom[b]
  BY <1>3, <1>7
<1>10. BlocksSane'
  BY <1>1, <1>3, <1>7 DEF ConfigInv, BlocksSane
<1>11. Faithful'
  <2>1. Faithful
    BY DEF ConfigInv
  <2> QED BY <1>1, <1>3, <1>9, <2>1 DEF Faithful
<1>12. \A b, c \in Config!Blocks : SameOnce(b, c)
  BY <1>1, <1>3 DEF ConfigInv, Once
<1>13. Once'
  <2>1. \A b, c \in Config!Blocks : SameOnce(b, c)'
    BY <1>3, <1>7, <1>9, <1>12 DEF SameOnce, IsAt
  <2> QED BY <1>8, <2>1 DEF Once
<1>14. IndexInv'
  <2>1. IndexInv
    BY DEF ConfigInv
  <2>2. ASSUME NEW q \in Config!Params, NEW b \in Config!Blocks, <<q, b>> \in index PROVE Leads(q, b)'
    <3>1. stale /\ Leads(q, b) /\ q # "empty"
      BY <1>1, <1>3, <2>1, <2>2 DEF IndexInv
    <3>2. \A c \in Config!Blocks : IsAt(c, q, 0)' => c # k /\ IsAt(c, q, 0)
      BY <1>3, <1>7 DEF IsAt
    <3>3. CASE IsAt(b, q, 0) /\ b # k
      BY <1>7, <3>3 DEF Leads, IsAt
    <3>4. CASE IsAt(b, q, 0) /\ b = k
      <4>1. \A c \in Config!Blocks : ~IsAt(c, q, 0)'
        BY <1>12, <3>1, <3>2, <3>4 DEF SameOnce, IsAt
      <4> QED BY <1>1, <3>1, <4>1 DEF Leads
    <3>5. CASE ~IsAt(b, q, 0)
      <4>1. \A c \in Config!Blocks : ~IsAt(c, q, 0)
        BY <1>1, <3>1, <3>5 DEF Leads
      <4> QED BY <1>1, <3>1, <3>2, <4>1 DEF Leads
    <3> QED BY <3>3, <3>4, <3>5
  <2> QED BY <1>1, <1>3, <1>8, <2>1, <2>2 DEF IndexInv
<1> QED BY <1>5, <1>6, <1>10, <1>11, <1>13, <1>14 DEF ConfigInv

\* What is being written stays a parameter of the firmware.
LEMMA TailIs ==
    ASSUME NEW T, NEW s \in Seq(T), s # <<>>, Len(s) # 1
    PROVE  /\ Tail(s) \in Seq(T) /\ Len(Tail(s)) = Len(s) - 1 /\ Tail(s) # <<>>
           /\ \A i \in 1 .. Len(s) - 1 : Tail(s)[i] = s[i + 1]
           /\ Len(s) \in Nat /\ Len(s) > 1 /\ Head(Tail(s)) \in T
<1>1. Len(s) \in Nat \ {0}
  BY EmptySeq
<1>2. Len(s) > 1
  <2> DEFINE n == Len(s)
  <2> HIDE DEF n
  <2>1. n \in Nat \ {0} /\ n # 1
    BY <1>1 DEF n
  <2>2. n > 1
    BY <2>1
  <2> QED BY <2>2 DEF n
<1>3. Tail(s) \in Seq(T) /\ Len(Tail(s)) = Len(s) - 1
  BY <1>2
<1>4. \A i \in 1 .. Len(s) - 1 : Tail(s)[i] = s[i + 1]
  BY <1>2
<1>5. Tail(s) # <<>>
  <2> DEFINE n == Len(s)
             t == Tail(s)
  <2>1. n > 1 /\ Len(t) = n - 1 /\ n \in Nat
    BY <1>1, <1>2, <1>3
  <2> HIDE DEF n, t
  <2>2. Len(t) # 0
    BY <2>1
  <2>3. t # <<>>
    BY <2>2
  <2> QED BY <2>3 DEF t
<1>6. Head(Tail(s)) \in T
  BY <1>3, <1>5
<1> QED BY <1>1, <1>2, <1>3, <1>4, <1>5, <1>6

LEMMA NextParamIsSane ==
    ASSUME ConfigAssumption, ConfigInv, writing.pc \in {"write", "check"},
           writing' = Config!NextParam, firmware' = firmware, power' = power
    PROVE  /\ WritingSane'
           /\ DOMAIN writing' = {"pc", "todo", "n", "free", "old"} /\ writing'.pc \in {"idle", "write"}
<1> DEFINE T == KnownTo[firmware] \X Int
           todo == writing.todo
<1>1. /\ todo \in Seq(T) /\ todo # <<>> /\ power = "on" /\ power' = "on"
      /\ \A i \in 1 .. Len(todo) : todo[i][1] = "version" => todo[i][2] = firmware
  BY DEF ConfigInv, ConfigTypes, WritingSane
<1>2. \A p \in KnownTo[firmware] : 0 \in Config!PartsOf(p)
  BY ParamsAre DEF Config!PartsOf, ConfigInv, ConfigTypes
<1>3. CASE Len(todo) = 1
  BY <1>1, <1>3 DEF Config!NextParam, Config!Idle, WritingSane
<1>4. CASE Len(todo) # 1
  <2>1. writing' = [pc |-> "write", todo |-> Tail(todo), n |-> 0, free |-> Config!None, old |-> Config!None]
    BY <1>4 DEF Config!NextParam, Config!Idle
  <2>2. writing'.pc = "write" /\ writing'.todo = Tail(todo) /\ writing'.n = 0
    BY <2>1
  <2> HIDE DEF T, todo
  <2>3. /\ Tail(todo) \in Seq(T) /\ Len(Tail(todo)) = Len(todo) - 1 /\ Tail(todo) # <<>>
        /\ \A i \in 1 .. Len(todo) - 1 : Tail(todo)[i] = todo[i + 1]
        /\ Len(todo) \in Nat /\ Len(todo) > 1 /\ Head(Tail(todo)) \in T
    BY <1>1, <1>4, TailIs
  <2>4. 0 \in Config!PartsOf(Head(Tail(todo))[1])
    BY <1>2, <2>3 DEF T
  <2>5. \A i \in 1 .. Len(Tail(todo)) : Tail(todo)[i][1] = "version" => Tail(todo)[i][2] = firmware
    BY <1>1, <2>3
  <2> QED BY <1>1, <2>1, <2>2, <2>3, <2>4, <2>5 DEF WritingSane, T
<1> QED BY <1>3, <1>4

LEMMA ProgressIsSane ==
    ASSUME ConfigAssumption, ConfigInv, writing.pc \in {"write", "check"},
           \/ writing' = Config!NextBlock(Head(writing.todo)[1])
           \/ writing' = [writing EXCEPT !.pc = "write"],
           firmware' = firmware, power' = power
    PROVE  /\ WritingSane'
           /\ DOMAIN writing' = {"pc", "todo", "n", "free", "old"} /\ writing'.pc \in {"idle", "write"}
<1> DEFINE p == Head(writing.todo)[1]
<1>1. /\ writing.todo \in Seq(KnownTo[firmware] \X Int) /\ writing.todo # <<>>
      /\ power = "on" /\ power' = "on" /\ firmware \in DOMAIN KnownTo
      /\ \A i \in 1 .. Len(writing.todo) : writing.todo[i][1] = "version" => writing.todo[i][2] = firmware
      /\ writing.n \in Config!PartsOf(p)
      /\ DOMAIN writing = {"pc", "todo", "n", "free", "old"}
  BY DEF ConfigInv, ConfigTypes, WritingSane
<1>2. p \in Config!Params /\ Length[p] \in Nat
  <2>1. Head(writing.todo) \in KnownTo[firmware] \X Int
    BY <1>1
  <2> QED BY <1>1, <2>1 DEF ConfigAssumption
<1> HIDE DEF p
<1>3. CASE writing' = [writing EXCEPT !.pc = "write"]
  <2>1. /\ writing'.pc = "write" /\ writing'.todo = writing.todo /\ writing'.n = writing.n
        /\ DOMAIN writing' = DOMAIN writing
    BY <1>1, <1>3
  <2> QED BY <1>1, <2>1 DEF WritingSane, p
<1>4. CASE writing' = Config!NextBlock(p) /\ writing.n < Length[p] - 1
  <2>1. writing' = [writing EXCEPT !.pc = "write", !.n = writing.n + 1]
    BY <1>4 DEF Config!NextBlock
  <2>2. /\ writing'.pc = "write" /\ writing'.todo = writing.todo /\ writing'.n = writing.n + 1
        /\ DOMAIN writing' = DOMAIN writing
    BY <1>1, <2>1
  <2>3. writing.n + 1 \in Config!PartsOf(p)
    BY <1>1, <1>2, <1>4 DEF Config!PartsOf
  <2> QED BY <1>1, <2>2, <2>3 DEF WritingSane, p
<1>5. CASE writing' = Config!NextBlock(p) /\ ~(writing.n < Length[p] - 1)
  <2>1. writing' = Config!NextParam
    BY <1>5 DEF Config!NextBlock
  <2> QED BY <2>1, NextParamIsSane
<1> QED BY <1>3, <1>4, <1>5 DEF p

LEMMA WriteStep ==
    ASSUME ConfigAssumption, ConfigInv, Config!WriteBlock
    PROVE  ConfigInv'
<1> DEFINE p == Head(writing.todo)[1]
           v == Head(writing.todo)[2]
           n == writing.n
           free == Config!FreeBlock(eeprom)
           prior == Config!Seek(p, n, eeprom, index)
           Put(x) == [id |-> p, type |-> Config!TypeOf(p), n |-> n, value |-> x]
<1>1. /\ writing.pc = "write" /\ UNCHANGED <<firmware, power, stale, sets>>
      /\ \/ free = Config!None
         \/ /\ free # Config!None
            /\ writing' = [writing EXCEPT !.pc = "check", !.free = free, !.old = prior]
            /\ index' \in Config!IndexAfterSeek(p, n, eeprom, index)
            /\ \E x \in {v, Config!Junk} : /\ eeprom' = [eeprom EXCEPT ![free] = Put(x)]
                                           /\ allowed' = Config!MayBe(p, n, {x})
  BY DEF Config!WriteBlock
<1>2. /\ power = "on"
      /\ writing.todo \in Seq(KnownTo[firmware] \X Int) /\ writing.todo # <<>>
      /\ \A i \in 1 .. Len(writing.todo) : writing.todo[i][1] = "version" => writing.todo[i][2] = firmware
      /\ n \in Config!PartsOf(p) /\ DOMAIN writing = {"pc", "todo", "n", "free", "old"}
  BY <1>1 DEF ConfigInv, ConfigTypes, WritingSane
<1>3. /\ firmware \in DOMAIN KnownTo /\ firmware \in Nat /\ index \subseteq Config!Params \X Config!Blocks
      /\ "empty" \notin Config!Params /\ KnownTo[firmware] \subseteq Config!Params
      /\ eeprom \in [Config!Blocks -> Block]
      /\ DOMAIN allowed = Config!Params /\ \A q \in Config!Params : DOMAIN allowed[q] = Config!PartsOf(q)
  BY ParamsAre DEF ConfigInv, ConfigTypes
<1>4. p \in KnownTo[firmware] /\ p \in Config!Params /\ v \in Int /\ n \in Nat
      /\ (p = "version" => v = firmware)
  <2>1. Head(writing.todo) = writing.todo[1] /\ 1 \in 1 .. Len(writing.todo)
        /\ Head(writing.todo) \in KnownTo[firmware] \X Int
    BY <1>2
  <2>2. n \in Nat
    BY <1>2 DEF Config!PartsOf
  <2> QED BY <1>2, <1>3, <2>1, <2>2
<1>5. free # Config!None
  BY <1>1, <1>2, ThereIsRoom
<1>6. ASSUME writing' = [writing EXCEPT !.pc = "check", !.free = free, !.old = prior],
             index' \in Config!IndexAfterSeek(p, n, eeprom, index),
             NEW x \in {v, Config!Junk}, eeprom' = [eeprom EXCEPT ![free] = Put(x)],
             allowed' = Config!MayBe(p, n, {x})
      PROVE  ConfigInv'
  <2> HIDE DEF p, v, prior, n
  <2>1. free \in Config!Blocks /\ Config!None \notin Config!Blocks /\ eeprom[free] = Config!Erased
    <3> DEFINE S == {b \in Config!Blocks : eeprom[b] = Config!Erased}
    <3>1. S \in SUBSET Config!Blocks /\ free = Config!First(S)
      BY DEF Config!FreeBlock
    <3>2. (S = {} => Config!First(S) = Config!None) /\ (S # {} => Config!First(S) \in S)
              /\ Config!None \notin Config!Blocks
      <4> HIDE DEF S
      <4> QED BY <3>1, FirstIs
    <3> QED BY <1>5, <3>1, <3>2
  <2> HIDE DEF free
  <2>2. prior \in Config!Blocks \cup {Config!None} /\ Found(prior, p, n)
    BY <1>3, SeekIs DEF prior
  <2>3. /\ writing'.pc = "check" /\ writing'.free = free /\ writing'.old = prior
        /\ writing'.todo = writing.todo /\ writing'.n = n /\ DOMAIN writing' = DOMAIN writing
        /\ Head(writing'.todo)[1] = p /\ p' = p /\ n' = n
    <3>1. /\ writing'.pc = "check" /\ writing'.free = free /\ writing'.old = prior
          /\ writing'.todo = writing.todo /\ writing'.n = n /\ DOMAIN writing' = DOMAIN writing
      BY <1>2, <1>6 DEF n
    <3> QED BY <3>1 DEF p, n
  <2>4. x \in Int /\ Config!TypeOf(p) = TypeIn[firmware][p] /\ Config!TypeOf(p) \in Types
    BY <1>3, <1>4 DEF Config!Junk, Config!TypeOf, Types
  <2>5. Put(x) \in Block
    BY <1>4, <2>4 DEF Block
  <2>6. /\ \A b \in Config!Blocks : b # free => eeprom'[b] = eeprom[b]
        /\ eeprom'[free].id = p /\ eeprom'[free].n = n /\ eeprom'[free].value = x
        /\ eeprom'[free].type = TypeIn[firmware][p]
        /\ eeprom' \in [Config!Blocks -> Block]
    <3>1. eeprom'[free] = Put(x)
      BY <1>3, <1>6, <2>1
    <3> QED BY <1>3, <1>6, <2>1, <2>4, <2>5, <3>1
  <2>7. /\ DOMAIN allowed' = Config!Params /\ \A q \in Config!Params : DOMAIN allowed'[q] = Config!PartsOf(q)
        /\ \A q \in Config!Params : \A m \in Config!PartsOf(q) : allowed[q][m] \subseteq allowed'[q][m]
        /\ x \in allowed'[p][n]
    BY <1>2, <1>3, <1>4, <1>6 DEF Config!MayBe, p, n
  <2>8. IndexInv /\ Faithful /\ BlocksSane /\ ConfigTypes
    BY DEF ConfigInv
  <2>9. /\ index' \subseteq Config!Params \X Config!Blocks
        /\ \A q \in Config!Params : \A b, c \in Config!Blocks :
              <<q, b>> \in index' /\ <<q, c>> \in index' => b = c
        /\ \A q \in Config!Params, b \in Config!Blocks : <<q, b>> \in index' => Leads(q, b)
        /\ n = 0 => \A b \in Config!Blocks : <<p, b>> \in index' => b = prior
    BY <1>4, <1>6, <2>8, IndexStaysRight DEF prior
  <2>10. eeprom[free].id = "empty" /\ p # "empty" /\ n \in Config!PartsOf(p)
    BY <1>2, <1>3, <1>4, <2>1 DEF Config!Erased, p, n
  <2>11. ConfigTypes'
    BY <1>1, <1>2, <2>3, <2>6, <2>7, <2>8, <2>9 DEF ConfigTypes
  <2>12. WritingSane'
    BY <1>1, <1>2, <2>1, <2>2, <2>3, <2>10 DEF WritingSane
  <2>13. BlocksSane'
    <3>1. p = "version" => x <= firmware
      BY <1>3, <1>4 DEF Config!Junk
    <3>2. \A b \in Config!Blocks : b # free =>
            IF eeprom[b].id = "empty" THEN eeprom[b] = Config!Erased
            ELSE /\ eeprom[b].n \in Config!PartsOf(eeprom[b].id)
                 /\ eeprom[b].id = "version" => eeprom[b].value \in Int /\ eeprom[b].value <= firmware
                 /\ eeprom[b].id \in KnownTo[firmware]
                 /\ eeprom[b].type = TypeIn[firmware][eeprom[b].id]
      BY <1>2, <2>8 DEF BlocksSane
    <3> QED BY <1>1, <1>4, <2>4, <2>6, <2>10, <3>1, <3>2 DEF BlocksSane
  <2>14. ASSUME NEW q \in Config!Params, NEW m, Missing(q, m)' PROVE Missing(q, m)
    <3>1. ASSUME NEW b \in Config!Blocks, IsAt(b, q, m) PROVE FALSE
      <4>1. b # free
        BY <1>3, <2>10, <3>1 DEF IsAt
      <4> QED BY <2>6, <2>14, <3>1, <4>1 DEF Missing, IsAt
    <3> QED BY <3>1 DEF Missing
  <2>15. Faithful'
    <3>1. \A b \in Config!Blocks : eeprom'[b].id # "empty"
              => eeprom'[b].value \in allowed'[eeprom'[b].id][eeprom'[b].n]
      <4>1. ASSUME NEW b \in Config!Blocks, b # free, eeprom[b].id # "empty"
            PROVE  eeprom[b].value \in allowed'[eeprom[b].id][eeprom[b].n]
        <5>1. eeprom[b].id \in Config!Params /\ eeprom[b].n \in Config!PartsOf(eeprom[b].id)
          BY <1>2, <1>3, <2>8, <4>1 DEF BlocksSane
        <5>2. eeprom[b].value \in allowed[eeprom[b].id][eeprom[b].n]
          BY <2>8, <4>1 DEF Faithful
        <5> QED BY <2>7, <5>1, <5>2
      <4> QED BY <2>6, <2>7, <4>1
    <3>2. \A q \in KnownTo[firmware] : \A m \in Config!PartsOf(q) : Missing(q, m)'
              => Config!Zeroes \in allowed'[q][m]
      BY <1>2, <1>3, <2>7, <2>8, <2>14 DEF Faithful
    <3> QED BY <1>1, <2>3, <3>1, <3>2 DEF Faithful
  <2>16. IndexInv'
    <3>1. ASSUME NEW q \in Config!Params, NEW b \in Config!Blocks, Leads(q, b) PROVE Leads(q, b)'
      <4>1. CASE IsAt(b, q, 0)
        <5>1. b # free
          BY <1>3, <2>10, <4>1 DEF IsAt
        <5> QED BY <2>6, <4>1, <5>1 DEF Leads, IsAt
      <4>2. CASE ~IsAt(b, q, 0)
        <5>1. stale /\ \A c \in Config!Blocks : ~IsAt(c, q, 0)
          BY <1>1, <3>1, <4>2 DEF Leads
        <5>2. \A c \in Config!Blocks : IsAt(c, q, 0)' => c = free
          BY <2>6, <5>1 DEF IsAt
        <5> QED BY <1>1, <2>3, <5>1, <5>2 DEF Leads
      <4> QED BY <4>1, <4>2
    <3> QED BY <1>1, <1>2, <2>3, <2>9, <3>1 DEF IndexInv
  <2>17. \A b, c \in Config!Blocks : SameOnce(b, c)
    BY <1>1, <1>2 DEF ConfigInv, Once
  <2>18. \A b, c \in Config!Blocks \ {free} : SameOnce(b, c)'
    BY <2>6, <2>17 DEF SameOnce, IsAt
  <2>19. \A c \in Config!Blocks \ {free} : IsAt(c, p, n)' <=> IsAt(c, p, n)
    BY <2>3, <2>6 DEF IsAt
  <2>20. OldIs(p, n)'
    <3>1. CASE \/ prior = Config!None /\ Missing(p, n)
               \/ prior \in Config!Blocks /\ IsAt(prior, p, n)
      <4>1. prior # free
        BY <2>1, <2>10, <3>1 DEF IsAt
      <4>2. \A c \in Config!Blocks : IsAt(c, p, n) <=> c = prior
        <5>1. CASE prior = Config!None /\ Missing(p, n)
          BY <2>1, <5>1 DEF Missing
        <5>2. CASE prior \in Config!Blocks /\ IsAt(prior, p, n)
          BY <2>10, <2>17, <5>2 DEF SameOnce, IsAt
        <5> QED BY <3>1, <5>1, <5>2
      <4> QED BY <2>3, <2>19, <4>1, <4>2 DEF OldIs, IsAt
    <3>2. CASE stale /\ prior \in Config!Blocks /\ Missing(p, n)
      <4>1. \A c \in Config!Blocks \ {free} : ~IsAt(c, p, n)'
        BY <2>19, <3>2 DEF Missing
      <4> QED BY <1>1, <2>1, <2>3, <3>2, <4>1 DEF OldIs, IsAt
    <3>3. CASE n = 0 /\ prior \in Config!Blocks /\ <<p, prior>> \in index
      <4>1. Leads(p, prior)
        BY <1>4, <2>8, <3>3 DEF IndexInv
      <4>2. IsAt(prior, p, n) \/ (stale /\ Missing(p, n))
        BY <1>1, <3>3, <4>1 DEF Leads, Missing
      <4> QED BY <3>1, <3>2, <3>3, <4>2
    <3> QED BY <2>2, <3>1, <3>3 DEF Found
  <2>21. (\A c \in Config!Blocks \ {free} : ~IsAt(c, p, n)') => Config!Zeroes \in allowed'[p][n]
    <3> SUFFICES ASSUME \A c \in Config!Blocks \ {free} : ~IsAt(c, p, n)'
                 PROVE  Config!Zeroes \in allowed'[p][n]
      OBVIOUS
    <3>1. Missing(p, n)
      BY <2>10, <2>19 DEF Missing, IsAt
    <3>2. Config!Zeroes \in allowed[p][n]
      BY <1>2, <1>4, <2>8, <2>10, <3>1 DEF Faithful
    <3> QED BY <1>4, <2>7, <2>10, <3>2
  <2>22. Once'
    BY <2>3, <2>6, <2>18, <2>19, <2>20, <2>21 DEF Once, IsAt, OldIs
  <2> QED BY <2>11, <2>12, <2>13, <2>15, <2>16, <2>22 DEF ConfigInv
<1> HIDE DEF p, n, v, free, prior, Put
<1> QED BY <1>1, <1>5, <1>6

\* The new block is rejected, or the prior one goes, or what an old entry led to.
LEMMA CheckStep ==
    ASSUME ConfigAssumption, ConfigInv, Config!CheckBlock
    PROVE  ConfigInv'
<1> DEFINE p == Head(writing.todo)[1]
           v == Head(writing.todo)[2]
           n == writing.n
           free == writing.free
           prior == writing.old
           bad == Config!Rejects(eeprom[free], v)
           gone == IF bad THEN free ELSE prior
           now == IF bad THEN Config!OldMayBe(p, n) ELSE {v}
           known == [allowed EXCEPT ![p][n] = now]
           Led == /\ ~bad /\ stale /\ gone # Config!None /\ eeprom[gone].id # "empty"
                  /\ gone = free \/ ~IsAt(gone, p, n)
<1>1. /\ writing.pc = "check" /\ UNCHANGED <<firmware, power, stale, sets, failures>>
      /\ eeprom' = IF gone = Config!None THEN eeprom ELSE [eeprom EXCEPT ![gone] = Config!Erased]
      /\ index' = IF gone = Config!None THEN index ELSE Config!IndexWithout(gone)
      /\ writing' = IF bad THEN [writing EXCEPT !.pc = "write"] ELSE Config!NextBlock(p)
      /\ allowed' = IF Led THEN [known EXCEPT ![eeprom[gone].id][eeprom[gone].n] = {Config!Zeroes}] ELSE known
  BY DEF Config!CheckBlock, Config!AfterErasing, IsAt
<1>2. /\ power = "on"
      /\ writing.todo \in Seq(KnownTo[firmware] \X Int) /\ writing.todo # <<>>
      /\ n \in Config!PartsOf(p) /\ free \in Config!Blocks /\ prior \in Config!Blocks \cup {Config!None}
  BY <1>1 DEF ConfigInv, ConfigTypes, WritingSane
<1>3. /\ firmware \in DOMAIN KnownTo /\ index \subseteq Config!Params \X Config!Blocks
      /\ "empty" \notin Config!Params /\ KnownTo[firmware] \subseteq Config!Params
      /\ eeprom \in [Config!Blocks -> Block]
      /\ DOMAIN allowed = Config!Params /\ \A q \in Config!Params : DOMAIN allowed[q] = Config!PartsOf(q)
      /\ Config!None \notin Config!Blocks
  BY ParamsAre DEF ConfigInv, ConfigTypes, Config!None, Config!Blocks
<1>4. p \in KnownTo[firmware] /\ p \in Config!Params /\ p # "empty" /\ v \in Int
  <2>1. Head(writing.todo) \in KnownTo[firmware] \X Int
    BY <1>2
  <2> QED BY <1>3, <2>1
<1>5. /\ WritingSane'
      /\ DOMAIN writing' = {"pc", "todo", "n", "free", "old"} /\ writing'.pc \in {"idle", "write"}
  BY <1>1, ProgressIsSane
<1>6. /\ IndexInv /\ Faithful /\ BlocksSane /\ ConfigTypes
      /\ IsAt(free, p, n)
      /\ \A b, c \in Config!Blocks \ {free} : SameOnce(b, c)
      /\ OldIs(p, n)
      /\ (\A c \in Config!Blocks \ {free} : ~IsAt(c, p, n)) => Config!Zeroes \in allowed[p][n]
  BY <1>1 DEF ConfigInv, Once
<1>7. gone = (IF bad THEN free ELSE prior) /\ gone \in Config!Blocks \cup {Config!None}
  BY <1>2
<1>8. Led <=> /\ ~bad /\ stale /\ gone # Config!None /\ eeprom[gone].id # "empty"
              /\ gone = free \/ ~IsAt(gone, p, n)
  OBVIOUS
<1>9. \/ /\ prior # free
         /\ \A c \in Config!Blocks \ {free} : IsAt(c, p, n) <=> c = prior
      \/ /\ stale /\ prior # Config!None
         /\ \A c \in Config!Blocks \ {free} : ~IsAt(c, p, n)
  BY <1>6 DEF OldIs
<1>10. writing.n = 0 => \A b \in Config!Blocks : <<p, b>> \in index => b = prior
  BY <1>1, <1>6 DEF IndexInv
<1>11. \A b \in Config!Blocks : eeprom[b].id # "empty" =>
          eeprom[b].id \in Config!Params /\ eeprom[b].n \in Config!PartsOf(eeprom[b].id)
          /\ eeprom[b].value \in allowed[eeprom[b].id][eeprom[b].n]
  BY <1>2, <1>3, <1>6 DEF BlocksSane, Faithful
<1>12. /\ now = {v} \/ (bad /\ now = allowed[p][n] \ IF prior # Config!None /\ eeprom[prior].value = Config!Junk
                                             THEN {} ELSE {Config!Junk})
       /\ ~bad => now = {v} /\ eeprom[free].value = v
       /\ bad => now = allowed[p][n] \ IF prior # Config!None /\ eeprom[prior].value = Config!Junk
                                       THEN {} ELSE {Config!Junk}
  BY DEF Config!OldMayBe, Config!Rejects
<1> HIDE DEF p, v, free, prior, bad, gone, now, Led
<1>13. \A b \in Config!Blocks : eeprom'[b] = IF b = gone THEN Config!Erased ELSE eeprom[b]
  BY <1>1, <1>3, <1>7
<1>14. Config!Erased \in Block /\ Config!Erased.id = "empty"
  BY DEF Config!Erased, Config!Zeroes, Block, Types
<1>15. eeprom' \in [Config!Blocks -> Block]
  BY <1>1, <1>3, <1>7, <1>14
<1>16. index' \subseteq index /\ \A entry \in index' : entry[2] # gone
  <2>1. \A entry \in index : entry[2] # Config!None
    BY <1>3
  <2> QED BY <1>1, <2>1 DEF Config!IndexWithout
<1>17. /\ DOMAIN known = Config!Params /\ \A q \in Config!Params : DOMAIN known[q] = Config!PartsOf(q)
       /\ \A q \in Config!Params : \A m \in Config!PartsOf(q) :
             known[q][m] = IF q = p /\ m = n THEN now ELSE allowed[q][m]
  BY <1>2, <1>3, <1>4 DEF p
<1>18. /\ DOMAIN allowed' = Config!Params /\ \A q \in Config!Params : DOMAIN allowed'[q] = Config!PartsOf(q)
       /\ \A q \in Config!Params : \A m \in Config!PartsOf(q) :
             allowed'[q][m] = IF Led /\ q = eeprom[gone].id /\ m = eeprom[gone].n THEN {Config!Zeroes}
                              ELSE IF q = p /\ m = n THEN now ELSE allowed[q][m]
  <2> HIDE DEF known
  <2>1. CASE ~Led
    BY <1>1, <1>17, <2>1
  <2>2. CASE Led
    <3>1. eeprom[gone].id \in Config!Params /\ eeprom[gone].n \in Config!PartsOf(eeprom[gone].id)
      BY <1>7, <1>8, <1>11, <2>2
    <3> QED BY <1>1, <1>17, <2>2, <3>1
  <2> QED BY <2>1, <2>2
<1> HIDE DEF known, n
<1>19. /\ \A b \in Config!Blocks : \A q \in Config!Params : \A m :
             eeprom'[b].id = q /\ eeprom'[b].n = m <=> b # gone /\ IsAt(b, q, m)
       /\ \A b \in Config!Blocks : eeprom'[b].id # "empty" => b # gone /\ eeprom'[b] = eeprom[b]
  BY <1>3, <1>13, <1>14 DEF IsAt
<1>20. ConfigTypes'
  BY <1>1, <1>3, <1>5, <1>6, <1>15, <1>16, <1>18 DEF ConfigTypes
<1>21. BlocksSane'
  BY <1>1, <1>2, <1>6, <1>13, <1>14 DEF BlocksSane
<1>22. IndexInv'
  <2>1. ASSUME NEW q \in Config!Params, NEW b \in Config!Blocks, <<q, b>> \in index' PROVE Leads(q, b)'
    <3>1. b # gone /\ <<q, b>> \in index /\ Leads(q, b)
      BY <1>6, <1>16, <2>1 DEF IndexInv
    <3>2. CASE IsAt(b, q, 0)
      BY <1>13, <3>1, <3>2 DEF Leads, IsAt
    <3>3. CASE ~IsAt(b, q, 0)
      <4>1. stale /\ \A c \in Config!Blocks : IsAt(c, q, 0) => c = free
        BY <3>1, <3>3 DEF Leads, free
      <4>2. ASSUME NEW c \in Config!Blocks, eeprom'[c].id = q, eeprom'[c].n = 0 PROVE FALSE
        <5>1. c # gone /\ IsAt(c, q, 0)
          BY <1>19, <4>2
        <5>2. c = free /\ ~bad /\ gone = prior
          BY <1>7, <4>1, <5>1
        <5>3. q = p /\ n = 0
          BY <1>6, <5>1, <5>2 DEF IsAt
        <5> QED BY <1>10, <3>1, <5>2, <5>3 DEF n
      <4> QED BY <1>1, <4>1, <4>2 DEF Leads, IsAt
    <3> QED BY <3>2, <3>3
  <2> QED BY <1>1, <1>2, <1>5, <1>6, <1>16, <2>1 DEF IndexInv
<1>23. Once'
  <2>1. ASSUME NEW b \in Config!Blocks, NEW c \in Config!Blocks, eeprom'[b].id # "empty",
               eeprom'[c].id = eeprom'[b].id, eeprom'[c].n = eeprom'[b].n, b # c
        PROVE  FALSE
    <3>1. /\ b # gone /\ c # gone /\ eeprom[b].id # "empty"
          /\ eeprom[c].id = eeprom[b].id /\ eeprom[c].n = eeprom[b].n
      BY <1>19, <2>1
    <3>2. CASE b # free /\ c # free
      BY <1>6, <2>1, <3>1, <3>2 DEF SameOnce, IsAt
    <3>3. CASE b = free \/ c = free
      <4>1. gone = prior
        BY <1>7, <3>1, <3>3
      <4> QED BY <1>6, <1>9, <2>1, <3>1, <3>3, <4>1 DEF IsAt
    <3> QED BY <3>2, <3>3
  <2>2. \A b, c \in Config!Blocks : SameOnce(b, c)'
    BY <2>1 DEF SameOnce, IsAt
  <2> QED BY <1>5, <2>2 DEF Once
<1>24. ASSUME NEW b \in Config!Blocks, eeprom'[b].id # "empty"
       PROVE  eeprom'[b].value \in allowed'[eeprom'[b].id][eeprom'[b].n]
  <2> DEFINE q == eeprom[b].id
             m == eeprom[b].n
  <2>1. b # gone /\ eeprom'[b] = eeprom[b] /\ q # "empty"
    BY <1>19, <1>24
  <2>2. q \in Config!Params /\ m \in Config!PartsOf(q) /\ eeprom[b].value \in allowed[q][m]
    BY <1>11, <2>1
  <2>3. IsAt(b, q, m) /\ (IsAt(b, p, n) <=> q = p /\ m = n)
    BY DEF IsAt
  <2>4. ~(Led /\ q = eeprom[gone].id /\ m = eeprom[gone].n)
    <3> SUFFICES ASSUME Led, q = eeprom[gone].id, m = eeprom[gone].n PROVE FALSE
      OBVIOUS
    <3>1. gone = prior /\ gone \in Config!Blocks
      BY <1>7, <1>8
    <3>2. CASE gone = free
      <4>1. b # free /\ IsAt(b, p, n)
        BY <1>6, <2>1, <3>2 DEF IsAt
      <4> QED BY <1>9, <2>1, <3>1, <3>2, <4>1
    <3>3. CASE gone # free
      <4>1. ~IsAt(gone, p, n)
        BY <1>8, <3>3
      <4>2. b # free
        BY <1>6, <4>1 DEF IsAt
      <4> QED BY <1>6, <2>1, <3>1, <3>3, <4>2 DEF SameOnce, IsAt
    <3> QED BY <3>2, <3>3
  <2> HIDE DEF q, m
  <2>5. allowed'[q][m] = IF q = p /\ m = n THEN now ELSE allowed[q][m]
    BY <1>18, <2>2, <2>4
  <2>6. CASE q = p /\ m = n /\ bad
    <3>1. b = prior /\ prior # Config!None
      BY <1>3, <1>7, <1>9, <2>1, <2>3, <2>6
    <3> QED BY <1>12, <2>1, <2>2, <2>5, <2>6, <3>1 DEF q, m
  <2>7. CASE q = p /\ m = n /\ ~bad
    <3>1. b = free
      BY <1>7, <1>9, <2>1, <2>3, <2>7
    <3> QED BY <1>12, <2>1, <2>5, <2>7, <3>1 DEF q, m
  <2>8. CASE ~(q = p /\ m = n)
    BY <2>1, <2>2, <2>5, <2>8 DEF q, m
  <2> QED BY <2>6, <2>7, <2>8
<1>25. ASSUME NEW q \in KnownTo[firmware], NEW m \in Config!PartsOf(q), Missing(q, m)'
       PROVE  Config!Zeroes \in allowed'[q][m]
  <2>1. q \in Config!Params /\ \A b \in Config!Blocks : IsAt(b, q, m) => b = gone
    BY <1>3, <1>19, <1>25 DEF Missing, IsAt
  <2>2. CASE Led /\ q = eeprom[gone].id /\ m = eeprom[gone].n
    BY <1>18, <2>1, <2>2
  <2>3. CASE ~(Led /\ q = eeprom[gone].id /\ m = eeprom[gone].n) /\ q = p /\ m = n
    <3>1. gone = free
      BY <1>2, <1>6, <2>1, <2>3 DEF free
    <3>2. free \in Config!Blocks /\ eeprom[free].id = p /\ eeprom[free].n = n
      BY <1>2, <1>6 DEF IsAt, free
    <3>3. bad
      <4>1. ASSUME ~bad PROVE FALSE
        <5>1. prior = free /\ stale
          BY <1>7, <1>9, <3>1, <4>1
        <5> QED BY <1>3, <1>4, <1>8, <2>3, <3>1, <3>2, <4>1, <5>1
      <4> QED BY <4>1
    <3>4. Config!Zeroes \in allowed[p][n]
      BY <1>6, <2>1, <2>3, <3>1
    <3>5. Config!Zeroes # Config!Junk
      BY DEF Config!Zeroes, Config!Junk
    <3>6. Config!Zeroes \in now
      BY <1>12, <3>3, <3>4, <3>5
    <3> QED BY <1>18, <2>1, <2>3, <3>6
  <2>4. CASE ~(Led /\ q = eeprom[gone].id /\ m = eeprom[gone].n) /\ ~(q = p /\ m = n)
    <3>1. Missing(q, m)
      <4>1. ASSUME NEW b \in Config!Blocks, IsAt(b, q, m) PROVE FALSE
        <5>1. b = gone /\ q = eeprom[gone].id /\ m = eeprom[gone].n
          BY <2>1, <4>1 DEF IsAt
        <5>2. gone # free /\ ~IsAt(gone, p, n)
          BY <1>6, <2>4, <5>1 DEF IsAt
        <5>3. ~bad /\ gone = prior
          BY <1>7, <5>2
        <5>4. stale
          BY <1>9, <4>1, <5>1, <5>2, <5>3
        <5> QED BY <1>3, <1>8, <2>1, <2>4, <4>1, <5>1, <5>2, <5>3, <5>4
      <4> QED BY <4>1 DEF Missing
    <3>2. Config!Zeroes \in allowed[q][m]
      BY <1>2, <1>6, <3>1 DEF Faithful
    <3> QED BY <1>18, <2>1, <2>4, <3>2
  <2> QED BY <2>2, <2>3, <2>4
<1>26. Faithful'
  BY <1>1, <1>5, <1>24, <1>25 DEF Faithful
<1> QED BY <1>5, <1>20, <1>21, <1>22, <1>23, <1>26 DEF ConfigInv

LEMMA ConfigStep ==
    ASSUME ConfigAssumption, ConfigInv, [Config!Next]_configVars
    PROVE  ConfigInv'
<1>1. CASE UNCHANGED configVars
  <2>1. /\ eeprom' = eeprom /\ index' = index /\ writing' = writing /\ firmware' = firmware
        /\ power' = power /\ allowed' = allowed /\ stale' = stale
    BY <1>1 DEF configVars
  <2> QED BY <2>1 DEF ConfigInv, ConfigTypes, WritingSane, BlocksSane, Faithful, IndexInv, Leads,
                      Once, OldIs, Missing, Current, SameOnce, IsAt
<1>2. ASSUME NEW p \in KnownTo[firmware], Config!Get(p) \/ \E v \in Values : Config!Set(p, v) PROVE ConfigInv'
  BY <1>2, GetStep, SetStep
<1> QED
  BY <1>1, <1>2, StartStep, EraseStep, WriteStep, CheckStep, ResetStep, PowerFailureStep, UpgradeStep
     DEF Config!Next

\* What the invariant gives.
LEMMA SettingsAreSound == ConfigAssumption /\ ConfigInv => Config!StorageSound
<1> SUFFICES ASSUME ConfigAssumption, ConfigInv PROVE Config!StorageSound
  OBVIOUS
<1>1. Config!TypeOK
  BY DEF ConfigInv, ConfigTypes, Config!TypeOK, Block
<1>2. Config!SettingsSurvive
  <2> SUFFICES ASSUME power = "on", writing.pc = "idle",
                      NEW p \in KnownTo[firmware], NEW n \in Config!PartsOf(p), ~(n = 0 /\ Config!Misled(p))
               PROVE  Config!Stored(p, n) \in allowed[p][n]
    BY DEF Config!SettingsSurvive, Config!PartsOf
  <2> DEFINE b == Config!Seek(p, n, eeprom, index)
  <2>1. /\ Faithful /\ IndexInv /\ index \subseteq Config!Params \X Config!Blocks
        /\ p \in Config!Params /\ p # "empty" /\ Config!None \notin Config!Blocks
    BY ParamsAre DEF ConfigInv, ConfigTypes, Config!None, Config!Blocks
  <2>2. b \in Config!Blocks \cup {Config!None} /\ Found(b, p, n)
    BY <2>1, SeekIs
  <2>3. Config!Stored(p, n) = IF b = Config!None THEN Config!Zeroes ELSE eeprom[b].value
    BY DEF Config!Stored
  <2> HIDE DEF b
  <2>4. (b = Config!None => Missing(p, n)) /\ (b # Config!None => IsAt(b, p, n))
    <3>1. CASE n = 0 /\ b \in Config!Blocks /\ <<p, b>> \in index
      <4>1. Leads(p, b) /\ b \in Config!InIndex(p, index)
        BY <2>1, <3>1 DEF IndexInv, Config!InIndex
      <4>2. IsAt(b, p, 0) \/ stale
        BY <4>1 DEF Leads
      <4> QED BY <2>1, <3>1, <4>1, <4>2 DEF Config!Misled, IsAt
    <3>2. CASE (b = Config!None <=> Missing(p, n)) /\ (b # Config!None => IsAt(b, p, n))
      BY <3>2
    <3> QED BY <2>2, <3>1, <3>2 DEF Found
  <2>5. CASE b = Config!None
    BY <2>1, <2>3, <2>4, <2>5 DEF Faithful
  <2>6. CASE b # Config!None
    BY <2>1, <2>2, <2>3, <2>4, <2>6 DEF Faithful, IsAt
  <2> QED BY <2>5, <2>6
<1>3. Config!RoomToWrite
  <2> SUFFICES ASSUME writing.pc = "write" PROVE Config!FreeBlock(eeprom) # Config!None
    BY DEF Config!RoomToWrite
  <2>1. power = "on"
    BY DEF ConfigInv, ConfigTypes, WritingSane
  <2> QED BY <2>1, ThereIsRoom
<1> QED BY <1>1, <1>2, <1>3 DEF Config!StorageSound

-----------------------------------------------------------------------------
(* The key value system *)

LEMMA SameSize == ASSUME NEW S PROVE KeyValue!Cardinality(S) = Cardinality(S)
BY DEF KeyValue!Cardinality, Cardinality

\* A search reads headers only; k has one record at most; no cell but a header says k.
HeadersOnly(s) == \A p \in KeyValue!Slots(s) : s[p + 1] \in KeyValue!Keys
Alone(k, s) == \A p, q \in KeyValue!RecordsOf(k, s) : p = q
InPlace(k, s) == \A i \in 1 .. Len(s) : s[i] = k => (i - 1) % KeyValue!RecordLength = 0
\* The first n of the cells are no headers of parameters that are not hurt.
Clean(cells, n, hurtOnes) == \A i \in 1 .. n : cells[i] \notin KeyValue!Keys \ hurtOnes

KeyValueTypes ==
    /\ kvData \in Seq(KeyValue!Cells)
    /\ DOMAIN memory = KeyValue!Keys
    /\ \A k \in KeyValue!Keys : memory[k] \in [1 .. Width[k] -> KeyValue!Cells]
    /\ kvMode \in {"off", "normal", "safe"}
    /\ hurt \subseteq KeyValue!Keys /\ DOMAIN saved = KeyValue!Keys /\ outages \in Nat

QueueInv ==
    /\ notifications \in Seq(Nat) /\ Len(notifications) <= QueueLength
    /\ told \in Nat /\ noted \in Nat /\ told <= noted
    /\ \A i \in 1 .. Len(notifications) : told < notifications[i] /\ notifications[i] <= noted
    /\ \A i, j \in 1 .. Len(notifications) : i < j => notifications[i] < notifications[j]

\* The file, for any content, history and count of failures.
FileInv(s, S, H, n) ==
    /\ s \in Seq(KeyValue!Cells) /\ H \subseteq KeyValue!Keys /\ DOMAIN S = KeyValue!Keys
    /\ \A k \in KeyValue!Keys \ H : Alone(k, s) /\ InPlace(k, s) /\ KeyValue!Restored(s)[k] \in S[k]
    /\ H = {} => HeadersOnly(s)
    /\ n = 0 => H = {} /\ Len(s) % KeyValue!RecordLength = 0

MemoryInv == kvMode # "off" => \A k \in KeyValue!Keys : Clean(memory[k], Width[k], hurt)

KeyValueInv ==
    /\ KeyValueTypes /\ QueueInv /\ MemoryInv
    /\ FileInv(kvData, saved, hurt, outages)

-----------------------------------------------------------------------------
(* Sequences of cells *)

R == KeyValue!RecordLength

LEMMA Apart ==
    ASSUME NEW t \in Int, t > 0, NEW a \in Int, a % t = 0, NEW b \in Int, b % t = 0, a < b
    PROVE  a + t <= b
<1>1. a \div t \in Int /\ b \div t \in Int /\ a = t * (a \div t) + (a % t) /\ b = t * (b \div t) + (b % t)
  BY Division
<1> DEFINE c == a \div t
           d == b \div t
<1>2. c \in Int /\ d \in Int /\ a = t * c + 0 /\ b = t * d + 0
  BY <1>1
<1> HIDE DEF c, d
<1>3. t * c \in Int /\ t * d \in Int
  BY <1>2
<1>4. a = t * c /\ b = t * d
  BY <1>2, <1>3
<1>5. c < d
  <2>1. ~(d < c)
    BY <1>2, <1>3, <1>4, Multiples
  <2>2. c # d
    BY <1>4
  <2> QED BY <1>2, <2>1, <2>2
<1>6. t * c + t <= t * d
  BY <1>2, <1>5, Multiples
<1> QED BY <1>4, <1>6

LEMMA Lengths ==
    ASSUME KeyValueAssumption
    PROVE  /\ R \in Int /\ R > 0 /\ R = DataLength + 1 /\ DataLength \in Nat /\ DataLength > 0
           /\ PageLength \in Int /\ PageLength > 0
           /\ \A k \in KeyValue!Keys : Width[k] \in Int /\ Width[k] > 0 /\ Width[k] <= DataLength
BY DEF KeyValueAssumption, R, KeyValue!RecordLength

\* The cells c lie over s from a place on.
Laid(y, s, pos, c) ==
    /\ y \in Seq(KeyValue!Cells) /\ Len(y) = IF pos + Len(c) > Len(s) THEN pos + Len(c) ELSE Len(s)
    /\ \A i \in 1 .. Len(y) : y[i] = IF i \in pos + 1 .. pos + Len(c) THEN c[i - pos] ELSE s[i]

LEMMA OverlayIs ==
    ASSUME NEW s \in Seq(KeyValue!Cells), NEW c \in Seq(KeyValue!Cells), NEW pos \in 0 .. Len(s)
    PROVE  Laid(KeyValue!Overlay(s, pos, c), s, pos, c)
<1> DEFINE n == IF pos + Len(c) > Len(s) THEN pos + Len(c) ELSE Len(s)
           x == [i \in 1 .. n |-> IF i \in pos + 1 .. pos + Len(c) THEN c[i - pos] ELSE s[i]]
<1>1. KeyValue!Overlay(s, pos, c) = x
  BY DEF KeyValue!Overlay
<1>2. n \in Nat /\ Len(s) \in Nat /\ Len(c) \in Nat /\ pos \in Nat
  BY LenProperties
<1>3. ASSUME NEW i \in 1 .. n PROVE x[i] \in KeyValue!Cells
  <2>1. CASE i \in pos + 1 .. pos + Len(c)
    <3>1. i - pos \in 1 .. Len(c)
      BY <1>2, <2>1
    <3> QED BY <2>1, <3>1, ElementOfSeq
  <2>2. CASE ~(i \in pos + 1 .. pos + Len(c))
    <3>1. i \in 1 .. Len(s)
      BY <1>2, <2>2
    <3> QED BY <2>2, <3>1, ElementOfSeq
  <2> QED BY <2>1, <2>2
<1>4. x \in [1 .. n -> KeyValue!Cells]
  BY <1>3
<1>5. x \in Seq(KeyValue!Cells) /\ Len(x) = n
  <2> HIDE DEF x, n
  <2> QED BY <1>2, <1>4
<1>6. Laid(x, s, pos, c)
  <2> DEFINE y == x
  <2>1. /\ y \in Seq(KeyValue!Cells) /\ Len(y) = IF pos + Len(c) > Len(s) THEN pos + Len(c) ELSE Len(s)
        /\ \A i \in 1 .. Len(y) :
              y[i] = IF i \in pos + 1 .. pos + Len(c) THEN c[i - pos] ELSE s[i]
    BY <1>5
  <2> HIDE DEF y
  <2>2. Laid(y, s, pos, c)
    BY <2>1 DEF Laid
  <2> QED BY <2>2 DEF y
<1> QED BY <1>1, <1>6

LEMMA PaddedIs ==
    ASSUME KeyValueAssumption, NEW data \in Seq(KeyValue!Cells), Len(data) <= DataLength
    PROVE  /\ KeyValue!Padded(data) \in Seq(KeyValue!Cells) /\ Len(KeyValue!Padded(data)) = DataLength
           /\ \A i \in 1 .. DataLength :
                 KeyValue!Padded(data)[i] = IF i <= Len(data) THEN data[i] ELSE KeyValue!Zero
<1> DEFINE n == DataLength - Len(data)
<1>1. n \in Nat /\ Len(data) \in Nat /\ DataLength \in Nat
  BY Lengths, LenProperties
<1>2. /\ KeyValue!Zeroes(n) \in Seq(KeyValue!Cells) /\ Len(KeyValue!Zeroes(n)) = n
      /\ \A i \in 1 .. n : KeyValue!Zeroes(n)[i] = KeyValue!Zero
  <2> HIDE DEF n
  <2> QED BY <1>1 DEF KeyValue!Zeroes, KeyValue!Cells
<1>3. KeyValue!Padded(data) = data \o KeyValue!Zeroes(n)
  BY DEF KeyValue!Padded
<1> DEFINE z == KeyValue!Zeroes(n)
<1>4. /\ data \o z \in Seq(KeyValue!Cells) /\ Len(data \o z) = Len(data) + n
      /\ \A i \in 1 .. Len(data) + n :
            (data \o z)[i] = IF i <= Len(data) THEN data[i] ELSE z[i - Len(data)]
  <2>1. z \in Seq(KeyValue!Cells) /\ Len(z) = n
    BY <1>2
  <2> HIDE DEF n, z
  <2> QED BY <2>1, ConcatProperties
<1>5. \A i \in 1 .. n : z[i] = KeyValue!Zero
  BY <1>2
<1>6. data \o z = KeyValue!Padded(data)
  BY <1>3
<1>7. Len(data) + n = DataLength
  BY <1>1
<1>8. ASSUME NEW i \in 1 .. DataLength
      PROVE  (data \o z)[i] = IF i <= Len(data) THEN data[i] ELSE KeyValue!Zero
  <2> HIDE DEF z
  <2>1. CASE i <= Len(data)
    BY <1>4, <1>7, <2>1
  <2>2. CASE ~(i <= Len(data))
    <3>1. i - Len(data) \in 1 .. n
      BY <1>1, <2>2
    <3> QED BY <1>4, <1>5, <1>7, <2>2, <3>1
  <2> QED BY <2>1, <2>2
<1> HIDE DEF n, z
<1> QED BY <1>4, <1>6, <1>7, <1>8

\* A record is found where a search looks, or it is to be added at the end.
LEMMA PlaceIs ==
    ASSUME KeyValueAssumption, NEW s \in Seq(KeyValue!Cells), NEW k
    PROVE  /\ KeyValue!PlaceOf(k, s) \in Nat /\ KeyValue!PlaceOf(k, s) <= Len(s)
           /\ KeyValue!RecordsOf(k, s) = {} => KeyValue!PlaceOf(k, s) = Len(s)
           /\ KeyValue!RecordsOf(k, s) # {} => KeyValue!PlaceOf(k, s) \in KeyValue!RecordsOf(k, s)
           /\ KeyValue!RecordsOf(k, s) \subseteq KeyValue!Slots(s)
                  /\ KeyValue!Slots(s) \subseteq 0 .. Len(s) - 1
           /\ Len(s) \in Nat
<1>1. Len(s) \in Nat
  BY LenProperties
<1>2. KeyValue!RecordsOf(k, s) \subseteq KeyValue!Slots(s) /\ KeyValue!Slots(s) \subseteq 0 .. Len(s) - 1
  BY DEF KeyValue!RecordsOf, KeyValue!Slots
<1>3. CASE KeyValue!RecordsOf(k, s) = {}
  BY <1>1, <1>2, <1>3 DEF KeyValue!PlaceOf
<1>4. CASE KeyValue!RecordsOf(k, s) # {}
  <2>1. KeyValue!RecordsOf(k, s) \in SUBSET Nat
    BY <1>1, <1>2
  <2>2. \E p \in KeyValue!RecordsOf(k, s) : \A q \in KeyValue!RecordsOf(k, s) : p <= q
    BY <1>4, <2>1, LeastMember
  <2>3. KeyValue!PlaceOf(k, s) \in KeyValue!RecordsOf(k, s)
    BY <1>4, <2>2 DEF KeyValue!PlaceOf
  <2> QED BY <1>1, <1>2, <1>4, <2>3
<1> QED BY <1>3, <1>4

-----------------------------------------------------------------------------
(* What is in the file while a record is written *)

\* The first m cells of a record lie at their place.
IsPart(x, s, p, r, m) ==
    /\ x \in Seq(KeyValue!Cells) /\ Len(x) = IF p + m > Len(s) THEN p + m ELSE Len(s)
    /\ \A i \in 1 .. Len(x) : x[i] = IF i \in p + 1 .. p + m THEN r[i - p] ELSE s[i]

RecordOf(k, data) == <<k>> \o KeyValue!Padded(data)

LEMMA RecordOfIs ==
    ASSUME KeyValueAssumption, NEW k \in KeyValue!Keys,
           NEW data \in Seq(KeyValue!Cells), Len(data) <= DataLength
    PROVE  /\ RecordOf(k, data) \in Seq(KeyValue!Cells) /\ Len(RecordOf(k, data)) = R
           /\ RecordOf(k, data)[1] = k
           /\ \A i \in 1 .. DataLength : RecordOf(k, data)[i + 1] = KeyValue!Padded(data)[i]
<1> DEFINE d == KeyValue!Padded(data)
           h == <<k>>
<1>1. d \in Seq(KeyValue!Cells) /\ Len(d) = DataLength /\ DataLength \in Nat /\ R = DataLength + 1
  BY PaddedIs, Lengths
<1>2. h \in Seq(KeyValue!Cells) /\ Len(h) = 1 /\ h[1] = k
  BY DEF KeyValue!Cells
<1> HIDE DEF d, h
<1>3. /\ h \o d \in Seq(KeyValue!Cells) /\ Len(h \o d) = 1 + DataLength
      /\ \A i \in 1 .. 1 + DataLength : (h \o d)[i] = IF i <= 1 THEN h[i] ELSE d[i - 1]
  <2>1. /\ h \o d \in Seq(KeyValue!Cells) /\ Len(h \o d) = Len(h) + Len(d)
        /\ \A i \in 1 .. Len(h) + Len(d) : (h \o d)[i] = IF i <= Len(h) THEN h[i] ELSE d[i - Len(h)]
    BY <1>1, <1>2, ConcatProperties
  <2> QED BY <1>1, <1>2, <2>1
<1>4. RecordOf(k, data) = h \o d
  BY DEF RecordOf, h, d
<1>5. (h \o d)[1] = k
  BY <1>1, <1>2, <1>3
<1>6. ASSUME NEW i \in 1 .. DataLength PROVE (h \o d)[i + 1] = d[i]
  <2>1. i + 1 \in 1 .. 1 + DataLength /\ ~(i + 1 <= 1) /\ (i + 1) - 1 = i
    BY <1>1
  <2> QED BY <1>3, <2>1
<1> QED BY <1>1, <1>3, <1>4, <1>5, <1>6 DEF d

\* The header is a part of the record, and the header and the first cells of the value are.
LEMMA HeaderIsPart ==
    ASSUME KeyValueAssumption, NEW k \in KeyValue!Keys,
           NEW data \in Seq(KeyValue!Cells), Len(data) <= DataLength,
           NEW s \in Seq(KeyValue!Cells), NEW p \in 0 .. Len(s)
    PROVE  IsPart(KeyValue!Overlay(s, p, <<k>>), s, p, RecordOf(k, data), 1)
<1> DEFINE h == <<k>>
           x == KeyValue!Overlay(s, p, h)
           r == RecordOf(k, data)
<1>1. h \in Seq(KeyValue!Cells) /\ Len(h) = 1 /\ h[1] = k
  BY DEF KeyValue!Cells
<1>2. r[1] = k /\ Len(s) \in Nat
  BY RecordOfIs, LenProperties
<1> HIDE DEF h, r
<1>3. /\ x \in Seq(KeyValue!Cells) /\ Len(x) = IF p + 1 > Len(s) THEN p + 1 ELSE Len(s)
      /\ \A i \in 1 .. Len(x) : x[i] = IF i \in p + 1 .. p + 1 THEN h[i - p] ELSE s[i]
  <2>1. Laid(x, s, p, h)
    BY <1>1, OverlayIs
  <2> HIDE DEF x
  <2> QED BY <1>1, <2>1 DEF Laid
<1> HIDE DEF x
<1>4. \A i \in p + 1 .. p + 1 : h[i - p] = r[i - p]
  BY <1>1, <1>2
<1>5. IsPart(x, s, p, r, 1)
  BY <1>3, <1>4 DEF IsPart
<1> QED BY <1>5 DEF x, h, r

LEMMA ValueIsPart ==
    ASSUME KeyValueAssumption, NEW k \in KeyValue!Keys,
           NEW data \in Seq(KeyValue!Cells), Len(data) <= DataLength,
           NEW s \in Seq(KeyValue!Cells), NEW p \in 0 .. Len(s), NEW n \in 0 .. DataLength,
           NEW x, x = KeyValue!Overlay(KeyValue!Overlay(s, p, <<k>>), p + 1,
               SubSeq(KeyValue!Padded(data), 1, n))
    PROVE  IsPart(x, s, p, RecordOf(k, data), n + 1)
<1> DEFINE y == KeyValue!Overlay(s, p, <<k>>)
           r == RecordOf(k, data)
           d == KeyValue!Padded(data)
           c == SubSeq(d, 1, n)
<1>1. IsPart(y, s, p, r, 1)
  BY HeaderIsPart
<1>2. d \in Seq(KeyValue!Cells) /\ Len(d) = DataLength /\ DataLength \in Nat
  BY PaddedIs, Lengths
<1>3. \A i \in 1 .. DataLength : r[i + 1] = d[i]
  BY RecordOfIs
<1> HIDE DEF y, r, d
<1>4. /\ c \in Seq(KeyValue!Cells) /\ Len(c) = n /\ \A i \in 1 .. n : c[i] = d[i]
  <2>1. 1 \in 1 .. Len(d) + 1 /\ n \in 1 - 1 .. Len(d)
    BY <1>2
  <2>2. /\ SubSeq(d, 1, n) \in Seq(KeyValue!Cells) /\ Len(SubSeq(d, 1, n)) = n - 1 + 1
        /\ \A i \in 1 .. n - 1 + 1 : SubSeq(d, 1, n)[i] = d[1 + i - 1]
    BY <1>2, <2>1, SubSeqProperties
  <2> QED BY <1>2, <2>2
<1> HIDE DEF c
<1>5. Len(s) \in Nat /\ p \in Nat
  BY LenProperties
<1>6. /\ y \in Seq(KeyValue!Cells) /\ Len(y) = IF p + 1 > Len(s) THEN p + 1 ELSE Len(s)
      /\ \A i \in 1 .. Len(y) : y[i] = IF i \in p + 1 .. p + 1 THEN r[i - p] ELSE s[i]
  BY <1>1 DEF IsPart
<1>7. p + 1 \in 0 .. Len(y)
  BY <1>5, <1>6
<1>8. x = KeyValue!Overlay(y, p + 1, c)
  BY DEF y, c, d
<1>9. /\ x \in Seq(KeyValue!Cells) /\ Len(x) = IF (p + 1) + n > Len(y) THEN (p + 1) + n ELSE Len(y)
      /\ \A i \in 1 .. Len(x) :
            x[i] = IF i \in (p + 1) + 1 .. (p + 1) + n THEN c[i - (p + 1)] ELSE y[i]
  <2>1. Laid(KeyValue!Overlay(y, p + 1, c), y, p + 1, c)
    BY <1>4, <1>6, <1>7, OverlayIs
  <2>2. Laid(x, y, p + 1, c)
    BY <1>8, <2>1
  <2> QED BY <1>4, <2>2 DEF Laid
<1>10. Len(x) = IF p + (n + 1) > Len(s) THEN p + (n + 1) ELSE Len(s)
  BY <1>5, <1>6, <1>9
<1>11. ASSUME NEW i \in 1 .. Len(x)
       PROVE  x[i] = IF i \in p + 1 .. p + (n + 1) THEN r[i - p] ELSE s[i]
  <2>1. CASE i \in (p + 1) + 1 .. (p + 1) + n
    <3>1. i - (p + 1) \in 1 .. n /\ i - (p + 1) \in 1 .. DataLength /\ i - p = (i - (p + 1)) + 1
      BY <1>2, <1>5, <2>1
    <3>2. c[i - (p + 1)] = r[i - p]
      BY <1>3, <1>4, <3>1
    <3>3. x[i] = c[i - (p + 1)]
      BY <1>9, <2>1
    <3>4. i \in p + 1 .. p + (n + 1)
      BY <1>5, <2>1
    <3> QED BY <3>2, <3>3, <3>4
  <2>2. CASE i \in p + 1 .. p + 1
    <3>1. i \in 1 .. Len(y)
      BY <1>5, <1>6, <2>2
    <3> QED BY <1>5, <1>6, <1>9, <2>2, <3>1
  <2>3. CASE ~(i \in p + 1 .. p + (n + 1))
    <3>1. i \in 1 .. Len(y) /\ ~(i \in p + 1 .. p + 1) /\ ~(i \in (p + 1) + 1 .. (p + 1) + n)
      BY <1>5, <1>6, <1>10, <2>3
    <3> QED BY <1>6, <1>9, <2>3, <3>1
  <2> QED BY <1>5, <2>1, <2>2, <2>3
<1>12. IsPart(x, s, p, r, n + 1)
  BY <1>9, <1>10, <1>11 DEF IsPart
<1> QED BY <1>12 DEF r

LEMMA NothingIsPart ==
    ASSUME NEW s \in Seq(KeyValue!Cells), NEW p \in 0 .. Len(s), NEW r
    PROVE  IsPart(s, s, p, r, 0) /\ KeyValue!Overlay(s, p, <<>>) = s
<1>1. Len(s) \in Nat /\ p \in Nat
  BY LenProperties
<1>2. IsPart(s, s, p, r, 0)
  BY <1>1 DEF IsPart
<1>3. /\ KeyValue!Overlay(s, p, <<>>) \in Seq(KeyValue!Cells) /\ Len(KeyValue!Overlay(s, p, <<>>)) = Len(s)
      /\ \A i \in 1 .. Len(s) : KeyValue!Overlay(s, p, <<>>)[i] = s[i]
  <2>1. <<>> \in Seq(KeyValue!Cells) /\ Len(<<>>) = 0
    BY EmptySeq
  <2> DEFINE e == <<>>
  <2> HIDE DEF e
  <2> DEFINE y == KeyValue!Overlay(s, p, e)
  <2>2. e \in Seq(KeyValue!Cells) /\ 0 = Len(e)
    BY <2>1 DEF e
  <2>3. Laid(y, s, p, e)
    BY <2>2, OverlayIs
  <2> HIDE DEF y
  <2>4. /\ y \in Seq(KeyValue!Cells) /\ Len(y) = IF p + 0 > Len(s) THEN p + 0 ELSE Len(s)
        /\ \A i \in 1 .. Len(y) : y[i] = IF i \in p + 1 .. p + 0 THEN e[i - p] ELSE s[i]
    BY <2>2, <2>3 DEF Laid
  <2>5. Len(y) = Len(s)
    BY <1>1, <2>4
  <2>6. \A i \in 1 .. Len(s) : y[i] = s[i]
    BY <1>1, <2>4, <2>5
  <2> QED BY <2>4, <2>5, <2>6 DEF e, y
<1>4. KeyValue!Overlay(s, p, <<>>) = s
  BY <1>3, SeqEqual
<1> QED BY <1>2, <1>4

-----------------------------------------------------------------------------
(* One more record, or one written again *)

\* The part of a record that is in the file touches none of the others.
LEMMA PartTouchesOneRecord ==
    ASSUME KeyValueAssumption, NEW s \in Seq(KeyValue!Cells), NEW p \in 0 .. Len(s), p % R = 0,
           NEW r, NEW m \in 1 .. R, NEW x, IsPart(x, s, p, r, m)
    PROVE  /\ KeyValue!Slots(x) = KeyValue!Slots(s) \cup {p} /\ x[p + 1] = r[1]
           /\ Len(x) = (IF p + m > Len(s) THEN p + m ELSE Len(s)) /\ Len(x) \in Nat
           /\ \A q \in KeyValue!Slots(s) \ {p} :
                /\ q + R <= Len(x) <=> q + R <= Len(s)
                /\ \A i \in q + 1 .. q + R : i \in 1 .. Len(x) => x[i] = s[i]
<1>1. R \in Int /\ R > 0 /\ Len(s) \in Nat /\ p \in Int /\ m \in Int /\ p >= 0 /\ p <= Len(s)
  BY Lengths, LenProperties
<1>2. /\ Len(x) = IF p + m > Len(s) THEN p + m ELSE Len(s)
      /\ \A i \in 1 .. Len(x) : x[i] = IF i \in p + 1 .. p + m THEN r[i - p] ELSE s[i]
  BY DEF IsPart
<1> DEFINE n == Len(s)
           l == Len(x)
<1>3. l = (IF p + m > n THEN p + m ELSE n) /\ l \in Nat /\ n \in Nat
  BY <1>1, <1>2
<1>4. KeyValue!Slots(s) = {q \in 0 .. n - 1 : q % R = 0} /\ KeyValue!Slots(x) = {q \in 0 .. l - 1 : q % R = 0}
  BY DEF KeyValue!Slots, R
<1>5. \A i \in 1 .. l : x[i] = IF i \in p + 1 .. p + m THEN r[i - p] ELSE s[i]
  BY <1>2
<1> HIDE DEF n, l
<1>6. ASSUME NEW q \in 0 .. l - 1, q % R = 0, q >= n PROVE q = p
  <2>1. ~(p < q)
    <3>1. q < p + m
      BY <1>1, <1>3, <1>6
    <3>2. SUFFICES ASSUME p < q PROVE FALSE
      OBVIOUS
    <3>3. q \in Int /\ p % R = 0 /\ q % R = 0
      BY <1>6
    <3>4. p + R <= q
      BY ONLY <1>1, <3>2, <3>3, Apart, Zenon
    <3> QED BY <1>1, <1>3, <1>6, <3>1, <3>4
  <2> QED BY <1>1, <1>3, <1>6, <2>1 DEF n
<1>7. KeyValue!Slots(x) = KeyValue!Slots(s) \cup {p}
  <2>1. p \in KeyValue!Slots(x)
    BY <1>1, <1>3, <1>4
  <2>2. KeyValue!Slots(s) \subseteq KeyValue!Slots(x)
    BY <1>1, <1>3, <1>4
  <2>3. KeyValue!Slots(x) \subseteq KeyValue!Slots(s) \cup {p}
    <3> SUFFICES ASSUME NEW q \in KeyValue!Slots(x) PROVE q \in KeyValue!Slots(s) \/ q = p
      OBVIOUS
    <3>1. q \in 0 .. l - 1 /\ q % R = 0
      BY <1>4
    <3>2. CASE q >= n
      BY <1>6, <3>1, <3>2
    <3>3. CASE ~(q >= n)
      BY <1>3, <1>4, <3>1, <3>3
    <3> QED BY <3>2, <3>3
  <2> QED BY <2>1, <2>2, <2>3
<1>8. x[p + 1] = r[1]
  <2>1. p + 1 \in 1 .. l /\ p + 1 \in p + 1 .. p + m /\ (p + 1) - p = 1
    BY <1>1, <1>3
  <2> QED BY <1>5, <2>1
<1>9. ASSUME NEW q \in KeyValue!Slots(s) \ {p}
      PROVE  /\ q + R <= l <=> q + R <= n
             /\ \A i \in q + 1 .. q + R : i \in 1 .. l => x[i] = s[i]
  <2>1. q \in 0 .. n - 1 /\ q % R = 0 /\ q # p /\ q \in Int /\ p % R = 0
    BY <1>4
  <2>2. CASE q < p
    <3>1. q + R <= p
      BY ONLY <1>1, <2>1, <2>2, Apart, Zenon
    <3>2. q + R <= l /\ q + R <= n
      BY <1>1, <1>3, <2>1, <3>1 DEF n
    <3>3. \A i \in q + 1 .. q + R : ~(i \in p + 1 .. p + m)
      BY <1>1, <2>1, <3>1
    <3> QED BY <1>5, <3>2, <3>3
  <2>3. CASE p < q
    <3>1. p + R <= q
      BY ONLY <1>1, <2>1, <2>3, Apart, Zenon
    <3>2. l = n
      BY <1>1, <1>3, <2>1, <3>1
    <3>3. \A i \in q + 1 .. q + R : ~(i \in p + 1 .. p + m)
      BY <1>1, <2>1, <3>1
    <3> QED BY <1>5, <3>2, <3>3
  <2> QED BY <1>1, <2>1, <2>2, <2>3
<1> QED BY <1>2, <1>3, <1>7, <1>8, <1>9 DEF n, l

\* It leaves one record of the parameter, and the records of the others where they were.
LEMMA PartIsPlaced ==
    ASSUME KeyValueAssumption, NEW s \in Seq(KeyValue!Cells), NEW k \in KeyValue!Keys,
           KeyValue!PlaceOf(k, s) % R = 0,
           NEW r, r[1] = k, NEW m \in 1 .. R, NEW x, IsPart(x, s, KeyValue!PlaceOf(k, s), r, m)
    PROVE  /\ HeadersOnly(s) => HeadersOnly(x)
           /\ Alone(k, s) => KeyValue!RecordsOf(k, x) = {KeyValue!PlaceOf(k, s)}
           /\ \A j \in KeyValue!Keys \ {k} :
                KeyValue!RecordsOf(j, x) = KeyValue!RecordsOf(j, s)
                    /\ ~(KeyValue!PlaceOf(k, s) \in KeyValue!RecordsOf(j, s))
<1> DEFINE p == KeyValue!PlaceOf(k, s)
<1>1. /\ p \in 0 .. Len(s) /\ p \in Nat /\ Len(s) \in Nat
      /\ KeyValue!RecordsOf(k, s) = {} => p = Len(s)
      /\ KeyValue!RecordsOf(k, s) # {} => p \in KeyValue!RecordsOf(k, s)
      /\ KeyValue!Slots(s) \subseteq 0 .. Len(s) - 1
  BY PlaceIs
<1>2. p % R = 0 /\ IsPart(x, s, p, r, m)
  OBVIOUS
<1> HIDE DEF p
<1>3. /\ KeyValue!Slots(x) = KeyValue!Slots(s) \cup {p} /\ x[p + 1] = k
      /\ \A q \in KeyValue!Slots(s) \ {p} :
            \A i \in q + 1 .. q + R : i \in 1 .. Len(x) => x[i] = s[i]
      /\ Len(x) = (IF p + m > Len(s) THEN p + m ELSE Len(s)) /\ Len(x) \in Nat
  BY <1>1, <1>2, PartTouchesOneRecord
<1>4. ASSUME NEW q \in KeyValue!Slots(s) \ {p} PROVE x[q + 1] = s[q + 1]
  <2>1. q + 1 \in q + 1 .. q + R /\ q + 1 \in 1 .. Len(x)
    BY <1>1, <1>3, Lengths
  <2> QED BY <1>3, <2>1
<1>6. ASSUME Alone(k, s), NEW q \in KeyValue!Slots(s) \ {p} PROVE s[q + 1] # k
  <2>1. SUFFICES ASSUME s[q + 1] = k PROVE FALSE
    OBVIOUS
  <2>2. q \in KeyValue!RecordsOf(k, s)
    BY <2>1 DEF KeyValue!RecordsOf
  <2>3. p \in KeyValue!RecordsOf(k, s)
    BY <1>1, <2>2
  <2> QED BY <1>6, <2>2, <2>3 DEF Alone
<1>7. p \in KeyValue!Slots(s) => s[p + 1] = k
  <2>1. SUFFICES ASSUME p \in KeyValue!Slots(s) PROVE s[p + 1] = k
    OBVIOUS
  <2>2. p # Len(s)
    BY <1>1, <2>1
  <2>3. p \in KeyValue!RecordsOf(k, s)
    BY <1>1, <2>2
  <2> QED BY <2>3 DEF KeyValue!RecordsOf
<1>8. HeadersOnly(s) => HeadersOnly(x)
  BY <1>3, <1>4 DEF HeadersOnly
<1>9. ASSUME Alone(k, s) PROVE KeyValue!RecordsOf(k, x) = {p}
  <2>1. p \in KeyValue!RecordsOf(k, x)
    BY <1>3 DEF KeyValue!RecordsOf
  <2>2. ASSUME NEW q \in KeyValue!RecordsOf(k, x) PROVE q = p
    <3>1. q \in KeyValue!Slots(x) /\ x[q + 1] = k
      BY DEF KeyValue!RecordsOf
    <3> QED BY <1>3, <1>4, <1>6, <1>9, <3>1
  <2> QED BY <2>1, <2>2
<1>10. ASSUME NEW j \in KeyValue!Keys \ {k} PROVE KeyValue!RecordsOf(j, x) = KeyValue!RecordsOf(j, s)
                      /\ ~(p \in KeyValue!RecordsOf(j, s))
  <2>1. ~(p \in KeyValue!RecordsOf(j, s))
    BY <1>7 DEF KeyValue!RecordsOf
  <2>2. ASSUME NEW q PROVE q \in KeyValue!RecordsOf(j, x) <=> q \in KeyValue!RecordsOf(j, s)
    <3>1. q \in KeyValue!RecordsOf(j, x) <=> q \in KeyValue!Slots(x) /\ x[q + 1] = j
      BY DEF KeyValue!RecordsOf
    <3>2. q \in KeyValue!RecordsOf(j, s) <=> q \in KeyValue!Slots(s) /\ s[q + 1] = j
      BY DEF KeyValue!RecordsOf
    <3> QED BY <1>3, <1>4, <1>7, <3>1, <3>2
  <2> QED BY <2>1, <2>2
<1> QED BY <1>8, <1>9, <1>10 DEF p

-----------------------------------------------------------------------------
(* What a restart reads *)

LEMMA SubSeqIs ==
    ASSUME NEW s \in Seq(KeyValue!Cells), NEW a \in Nat \ {0}, NEW n \in Nat, a + n <= Len(s) + 1
    PROVE  /\ SubSeq(s, a, a + n - 1) \in Seq(KeyValue!Cells) /\ Len(SubSeq(s, a, a + n - 1)) = n
           /\ \A i \in 1 .. n : SubSeq(s, a, a + n - 1)[i] = s[a + i - 1]
<1> DEFINE b == a + n - 1
<1>1. Len(s) \in Nat
  BY LenProperties
<1>2. a \in 1 .. Len(s) + 1 /\ b \in a - 1 .. Len(s) /\ b - a + 1 = n
  BY <1>1
<1> HIDE DEF b
<1>3. /\ SubSeq(s, a, b) \in Seq(KeyValue!Cells) /\ Len(SubSeq(s, a, b)) = b - a + 1
      /\ \A i \in 1 .. b - a + 1 : SubSeq(s, a, b)[i] = s[a + i - 1]
  BY <1>2, SubSeqProperties
<1> QED BY <1>2, <1>3 DEF b

\* The value of a record.
ValueAt(s, q, n) == SubSeq(s, q + 2, q + 1 + n)

LEMMA ValueAtIs ==
    ASSUME NEW s \in Seq(KeyValue!Cells), NEW q \in Nat, NEW n \in Nat, q + 1 + n <= Len(s)
    PROVE  /\ ValueAt(s, q, n) \in Seq(KeyValue!Cells) /\ Len(ValueAt(s, q, n)) = n
           /\ \A i \in 1 .. n : ValueAt(s, q, n)[i] = s[q + 1 + i]
<1>1. q + 2 \in Nat \ {0} /\ (q + 2) + n - 1 = q + 1 + n /\ Len(s) \in Nat /\ (q + 2) + n <= Len(s) + 1
  BY LenProperties
<1> DEFINE a == q + 2
<1>2. a \in Nat \ {0} /\ a + n <= Len(s) + 1 /\ a + n - 1 = q + 1 + n
  BY <1>1
<1> HIDE DEF a
<1>3. /\ SubSeq(s, a, a + n - 1) \in Seq(KeyValue!Cells) /\ Len(SubSeq(s, a, a + n - 1)) = n
      /\ \A i \in 1 .. n : SubSeq(s, a, a + n - 1)[i] = s[a + i - 1]
  BY <1>2, SubSeqIs
<1>4. ValueAt(s, q, n) = SubSeq(s, a, a + n - 1)
  BY <1>2 DEF ValueAt, a
<1>5. \A i \in 1 .. n : a + i - 1 = q + 1 + i
  BY DEF a
<1> QED BY <1>3, <1>4, <1>5

WholeOf(k, s) == {p \in KeyValue!RecordsOf(k, s) : p + R <= Len(s)}

LEMMA GreatestMember ==
    ASSUME NEW S \in SUBSET Nat, NEW n \in Nat, \A x \in S : x <= n, S # {}
    PROVE  \E x \in S : \A y \in S : y <= x
<1> DEFINE D == {n - x : x \in S}
<1>1. D \in SUBSET Nat /\ D # {}
  <2>1. \A x \in S : n - x \in Nat
    OBVIOUS
  <2> QED BY <2>1
<1>2. PICK d \in D : \A e \in D : d <= e
  <2> HIDE DEF D
  <2> QED BY <1>1, LeastMember
<1>3. PICK x \in S : d = n - x
  BY <1>2
<1>4. ASSUME NEW y \in S PROVE y <= x
  <2>1. d <= n - y
    BY <1>2
  <2> QED BY <1>3, <2>1
<1> QED BY <1>4

LEMMA RestoredIs ==
    ASSUME KeyValueAssumption, NEW s \in Seq(KeyValue!Cells), NEW k \in KeyValue!Keys
    PROVE  /\ WholeOf(k, s) = {} => KeyValue!Restored(s)[k] = KeyValue!Zeroes(Width[k])
           /\ WholeOf(k, s) # {} => \E q \in WholeOf(k, s) : KeyValue!Restored(s)[k] = ValueAt(s, q, Width[k])
<1> DEFINE last == CHOOSE p \in WholeOf(k, s) : \A q \in WholeOf(k, s) : q <= p
<1>1. KeyValue!Restored(s)[k] = IF WholeOf(k, s) = {} THEN KeyValue!Zeroes(Width[k])
                       ELSE SubSeq(s, last + 2, last + 1 + Width[k])
  BY DEF KeyValue!Restored, WholeOf, R
<1>2. ASSUME WholeOf(k, s) # {} PROVE last \in WholeOf(k, s)
  <2>1. WholeOf(k, s) \in SUBSET Nat /\ \A q \in WholeOf(k, s) : q <= Len(s)
    BY PlaceIs DEF WholeOf
  <2>2. \E p \in WholeOf(k, s) : \A q \in WholeOf(k, s) : q <= p
    BY <1>2, <2>1, GreatestMember, LenProperties
  <2> QED BY <2>2
<1> QED BY <1>1, <1>2 DEF ValueAt

\* A whole record has the value in it.
LEMMA WholeIs ==
    ASSUME KeyValueAssumption, NEW s \in Seq(KeyValue!Cells), NEW k \in KeyValue!Keys, NEW q \in WholeOf(k, s)
    PROVE  /\ q \in Nat /\ Width[k] \in Nat /\ q + 1 + Width[k] <= Len(s)
           /\ ValueAt(s, q, Width[k]) \in Seq(KeyValue!Cells) /\ Len(ValueAt(s, q, Width[k])) = Width[k]
           /\ \A i \in 1 .. Width[k] : ValueAt(s, q, Width[k])[i] = s[q + 1 + i]
<1>1. q \in Nat /\ q + R <= Len(s) /\ Len(s) \in Nat
  BY PlaceIs DEF WholeOf
<1>2. Width[k] \in Nat /\ q + 1 + Width[k] <= Len(s)
  BY <1>1, Lengths
<1> QED BY <1>1, <1>2, ValueAtIs

LEMMA RestoredType ==
    ASSUME KeyValueAssumption, NEW s \in Seq(KeyValue!Cells), NEW k \in KeyValue!Keys
    PROVE  KeyValue!Restored(s)[k] \in [1 .. Width[k] -> KeyValue!Cells]
<1>1. CASE WholeOf(k, s) = {}
  BY <1>1, RestoredIs DEF KeyValue!Zeroes, KeyValue!Cells
<1>2. CASE WholeOf(k, s) # {}
  <2>1. PICK q \in WholeOf(k, s) : KeyValue!Restored(s)[k] = ValueAt(s, q, Width[k])
    BY <1>2, RestoredIs
  <2> DEFINE v == ValueAt(s, q, Width[k])
  <2>2. v \in Seq(KeyValue!Cells) /\ Len(v) = Width[k]
    BY WholeIs
  <2> HIDE DEF v
  <2>3. v \in [1 .. Width[k] -> KeyValue!Cells]
    BY <2>2, LenProperties, ElementOfSeq
  <2> QED BY <2>1, <2>3 DEF v
<1> QED BY <1>1, <1>2

\* The values of two whole records with the same cells.
LEMMA SameValue ==
    ASSUME KeyValueAssumption, NEW s \in Seq(KeyValue!Cells), NEW x \in Seq(KeyValue!Cells),
           NEW k \in KeyValue!Keys,
           NEW q \in WholeOf(k, s), q \in WholeOf(k, x),
           \A i \in 1 .. Width[k] : x[q + 1 + i] = s[q + 1 + i]
    PROVE  ValueAt(x, q, Width[k]) = ValueAt(s, q, Width[k])
<1> DEFINE v == ValueAt(s, q, Width[k])
           w == ValueAt(x, q, Width[k])
<1>1. /\ v \in Seq(KeyValue!Cells) /\ Len(v) = Width[k] /\ \A i \in 1 .. Width[k] : v[i] = s[q + 1 + i]
  BY WholeIs
<1>2. /\ w \in Seq(KeyValue!Cells) /\ Len(w) = Width[k] /\ \A i \in 1 .. Width[k] : w[i] = x[q + 1 + i]
  BY WholeIs
<1> HIDE DEF v, w
<1>3. \A i \in 1 .. Len(v) : v[i] = w[i]
  BY <1>1, <1>2
<1>4. v = w
  BY <1>1, <1>2, <1>3, SeqEqual
<1> QED BY <1>4 DEF v, w

LEMMA OthersAreKept ==
    ASSUME KeyValueAssumption, NEW s \in Seq(KeyValue!Cells), NEW k \in KeyValue!Keys,
           KeyValue!PlaceOf(k, s) % R = 0,
           NEW r, r[1] = k, NEW m \in 1 .. R, NEW x, IsPart(x, s, KeyValue!PlaceOf(k, s), r, m),
           NEW j \in KeyValue!Keys \ {k}, Alone(j, s)
    PROVE  KeyValue!Restored(x)[j] = KeyValue!Restored(s)[j]
<1> DEFINE p == KeyValue!PlaceOf(k, s)
<1>1. p \in 0 .. Len(s) /\ Len(s) \in Nat /\ p % R = 0 /\ IsPart(x, s, p, r, m)
  BY PlaceIs
<1>2. KeyValue!RecordsOf(j, x) = KeyValue!RecordsOf(j, s) /\ ~(p \in KeyValue!RecordsOf(j, s))
  BY PartIsPlaced
<1> HIDE DEF p
<1>3. /\ Len(x) \in Nat
      /\ \A q \in KeyValue!Slots(s) \ {p} :
            /\ q + R <= Len(x) <=> q + R <= Len(s)
            /\ \A i \in q + 1 .. q + R : i \in 1 .. Len(x) => x[i] = s[i]
  BY <1>1, PartTouchesOneRecord
<1>4. x \in Seq(KeyValue!Cells)
  BY <1>1 DEF IsPart
<1>5. \A q \in KeyValue!RecordsOf(j, s) : q \in KeyValue!Slots(s) \ {p}
  BY <1>2 DEF KeyValue!RecordsOf
<1>6. WholeOf(j, x) = WholeOf(j, s)
  BY <1>2, <1>3, <1>5 DEF WholeOf
<1>7. CASE WholeOf(j, s) = {}
  BY <1>4, <1>6, <1>7, RestoredIs
<1>8. CASE WholeOf(j, s) # {}
  <2>1. PICK q \in WholeOf(j, s) : KeyValue!Restored(s)[j] = ValueAt(s, q, Width[j])
    BY <1>8, RestoredIs
  <2>2. PICK q2 \in WholeOf(j, x) : KeyValue!Restored(x)[j] = ValueAt(x, q2, Width[j])
    BY <1>4, <1>6, <1>8, RestoredIs
  <2>3. q = q2
    BY <1>6 DEF WholeOf, Alone
  <2>4. ASSUME NEW i \in 1 .. Width[j] PROVE x[q + 1 + i] = s[q + 1 + i]
    <3>1. q \in KeyValue!Slots(s) \ {p} /\ q + R <= Len(x) /\ q \in Nat
      BY <1>3, <1>5, <1>6, PlaceIs DEF WholeOf
    <3>2. q + 1 + i \in q + 1 .. q + R /\ q + 1 + i \in 1 .. Len(x)
      BY <1>3, <3>1, Lengths
    <3> QED BY <1>3, <3>1, <3>2
  <2>5. ValueAt(x, q, Width[j]) = ValueAt(s, q, Width[j])
    BY <1>4, <1>6, <2>4, SameValue
  <2> QED BY <2>1, <2>2, <2>3, <2>5
<1> QED BY <1>7, <1>8

\* The parameter that is written: the new value once the record is complete or its value is,
\* the value before while it is not, and a mixture when the value lies on two pages.
LEMMA ParameterIs ==
    ASSUME KeyValueAssumption, NEW s \in Seq(KeyValue!Cells), NEW k \in KeyValue!Keys, Alone(k, s),
           KeyValue!PlaceOf(k, s) % R = 0,
           NEW data \in Seq(KeyValue!Cells), Len(data) <= DataLength,
           NEW m \in 1 .. R, NEW x, IsPart(x, s, KeyValue!PlaceOf(k, s), RecordOf(k, data), m)
    PROVE  /\ m = 1 => KeyValue!Restored(x)[k] = KeyValue!Restored(s)[k]
           /\ m = R => KeyValue!Restored(x)[k] = KeyValue!Extended(k, data)
           /\ m > Width[k] => KeyValue!Restored(x)[k] \in {KeyValue!Restored(s)[k], KeyValue!Extended(k, data)}
           /\ KeyValue!PlaceOf(k, s) + R > Len(s) /\ m < R => KeyValue!Restored(x)[k] = KeyValue!Restored(s)[k]
<1> DEFINE p == KeyValue!PlaceOf(k, s)
           r == RecordOf(k, data)
           d == KeyValue!Padded(data)
           w == Width[k]
<1>1. /\ p \in 0 .. Len(s) /\ p \in Nat /\ Len(s) \in Nat /\ p % R = 0 /\ IsPart(x, s, p, r, m)
      /\ KeyValue!RecordsOf(k, s) # {} => p \in KeyValue!RecordsOf(k, s)
      /\ KeyValue!RecordsOf(k, s) = {} => p = Len(s)
  BY PlaceIs
<1>2. KeyValue!RecordsOf(k, x) = {p}
  <2>1. r[1] = k
    BY RecordOfIs
  <2> QED BY <2>1, PartIsPlaced
<1>3. /\ d \in Seq(KeyValue!Cells) /\ Len(d) = DataLength /\ \A i \in 1 .. DataLength : r[i + 1] = d[i]
  BY PaddedIs, RecordOfIs
<1>4. KeyValue!RecordsOf(k, s) \subseteq {p}
  <2>1. ASSUME NEW q \in KeyValue!RecordsOf(k, s) PROVE q = p
    <3>1. p \in KeyValue!RecordsOf(k, s)
      BY <1>1
    <3> QED BY <3>1 DEF Alone
  <2> QED BY <2>1
<1>5. /\ R \in Int /\ R = DataLength + 1 /\ DataLength \in Nat
      /\ w \in Nat /\ w > 0 /\ w <= DataLength
  BY Lengths
<1>6. KeyValue!Extended(k, data) = SubSeq(d, 1, w)
  BY DEF KeyValue!Extended
<1>7. w = Width[k]
  OBVIOUS
<1> HIDE DEF p, r, d, w
<1>8. /\ x \in Seq(KeyValue!Cells) /\ Len(x) = (IF p + m > Len(s) THEN p + m ELSE Len(s))
      /\ \A i \in 1 .. Len(x) : x[i] = IF i \in p + 1 .. p + m THEN r[i - p] ELSE s[i]
  BY <1>1 DEF IsPart
<1>9. WholeOf(k, x) = (IF p + R <= Len(x) THEN {p} ELSE {})
  BY <1>2 DEF WholeOf
<1>10. WholeOf(k, s) = (IF p + R <= Len(s) THEN {p} ELSE {})
  <2>1. CASE p + R <= Len(s)
    <3>1. p # Len(s)
      BY <1>1, <1>5, <2>1
    <3>2. p \in KeyValue!RecordsOf(k, s)
      BY <1>1, <3>1
    <3> QED BY <1>4, <2>1, <3>2 DEF WholeOf
  <2>2. CASE ~(p + R <= Len(s))
    BY <1>4, <2>2 DEF WholeOf
  <2> QED BY <2>1, <2>2
<1>11. p + R <= Len(x) <=> (p + R <= Len(s) \/ m = R)
  BY <1>1, <1>5, <1>8
<1>12. p + R <= Len(x) => KeyValue!Restored(x)[k] = ValueAt(x, p, w)
  BY <1>7, <1>8, <1>9, RestoredIs
<1>13. p + R <= Len(s) => KeyValue!Restored(s)[k] = ValueAt(s, p, w)
  BY <1>7, <1>10, RestoredIs
<1>14. ASSUME p + R <= Len(x) PROVE
          /\ ValueAt(x, p, w) \in Seq(KeyValue!Cells) /\ Len(ValueAt(x, p, w)) = w
          /\ \A i \in 1 .. w : ValueAt(x, p, w)[i] = x[p + 1 + i]
  <2>1. p \in WholeOf(k, x)
    BY <1>9, <1>14
  <2> QED BY <1>7, <1>8, <2>1, WholeIs
<1>15. ~(p + R <= Len(x)) => KeyValue!Restored(x)[k] = KeyValue!Restored(s)[k]
  <2>1. SUFFICES ASSUME ~(p + R <= Len(x)) PROVE KeyValue!Restored(x)[k] = KeyValue!Restored(s)[k]
    OBVIOUS
  <2>2. WholeOf(k, x) = {} /\ WholeOf(k, s) = {}
    BY <1>9, <1>10, <1>11, <2>1
  <2> QED BY <1>8, <2>2, RestoredIs
<1>16. ASSUME m > w, p + R <= Len(x) PROVE KeyValue!Restored(x)[k] = KeyValue!Extended(k, data)
  <2> DEFINE v == ValueAt(x, p, w)
             e == SubSeq(d, 1, w)
  <2>1. v \in Seq(KeyValue!Cells) /\ Len(v) = w /\ \A i \in 1 .. w : v[i] = x[p + 1 + i]
    BY <1>14, <1>16
  <2>2. e \in Seq(KeyValue!Cells) /\ Len(e) = w /\ \A i \in 1 .. w : e[i] = d[i]
    <3> DEFINE b == 1 + w - 1
    <3>1. b = w /\ 1 + w <= Len(d) + 1
      BY <1>3, <1>5
    <3>2. /\ SubSeq(d, 1, 1 + w - 1) \in Seq(KeyValue!Cells) /\ Len(SubSeq(d, 1, 1 + w - 1)) = w
          /\ \A i \in 1 .. w : SubSeq(d, 1, 1 + w - 1)[i] = d[1 + i - 1]
      BY <1>3, <1>5, <3>1, SubSeqIs
    <3> QED BY <3>1, <3>2
  <2> HIDE DEF v, e
  <2>3. ASSUME NEW i \in 1 .. w PROVE v[i] = e[i]
    <3>1. /\ p + 1 + i \in 1 .. Len(x) /\ p + 1 + i \in p + 1 .. p + m
          /\ (p + 1 + i) - p = i + 1 /\ i \in 1 .. DataLength
      BY <1>1, <1>5, <1>16, LenProperties, <1>8
    <3>2. x[p + 1 + i] = r[i + 1]
      BY <1>8, <3>1
    <3> QED BY <1>3, <2>1, <2>2, <3>1, <3>2
  <2>4. v = e
    BY <2>1, <2>2, <2>3, SeqEqual
  <2> QED BY <1>6, <1>12, <1>16, <2>4 DEF v, e
<1>17. ASSUME m = 1, p + R <= Len(x) PROVE KeyValue!Restored(x)[k] = KeyValue!Restored(s)[k]
  <2>1. p + R <= Len(s) /\ p \in WholeOf(k, s) /\ p \in WholeOf(k, x)
    BY <1>5, <1>9, <1>10, <1>11, <1>17
  <2>2. ASSUME NEW i \in 1 .. w PROVE x[p + 1 + i] = s[p + 1 + i]
    <3>1. p + 1 + i \in 1 .. Len(x) /\ ~(p + 1 + i \in p + 1 .. p + m)
      BY <1>1, <1>5, <1>8, <1>17
    <3> QED BY <1>8, <3>1
  <2>3. ValueAt(x, p, Width[k]) = ValueAt(s, p, Width[k])
    BY <1>7, <1>8, <2>1, <2>2, SameValue
  <2> QED BY <1>7, <1>12, <1>13, <1>17, <2>1, <2>3
<1>18. m = R => m > w /\ p + R <= Len(x)
  BY <1>5, <1>11
<1>19. p + R > Len(s) /\ m < R => ~(p + R <= Len(x))
  BY <1>1, <1>5, <1>11
<1>20. m > Width[k] => KeyValue!Restored(x)[k] \in {KeyValue!Restored(s)[k], KeyValue!Extended(k, data)}
  BY <1>7, <1>15, <1>16
<1>21. p = KeyValue!PlaceOf(k, s)
  BY DEF p
<1> QED BY <1>15, <1>16, <1>17, <1>18, <1>19, <1>20, <1>21

\* A record that is written: it is whole, and then its value is what a restart reads.
LEMMA RecordInIs ==
    ASSUME KeyValueAssumption, NEW k \in KeyValue!Keys,
           NEW data \in Seq(KeyValue!Cells), Len(data) <= DataLength,
           NEW s \in Seq(KeyValue!Cells)
    PROVE  IsPart(KeyValue!RecordIn(k, data, s), s, KeyValue!PlaceOf(k, s), RecordOf(k, data), R)
<1> DEFINE d == KeyValue!Padded(data)
           p == KeyValue!PlaceOf(k, s)
<1>1. d \in Seq(KeyValue!Cells) /\ Len(d) = DataLength /\ DataLength \in Nat /\ R = DataLength + 1
  BY PaddedIs, Lengths
<1>2. p \in 0 .. Len(s)
  BY PlaceIs
<1>3. SubSeq(d, 1, DataLength) = d
  <2> DEFINE e == SubSeq(d, 1, DataLength)
             n == DataLength
  <2> HIDE DEF d
  <2>1. /\ SubSeq(d, 1, 1 + n - 1) \in Seq(KeyValue!Cells) /\ Len(SubSeq(d, 1, 1 + n - 1)) = n
        /\ \A i \in 1 .. n : SubSeq(d, 1, 1 + n - 1)[i] = d[1 + i - 1]
    BY <1>1, SubSeqIs
  <2>2. 1 + n - 1 = n /\ \A i \in 1 .. n : 1 + i - 1 = i
    BY <1>1
  <2>3. e \in Seq(KeyValue!Cells) /\ Len(e) = Len(d) /\ \A i \in 1 .. Len(e) : e[i] = d[i]
    BY <1>1, <2>1, <2>2
  <2> HIDE DEF e
  <2>4. e = d
    BY <1>1, <2>3, SeqEqual
  <2> QED BY <2>4 DEF e
<1>4. KeyValue!RecordIn(k, data, s) = KeyValue!Overlay(KeyValue!Overlay(s, p, <<k>>), p + 1,
          SubSeq(d, 1, DataLength))
  BY <1>3 DEF KeyValue!RecordIn, KeyValue!HeaderIn
<1>5. DataLength \in 0 .. DataLength
  BY <1>1
<1>6. IsPart(KeyValue!Overlay(KeyValue!Overlay(s, p, <<k>>), p + 1, SubSeq(d, 1, DataLength)), s, p,
          RecordOf(k, data),
             DataLength + 1)
  <2> DEFINE n == DataLength
             x == KeyValue!Overlay(KeyValue!Overlay(s, p, <<k>>), p + 1, SubSeq(KeyValue!Padded(data), 1, n))
  <2>1. n \in 0 .. DataLength /\ x = KeyValue!Overlay(KeyValue!Overlay(s, p, <<k>>), p + 1,
            SubSeq(KeyValue!Padded(data), 1, n))
    BY <1>5
  <2> HIDE DEF n, x, p
  <2>2. IsPart(x, s, p, RecordOf(k, data), n + 1)
    BY <1>2, <2>1, ValueIsPart
  <2> QED BY <2>2 DEF n, x, p
<1> QED BY <1>1, <1>4, <1>6

\* What a power failure leaves of it.
LEMMA InterruptedIs ==
    ASSUME KeyValueAssumption, NEW k \in KeyValue!Keys,
           NEW data \in Seq(KeyValue!Cells), Len(data) <= DataLength,
           NEW s \in Seq(KeyValue!Cells), NEW x \in KeyValue!Interrupted(k, data, s)
    PROVE  \/ x = s
           \/ \E m \in 1 .. R :
                /\ IsPart(x, s, KeyValue!PlaceOf(k, s), RecordOf(k, data), m)
                /\ m \in {1, R} \/ (KeyValue!PlaceOf(k, s) + m) % PageLength = 0
<1> DEFINE d == KeyValue!Padded(data)
           p == KeyValue!PlaceOf(k, s)
           h == <<k>>
           r == RecordOf(k, data)
<1>1. d \in Seq(KeyValue!Cells) /\ Len(d) = DataLength /\ DataLength \in Nat /\ R = DataLength + 1
  BY PaddedIs, Lengths
<1>2. p \in 0 .. Len(s) /\ p \in Nat
  BY PlaceIs
<1>3. h \in Seq(KeyValue!Cells) /\ Len(h) = 1
  BY DEF KeyValue!Cells
<1>4. SubSeq(h, 1, 0) = <<>> /\ SubSeq(h, 1, 1) = h
  <2>1. SubSeq(h, 1, 0) = <<>>
    BY SubSeqEmpty
  <2>2. SubSeq(h, 1, 1) \in Seq(KeyValue!Cells) /\ Len(SubSeq(h, 1, 1)) = 1 /\ SubSeq(h, 1, 1)[1] = h[1]
    <3> HIDE DEF h
    <3>1. /\ SubSeq(h, 1, 1 + 1 - 1) \in Seq(KeyValue!Cells) /\ Len(SubSeq(h, 1, 1 + 1 - 1)) = 1
          /\ \A i \in 1 .. 1 : SubSeq(h, 1, 1 + 1 - 1)[i] = h[1 + i - 1]
      <4>1. 1 \in Nat \ {0} /\ 1 \in Nat /\ 1 + 1 <= Len(h) + 1
        BY <1>3
      <4> DEFINE a == 1
      <4>2. a \in Nat \ {0} /\ a \in Nat /\ a + a <= Len(h) + 1
        BY <4>1
      <4> HIDE DEF a
      <4>3. /\ SubSeq(h, a, a + a - 1) \in Seq(KeyValue!Cells) /\ Len(SubSeq(h, a, a + a - 1)) = a
            /\ \A i \in 1 .. a : SubSeq(h, a, a + a - 1)[i] = h[a + i - 1]
        BY <1>3, <4>2, SubSeqIs
      <4> QED BY <4>3 DEF a
    <3>2. 1 + 1 - 1 = 1 /\ 1 \in 1 .. 1
      OBVIOUS
    <3> QED BY <3>1, <3>2
  <2> DEFINE e == SubSeq(h, 1, 1)
  <2>3. e \in Seq(KeyValue!Cells) /\ Len(e) = 1 /\ e[1] = h[1]
    BY <2>2
  <2> HIDE DEF e, h
  <2>4. e = h
    <3>1. Len(e) = Len(h) /\ \A i \in 1 .. Len(e) : e[i] = h[i]
      BY <1>3, <2>3
    <3> QED BY <1>3, <2>3, <3>1, SeqEqual
  <2> QED BY <2>1, <2>4 DEF e
<1>5. CASE x \in KeyValue!Written(s, p, h)
  <2>1. PICK n \in 0 .. 1 : x = KeyValue!Overlay(s, p, SubSeq(h, 1, n))
    <3> HIDE DEF h
    <3> QED BY <1>3, <1>5 DEF KeyValue!Written
  <2>2. CASE n = 0
    <3>1. x = KeyValue!Overlay(s, p, <<>>)
      BY <1>4, <2>1, <2>2
    <3> QED BY <1>2, <3>1, NothingIsPart
  <2>3. CASE n = 1
    <3>1. x = KeyValue!Overlay(s, p, <<k>>)
      BY <1>4, <2>1, <2>3
    <3>2. IsPart(KeyValue!Overlay(s, p, <<k>>), s, p, r, 1)
      <4> HIDE DEF p
      <4> QED BY <1>2, HeaderIsPart
    <3>3. IsPart(x, s, p, r, 1)
      BY <3>1, <3>2
    <3>4. 1 \in 1 .. R
      BY <1>1
    <3> QED BY <3>3, <3>4
  <2> QED BY <2>1, <2>2, <2>3
<1>6. CASE x \in KeyValue!Written(KeyValue!HeaderIn(k, s), p + 1, d)
  <2>1. PICK n \in 0 .. DataLength :
           /\ n \in {0, DataLength} \/ (p + 1 + n) % PageLength = 0
           /\ x = KeyValue!Overlay(KeyValue!HeaderIn(k, s), p + 1, SubSeq(d, 1, n))
    BY <1>1, <1>6 DEF KeyValue!Written
  <2>2. x = KeyValue!Overlay(KeyValue!Overlay(s, p, <<k>>), p + 1, SubSeq(KeyValue!Padded(data), 1, n))
    BY <2>1 DEF KeyValue!HeaderIn
  <2>3. IsPart(x, s, p, r, n + 1)
    <3> HIDE DEF p
    <3> QED BY <1>2, <2>2, ValueIsPart
  <2>4. n + 1 \in 1 .. R /\ p + 1 + n = p + (n + 1)
    BY <1>1, <1>2
  <2>5. n + 1 \in {1, R} \/ (p + (n + 1)) % PageLength = 0
    BY <1>1, <2>1, <2>4
  <2> QED BY <2>3, <2>4, <2>5
<1> QED BY <1>5, <1>6 DEF KeyValue!Interrupted

LEMMA BoundaryStraddles ==
    ASSUME KeyValueAssumption, NEW s \in Seq(KeyValue!Cells), NEW k \in KeyValue!Keys, NEW m \in 1 .. R, m # 1,
           m <= Width[k], (KeyValue!PlaceOf(k, s) + m) % PageLength = 0
    PROVE  KeyValue!Straddles(k, s)
<1> DEFINE p == KeyValue!PlaceOf(k, s)
           b == p + m
           t == PageLength
           c == b \div t
<1>1. p \in Nat /\ t \in Int /\ t > 0 /\ m \in Int /\ m >= 2 /\ Width[k] \in Int /\ m <= Width[k]
      /\ b \in Int /\ b % t = 0
  BY PlaceIs, Lengths
<1> HIDE DEF p, t
<1>2. c \in Int /\ b = t * c + (b % t)
  BY <1>1, Division
<1> HIDE DEF c
<1>3. b = t * c + 0 /\ t * c \in Int
  BY <1>1, <1>2
<1>4. b \div t = c
  BY DEF c
<1>5. c <= (p + Width[k]) \div t
  <2> DEFINE e == p + Width[k]
  <2>1. b <= e /\ e \in Int
    BY <1>1
  <2> HIDE DEF e, b
  <2>2. b \div t <= e \div t
    BY <1>1, <2>1, QuotientGrows
  <2> QED BY <1>4, <2>2 DEF e
<1>6. (p + 1) \div t <= c - 1
  <2> DEFINE e == b - 1
             f == p + 1
  <2>1. f <= e /\ e \in Int /\ f \in Int
    BY <1>1
  <2>2. e = t * (c - 1) + (t - 1) /\ t - 1 \in 0 .. t - 1 /\ c - 1 \in Int
    <3>1. t * (c - 1) = t * c - t
      BY <1>1, <1>2
    <3> QED BY <1>1, <1>2, <1>3, <3>1
  <2> HIDE DEF e, f, b
  <2>3. e \div t = c - 1
    <3> DEFINE q == c - 1
               u == t - 1
    <3>1. e = t * q + u /\ u \in 0 .. t - 1 /\ q \in Int
      BY <2>2
    <3> HIDE DEF q, u
    <3>2. e \div t = q
      BY <1>1, <2>1, <3>1, Quotient
    <3> QED BY <3>2 DEF q
  <2>4. f \div t <= e \div t
    BY <1>1, <2>1, QuotientGrows
  <2> QED BY <2>3, <2>4 DEF f
<1>7. (p + 1) \div t \in Int /\ (p + Width[k]) \div t \in Int
  BY <1>1
<1>8. (p + 1) \div t # (p + Width[k]) \div t
  BY <1>2, <1>5, <1>6, <1>7
<1> QED BY <1>8 DEF KeyValue!Straddles, p, t

-----------------------------------------------------------------------------
(* The file *)

\* The cells of a record behind its header are those of the value, and zeroes.
LEMMA RecordIsClean ==
    ASSUME KeyValueAssumption, NEW k \in KeyValue!Keys,
           NEW data \in Seq(KeyValue!Cells), Len(data) <= DataLength, NEW H, Clean(data, Len(data), H),
           NEW i \in 2 .. R
    PROVE  RecordOf(k, data)[i] \notin KeyValue!Keys \ H
<1> DEFINE b == i - 1
           r == RecordOf(k, data)
           d == KeyValue!Padded(data)
<1>1. b \in 1 .. DataLength /\ b + 1 = i /\ b \in Int
  BY Lengths
<1>2. r[b + 1] = d[b]
  BY <1>1, RecordOfIs
<1>3. d[b] = IF b <= Len(data) THEN data[b] ELSE KeyValue!Zero
  BY <1>1, PaddedIs
<1> HIDE DEF b, r, d
<1>4. KeyValue!Zero \notin KeyValue!Keys
  BY DEF KeyValueAssumption
<1>5. CASE b <= Len(data)
  <2>1. b \in 1 .. Len(data)
    BY <1>1, <1>5, LenProperties
  <2> QED BY <1>1, <1>2, <1>3, <1>5, <2>1 DEF Clean, r
<1>6. CASE ~(b <= Len(data))
  BY <1>1, <1>2, <1>3, <1>4, <1>6 DEF r
<1> QED BY <1>5, <1>6

\* No cell but a header says j, after a part of a record of another parameter was written too.
LEMMA PartIsClean ==
    ASSUME KeyValueAssumption, NEW s \in Seq(KeyValue!Cells), NEW p \in 0 .. Len(s),
           NEW r, NEW m \in 1 .. R, NEW x, IsPart(x, s, p, r, m),
           NEW j, InPlace(j, s), p % R = 0 \/ r[1] # j, \A i \in 2 .. R : r[i] # j
    PROVE  InPlace(j, x)
<1> SUFFICES ASSUME NEW i \in 1 .. Len(x), x[i] = j PROVE (i - 1) % R = 0
  BY DEF InPlace, R
<1>1. /\ Len(x) = (IF p + m > Len(s) THEN p + m ELSE Len(s)) /\ Len(s) \in Nat /\ R \in Int
      /\ x[i] = IF i \in p + 1 .. p + m THEN r[i - p] ELSE s[i]
  BY LenProperties, Lengths DEF IsPart
<1>2. CASE i = p + 1
  <2>1. i - 1 = p /\ i - p = 1 /\ i \in p + 1 .. p + m
    BY <1>1, <1>2
  <2> QED BY <1>1, <2>1
<1>3. CASE i \in p + 2 .. p + m
  <2> DEFINE c == i - p
  <2>1. c \in 2 .. R /\ i \in p + 1 .. p + m
    BY <1>1, <1>3
  <2>2. x[i] = r[c]
    BY <1>1, <2>1
  <2> HIDE DEF c
  <2> QED BY <2>1, <2>2
<1>4. CASE ~(i \in p + 1 .. p + m)
  <2>1. i \in 1 .. Len(s)
    BY <1>1, <1>4, LenProperties
  <2> QED BY <1>1, <1>4, <2>1 DEF InPlace, R
<1> QED BY <1>1, <1>2, <1>3, <1>4

\* What is added at the end of the file leaves the whole records of the others.
LEMMA AddedBehind ==
    ASSUME KeyValueAssumption, NEW s \in Seq(KeyValue!Cells), NEW r, NEW m \in 1 .. R, NEW x,
           IsPart(x, s, Len(s), r, m), NEW j \in KeyValue!Keys, Alone(j, s),
           \A i \in 1 .. R : r[i] # j, \A q \in KeyValue!RecordsOf(j, s) : q + R <= Len(s)
    PROVE  /\ KeyValue!RecordsOf(j, x) = KeyValue!RecordsOf(j, s)
           /\ KeyValue!Restored(x)[j] = KeyValue!Restored(s)[j]
<1>1. /\ x \in Seq(KeyValue!Cells) /\ Len(x) = Len(s) + m /\ Len(s) \in Nat /\ m \in Nat
      /\ \A i \in 1 .. Len(s) : x[i] = s[i]
      /\ \A i \in 1 .. Len(x) : ~(i <= Len(s)) => x[i] # j
  <2>1. /\ x \in Seq(KeyValue!Cells) /\ Len(x) = (IF Len(s) + m > Len(s) THEN Len(s) + m ELSE Len(s))
        /\ Len(s) \in Nat /\ m \in Nat /\ m > 0 /\ m <= R /\ R \in Int
        /\ \A i \in 1 .. Len(x) : x[i] = IF i \in Len(s) + 1 .. Len(s) + m THEN r[i - Len(s)] ELSE s[i]
    BY LenProperties, Lengths DEF IsPart
  <2>2. Len(x) = Len(s) + m
    BY <2>1
  <2>3. \A i \in 1 .. Len(s) : x[i] = s[i]
    BY <2>1, <2>2
  <2>4. ASSUME NEW i \in 1 .. Len(x), ~(i <= Len(s)) PROVE x[i] # j
    <3>1. i \in Len(s) + 1 .. Len(s) + m /\ i - Len(s) \in 1 .. R
      BY <2>1, <2>2, <2>4
    <3> QED BY <2>1, <3>1
  <2> QED BY <2>1, <2>2, <2>3, <2>4
<1>2. ASSUME NEW q PROVE q \in KeyValue!RecordsOf(j, x) <=> q \in KeyValue!RecordsOf(j, s)
  <2>1. q \in KeyValue!RecordsOf(j, x) <=> q \in 0 .. Len(x) - 1 /\ q % R = 0 /\ x[q + 1] = j
    BY DEF KeyValue!RecordsOf, KeyValue!Slots, R
  <2>2. q \in KeyValue!RecordsOf(j, s) <=> q \in 0 .. Len(s) - 1 /\ q % R = 0 /\ s[q + 1] = j
    BY DEF KeyValue!RecordsOf, KeyValue!Slots, R
  <2>3. ASSUME q \in 0 .. Len(x) - 1, x[q + 1] = j PROVE q \in 0 .. Len(s) - 1 /\ s[q + 1] = j
    <3>1. q + 1 \in 1 .. Len(x)
      BY <1>1, <2>3
    <3>2. q + 1 <= Len(s)
      BY <1>1, <2>3, <3>1
    <3>3. q + 1 \in 1 .. Len(s)
      BY <1>1, <3>1, <3>2
    <3> QED BY <1>1, <2>3, <3>2, <3>3
  <2>4. ASSUME q \in 0 .. Len(s) - 1, s[q + 1] = j PROVE q \in 0 .. Len(x) - 1 /\ x[q + 1] = j
    <3>1. q + 1 \in 1 .. Len(s)
      BY <1>1, <2>4
    <3> QED BY <1>1, <2>4, <3>1
  <2> QED BY <2>1, <2>2, <2>3, <2>4
<1>3. KeyValue!RecordsOf(j, x) = KeyValue!RecordsOf(j, s)
  BY <1>2
<1>4. \A q \in KeyValue!RecordsOf(j, s) : q \in Nat
  BY PlaceIs
<1>5. WholeOf(j, x) = KeyValue!RecordsOf(j, s) /\ WholeOf(j, s) = KeyValue!RecordsOf(j, s)
  <2>1. \A q \in KeyValue!RecordsOf(j, s) : q + R <= Len(x)
    BY <1>1, <1>4, Lengths
  <2>2. WholeOf(j, x) = {q \in KeyValue!RecordsOf(j, s) : q + R <= Len(x)}
    BY <1>3 DEF WholeOf
  <2>3. WholeOf(j, s) = {q \in KeyValue!RecordsOf(j, s) : q + R <= Len(s)}
    BY DEF WholeOf
  <2>4. WholeOf(j, x) = KeyValue!RecordsOf(j, s)
    BY <2>1, <2>2, Zenon
  <2>5. WholeOf(j, s) = KeyValue!RecordsOf(j, s)
    BY <2>3, Zenon
  <2> QED BY <2>4, <2>5
<1>6. CASE WholeOf(j, s) = {}
  BY <1>1, <1>3, <1>5, <1>6, RestoredIs
<1>7. CASE WholeOf(j, s) # {}
  <2>1. PICK q \in WholeOf(j, s) : KeyValue!Restored(s)[j] = ValueAt(s, q, Width[j])
    BY <1>7, RestoredIs
  <2>2. PICK q2 \in WholeOf(j, x) : KeyValue!Restored(x)[j] = ValueAt(x, q2, Width[j])
    BY <1>1, <1>5, <1>7, RestoredIs
  <2>3. q = q2 /\ q \in WholeOf(j, x)
    BY <1>5 DEF Alone
  <2>4. ASSUME NEW i \in 1 .. Width[j] PROVE x[q + 1 + i] = s[q + 1 + i]
    <3>1. q \in Nat /\ q + R <= Len(s)
      BY <1>4, <1>5
    <3>2. q + 1 + i \in 1 .. Len(s)
      BY <1>1, <3>1, Lengths
    <3> QED BY <1>1, <3>2
  <2>5. ValueAt(x, q, Width[j]) = ValueAt(s, q, Width[j])
    BY <1>1, <2>3, <2>4, SameValue
  <2> QED BY <1>3, <2>1, <2>2, <2>3, <2>5
<1> QED BY <1>6, <1>7

\* What a part of a record of k makes of the file: none but the parameters in H2 are harmed.
Harms(x, s, k, H2) ==
    /\ H2 \subseteq KeyValue!Keys /\ x \in Seq(KeyValue!Cells)
    /\ H2 = {} => HeadersOnly(x)
    /\ \A j \in KeyValue!Keys \ H2 :
          Alone(j, x) /\ InPlace(j, x) /\ (j # k => KeyValue!Restored(x)[j] = KeyValue!Restored(s)[j])
    /\ k \notin H2 => KeyValue!PlaceOf(k, s) % R = 0 /\ Alone(k, s)

\* A part of a record harms the parameters of HurtBy only.
LEMMA PartIsAdded ==
    ASSUME KeyValueAssumption, NEW s, NEW S, NEW H, NEW n \in Nat, FileInv(s, S, H, n),
           NEW k \in KeyValue!Keys, NEW data \in Seq(KeyValue!Cells), Len(data) <= DataLength,
           Clean(data, Len(data), H), NEW m \in 1 .. R, NEW x,
           IsPart(x, s, KeyValue!PlaceOf(k, s), RecordOf(k, data), m),
           NEW H2, H2 = H \cup KeyValue!HurtBy(k, s)
    PROVE  Harms(x, s, k, H2)
<1> DEFINE p == KeyValue!PlaceOf(k, s)
           r == RecordOf(k, data)
<1>1. /\ s \in Seq(KeyValue!Cells) /\ H \subseteq KeyValue!Keys
      /\ \A j \in KeyValue!Keys \ H : Alone(j, s) /\ InPlace(j, s)
      /\ H = {} => HeadersOnly(s)
  BY DEF FileInv
<1>2. /\ p \in Nat /\ p <= Len(s) /\ Len(s) \in Nat
      /\ KeyValue!RecordsOf(k, s) = {} => p = Len(s)
      /\ KeyValue!RecordsOf(k, s) # {} => p \in KeyValue!RecordsOf(k, s)
      /\ KeyValue!RecordsOf(k, s) \subseteq KeyValue!Slots(s)
  BY <1>1, PlaceIs
<1>3. r[1] = k /\ \A i \in 2 .. R : r[i] \notin KeyValue!Keys \ H
  BY RecordOfIs, RecordIsClean
<1>4. H2 \subseteq KeyValue!Keys /\ x \in Seq(KeyValue!Cells) /\ H \subseteq H2
  BY <1>1 DEF KeyValue!HurtBy, KeyValue!Incomplete, IsPart
<1>5. k \notin H2 => p % R = 0 /\ Alone(k, s)
  BY <1>1, <1>4 DEF KeyValue!HurtBy, KeyValue!Misplaces, R
<1>6. KeyValue!Misplaces(k, s) <=> ~(p % R = 0)
  BY DEF KeyValue!Misplaces, R
<1>7. H2 = {} => p % R = 0 /\ HeadersOnly(s)
  BY <1>1, <1>4, <1>6 DEF KeyValue!HurtBy
<1>8. IsPart(x, s, p, r, m)
  OBVIOUS
<1>9. ASSUME NEW j \in KeyValue!Keys \ H2 PROVE InPlace(j, x)
  <2>1. j \in KeyValue!Keys \ H /\ InPlace(j, s)
    BY <1>1, <1>4
  <2>2. \A i \in 2 .. R : r[i] # j
    BY <1>3, <2>1
  <2>3. p % R = 0 \/ r[1] # j
    BY <1>3, <1>6 DEF KeyValue!HurtBy
  <2> HIDE DEF p, r
  <2> QED BY <1>1, <1>2, <1>8, <2>1, <2>2, <2>3, PartIsClean
<1>10. CASE p % R = 0
  <2>1. /\ HeadersOnly(s) => HeadersOnly(x)
        /\ Alone(k, s) => KeyValue!RecordsOf(k, x) = {p}
        /\ \A j \in KeyValue!Keys \ {k} : KeyValue!RecordsOf(j, x) = KeyValue!RecordsOf(j, s)
    BY <1>1, <1>3, <1>10, PartIsPlaced
  <2>2. ASSUME NEW j \in KeyValue!Keys \ H2 PROVE Alone(j, x)
    BY <1>1, <1>4, <2>1 DEF Alone
  <2>3. ASSUME NEW j \in KeyValue!Keys \ H2, j # k
        PROVE  KeyValue!Restored(x)[j] = KeyValue!Restored(s)[j]
    <3>1. Alone(j, s) /\ j \in KeyValue!Keys \ {k}
      BY <1>1, <1>4, <2>3
    <3> QED BY <1>1, <1>3, <1>10, <3>1, OthersAreKept
  <2> HIDE DEF p, r
  <2> QED BY <1>4, <1>5, <1>7, <1>9, <2>1, <2>2, <2>3 DEF p, Harms
<1>11. CASE ~(p % R = 0)
  <2>1. p = Len(s)
    <3>1. ~(p \in KeyValue!Slots(s))
      BY <1>11 DEF KeyValue!Slots, R
    <3> HIDE DEF p
    <3> QED BY <1>2, <3>1
  <2>2. k \in H2 /\ \A j \in KeyValue!Keys \ H2 : \A q \in KeyValue!RecordsOf(j, s) : ~(q + R > Len(s))
    BY <1>6, <1>11 DEF KeyValue!HurtBy, KeyValue!Incomplete, R
  <2>3. ASSUME NEW j \in KeyValue!Keys \ H2
        PROVE  Alone(j, x) /\ KeyValue!Restored(x)[j] = KeyValue!Restored(s)[j]
    <3>1. Alone(j, s) /\ j # k /\ j \in KeyValue!Keys \ H
      BY <1>1, <1>4, <2>2, <2>3
    <3>2. \A i \in 1 .. R : r[i] # j
      <4>1. ASSUME NEW i \in 1 .. R PROVE i = 1 \/ i \in 2 .. R
        BY Lengths
      <4> HIDE DEF r
      <4> QED BY <1>3, <3>1, <4>1
    <3>3. \A q \in KeyValue!RecordsOf(j, s) : q + R <= Len(s)
      <4>1. \A q \in KeyValue!RecordsOf(j, s) : q \in Nat /\ ~(q + R > Len(s))
        BY <1>1, <2>2, PlaceIs
      <4> QED BY <1>2, <4>1, Lengths
    <3>4. IsPart(x, s, Len(s), r, m)
      BY <1>8, <2>1
    <3> HIDE DEF r, p
    <3>5. /\ KeyValue!RecordsOf(j, x) = KeyValue!RecordsOf(j, s)
          /\ KeyValue!Restored(x)[j] = KeyValue!Restored(s)[j]
      BY <1>1, <3>1, <3>2, <3>3, <3>4, AddedBehind
    <3> QED BY <3>1, <3>5 DEF Alone
  <2> HIDE DEF p, r
  <2> QED BY <1>4, <1>5, <1>7, <1>9, <1>11, <2>3 DEF p, Harms
<1> QED BY <1>10, <1>11

LEMMA RecordIsAdded ==
    ASSUME KeyValueAssumption, NEW s, NEW S, NEW H, NEW n \in Nat, FileInv(s, S, H, n),
           NEW k \in KeyValue!Keys, NEW data \in Seq(KeyValue!Cells), Len(data) <= DataLength,
           Clean(data, Len(data), H), NEW x, x = KeyValue!RecordIn(k, data, s),
           NEW S2, DOMAIN S2 = KeyValue!Keys, \A j \in KeyValue!Keys \ {k} : S2[j] = S[j],
               S2[k] = {KeyValue!Extended(k, data)}
    PROVE  FileInv(x, S2, H \cup KeyValue!HurtBy(k, s), n)
<1> DEFINE p == KeyValue!PlaceOf(k, s)
           r == RecordOf(k, data)
           H2 == H \cup KeyValue!HurtBy(k, s)
<1>1. s \in Seq(KeyValue!Cells)
  BY DEF FileInv
<1>2. IsPart(x, s, p, r, R) /\ R \in 1 .. R
  BY <1>1, RecordInIs, Lengths
<1>3. Len(x) = (IF p + R > Len(s) THEN p + R ELSE Len(s))
  BY <1>2 DEF IsPart
<1>4. /\ H2 \subseteq KeyValue!Keys /\ x \in Seq(KeyValue!Cells)
      /\ H2 = {} => HeadersOnly(x)
      /\ \A j \in KeyValue!Keys \ H2 :
            Alone(j, x) /\ InPlace(j, x) /\ (j # k => KeyValue!Restored(x)[j] = KeyValue!Restored(s)[j])
      /\ k \notin H2 => p % R = 0 /\ Alone(k, s)
  <2> DEFINE m == R
             G == H2
  <2>1. m \in 1 .. R /\ IsPart(x, s, p, r, m) /\ G = H \cup KeyValue!HurtBy(k, s)
    BY <1>2
  <2> HIDE DEF m, G
  <2>2. Harms(x, s, k, G)
    BY <2>1, PartIsAdded
  <2> QED BY <2>2 DEF G, Harms
<1>5. k \notin H2 => KeyValue!Restored(x)[k] = KeyValue!Extended(k, data)
  <2>1. SUFFICES ASSUME k \notin H2 PROVE KeyValue!Restored(x)[k] = KeyValue!Extended(k, data)
    OBVIOUS
  <2>2. p % R = 0 /\ Alone(k, s)
    BY <1>4, <2>1
  <2> QED BY <1>1, <1>2, <2>2, ParameterIs
<1>6. \A j \in KeyValue!Keys \ H : KeyValue!Restored(s)[j] \in S[j]
  BY DEF FileInv
<1>7. ASSUME NEW j \in KeyValue!Keys \ H2 PROVE KeyValue!Restored(x)[j] \in S2[j]
  <2>1. CASE j = k
    BY <1>5, <1>7, <2>1
  <2>2. CASE j # k
    BY <1>4, <1>6, <1>7, <2>2
  <2> QED BY <2>1, <2>2
<1>8. ASSUME n = 0 PROVE H2 = {} /\ Len(x) % R = 0
  <2>1. H = {} /\ Len(s) % R = 0
    BY <1>8 DEF FileInv, R
  <2>2. p \in Nat /\ (p = Len(s) \/ p \in KeyValue!Slots(s)) /\ Len(s) \in Nat
    BY <1>1, PlaceIs
  <2>3. p % R = 0
    BY <2>1, <2>2 DEF KeyValue!Slots, R
  <2>4. H2 = {}
    BY <2>1, <2>3 DEF KeyValue!HurtBy, KeyValue!Misplaces, R
  <2>5. (p + R) % R = 0
    <3> DEFINE t == R
               c == p \div t
               d == c + 1
               b == p + t
               u == p % t
    <3>1. t \in Int /\ t > 0 /\ p \in Int /\ u = 0
      BY <2>2, <2>3, Lengths
    <3> HIDE DEF t, p, u
    <3>2. c \in Int /\ p = t * c + u
      BY <3>1, Division DEF u
    <3> HIDE DEF c
    <3>3. t * (c + 1) = t * c + t
      BY <3>1, <3>2
    <3>4. b = t * d + 0 /\ d \in Int /\ b \in Int /\ 0 \in 0 .. t - 1
      BY <3>1, <3>2, <3>3
    <3> HIDE DEF b, d
    <3> DEFINE z == 0
    <3>5. z \in 0 .. t - 1 /\ b = t * d + z
      BY <3>4
    <3> HIDE DEF z
    <3>6. b % t = z
      BY <3>1, <3>4, <3>5, Quotient
    <3> QED BY <3>6 DEF b, t, z
  <2> HIDE DEF p
  <2> QED BY <1>3, <2>1, <2>4, <2>5
<1> HIDE DEF H2
<1>9. FileInv(x, S2, H2, n)
  BY <1>4, <1>7, <1>8 DEF FileInv, R
<1> QED BY <1>9 DEF H2

LEMMA RecordIsInterrupted ==
    ASSUME KeyValueAssumption, NEW s, NEW S, NEW H, NEW n \in Nat, FileInv(s, S, H, n),
           NEW k \in KeyValue!Keys, NEW data \in Seq(KeyValue!Cells), Len(data) <= DataLength,
           Clean(data, Len(data), H), NEW x \in KeyValue!Interrupted(k, data, s),
           NEW S2, DOMAIN S2 = KeyValue!Keys, \A j \in KeyValue!Keys \ {k} : S2[j] = S[j],
           S2[k] = S[k] \cup {KeyValue!Extended(k, data)}
                        \cup IF KeyValue!Straddles(k, s) THEN {KeyValue!Restored(x)[k]} ELSE {}
    PROVE  FileInv(x, S2, H \cup KeyValue!HurtBy(k, s), n + 1)
<1> DEFINE p == KeyValue!PlaceOf(k, s)
           r == RecordOf(k, data)
           H2 == H \cup KeyValue!HurtBy(k, s)
<1>1. /\ s \in Seq(KeyValue!Cells) /\ H \subseteq KeyValue!Keys
      /\ \A j \in KeyValue!Keys \ H : Alone(j, s) /\ InPlace(j, s) /\ KeyValue!Restored(s)[j] \in S[j]
      /\ H = {} => HeadersOnly(s)
  BY DEF FileInv
<1>2. \A j \in KeyValue!Keys : S[j] \subseteq S2[j]
  OBVIOUS
<1>3. H2 \subseteq KeyValue!Keys /\ H \subseteq H2 /\ n + 1 # 0
  BY <1>1 DEF KeyValue!HurtBy, KeyValue!Incomplete
<1>4. CASE x = s
  <2> HIDE DEF H2
  <2>1. FileInv(x, S2, H2, n + 1)
    BY <1>1, <1>2, <1>3, <1>4 DEF FileInv
  <2> QED BY <2>1 DEF H2
<1>5. CASE \E m \in 1 .. R : IsPart(x, s, p, r, m) /\ (m \in {1, R} \/ (p + m) % PageLength = 0)
  <2>1. PICK m \in 1 .. R : IsPart(x, s, p, r, m) /\ (m \in {1, R} \/ (p + m) % PageLength = 0)
    BY <1>5
  <2>2. /\ H2 \subseteq KeyValue!Keys /\ x \in Seq(KeyValue!Cells)
        /\ H2 = {} => HeadersOnly(x)
        /\ \A j \in KeyValue!Keys \ H2 :
              Alone(j, x) /\ InPlace(j, x) /\ (j # k => KeyValue!Restored(x)[j] = KeyValue!Restored(s)[j])
        /\ k \notin H2 => p % R = 0 /\ Alone(k, s)
    <3> DEFINE G == H2
    <3>1. G = H \cup KeyValue!HurtBy(k, s) /\ IsPart(x, s, p, r, m)
      BY <2>1
    <3> HIDE DEF G
    <3>2. Harms(x, s, k, G)
      BY <3>1, PartIsAdded
    <3> QED BY <3>2 DEF G, Harms
  <2>3. ASSUME k \notin H2 PROVE KeyValue!Restored(x)[k] \in S2[k]
    <3>1. p % R = 0 /\ Alone(k, s) /\ KeyValue!Restored(s)[k] \in S[k]
      BY <1>1, <1>3, <2>2, <2>3
    <3>2. /\ m = 1 => KeyValue!Restored(x)[k] = KeyValue!Restored(s)[k]
          /\ m = R => KeyValue!Restored(x)[k] = KeyValue!Extended(k, data)
          /\ m > Width[k] => KeyValue!Restored(x)[k] \in {KeyValue!Restored(s)[k], KeyValue!Extended(k, data)}
      BY <1>1, <2>1, <3>1, ParameterIs
    <3>3. m # 1 /\ m # R /\ ~(m > Width[k]) => KeyValue!Straddles(k, s)
      <4>1. m # 1 /\ m # R /\ ~(m > Width[k]) => m <= Width[k] /\ (p + m) % PageLength = 0
        BY <2>1, Lengths
      <4> QED BY <1>1, <4>1, BoundaryStraddles
    <3> QED BY <3>1, <3>2, <3>3
  <2>4. ASSUME NEW j \in KeyValue!Keys \ H2 PROVE KeyValue!Restored(x)[j] \in S2[j]
    <3>1. CASE j = k
      BY <2>3, <2>4, <3>1
    <3>2. CASE j # k
      BY <1>1, <1>2, <1>3, <2>2, <2>4, <3>2
    <3> QED BY <3>1, <3>2
  <2> HIDE DEF H2
  <2>5. FileInv(x, S2, H2, n + 1)
    BY <1>3, <2>2, <2>4 DEF FileInv
  <2> QED BY <2>5 DEF H2
<1> QED BY <1>1, <1>4, <1>5, InterruptedIs

-----------------------------------------------------------------------------
(* The queue of notifications *)

LEMMA WithoutFirst ==
    ASSUME NEW q \in Seq(Nat), q # <<>>,
           NEW t, t = SubSeq(q, 1, KeyValue!NextNotification - 1) \o SubSeq(q,
               KeyValue!NextNotification + 1, Len(q))
    PROVE  /\ t \in Seq(Nat) /\ Len(t) = Len(q) - 1 /\ Len(q) \in Nat \ {0}
                  /\ q[KeyValue!NextNotification] = q[1]
           /\ \A i \in 1 .. Len(t) : t[i] = q[i + 1]
<1> DEFINE n == Len(q)
           e == SubSeq(q, 1, KeyValue!NextNotification - 1)
           u == SubSeq(q, KeyValue!NextNotification + 1, n)
<1>1. n \in Nat \ {0}
  BY EmptySeq
<1>2. KeyValue!NextNotification = 1
  BY DEF KeyValue!NextNotification
<1>3. e = <<>>
  BY <1>2, SubSeqEmpty
<1>4. u \in Seq(Nat) /\ Len(u) = n - 1 /\ \A i \in 1 .. n - 1 : u[i] = q[i + 1]
  <2> DEFINE a == 2
  <2>1. \A i \in a .. n : q[i] \in Nat
    BY ElementOfSeq
  <2>2. a \in Int /\ n \in Int
    BY <1>1
  <2>3. u = SubSeq(q, a, n)
    BY <1>2
  <2> DEFINE T == Nat
  <2>6. \A i \in a .. n : q[i] \in T
    BY <2>1
  <2> HIDE DEF a, n, u, T
  <2>4. /\ SubSeq(q, a, n) \in Seq(T)
        /\ Len(SubSeq(q, a, n)) = IF a <= n THEN n - a + 1 ELSE 0
        /\ \A i \in 1 .. n - a + 1 : SubSeq(q, a, n)[i] = q[a + i - 1]
    BY ONLY <2>2, <2>6, SubSeqProperties
  <2>5. a = 2
    BY DEF a
  <2> QED BY <1>1, <2>3, <2>4, <2>5 DEF T
<1>5. e \o u = u
  <2> HIDE DEF u
  <2> QED BY <1>3, <1>4, ConcatEmptySeq
<1> QED BY <1>1, <1>2, <1>4, <1>5

LEMMA NotifyStep ==
    ASSUME KeyValueAssumption, QueueInv, KeyValue!Notify
    PROVE  QueueInv'
<1>1. /\ noted' = noted + 1 /\ told' = told
      /\ notifications' = IF Len(notifications) < QueueLength THEN Append(notifications, noted')
                          ELSE notifications
  BY DEF KeyValue!Notify
<1>2. noted' \in Nat /\ told' \in Nat /\ told' <= noted'
  BY <1>1 DEF QueueInv
<1>3. CASE Len(notifications) < QueueLength
  <2> DEFINE q == notifications
             l == Len(q)
             q2 == Append(q, noted')
  <2>1. q \in Seq(Nat) /\ l \in Nat
    BY LenProperties DEF QueueInv
  <2>2. /\ q2 \in Seq(Nat) /\ Len(q2) = l + 1
        /\ \A i \in 1 .. l : q2[i] = q[i]
        /\ q2[l + 1] = noted'
    BY <1>2, <2>1, AppendProperties
  <2>3. notifications' = q2
    BY <1>1, <1>3
  <2>4. /\ \A i \in 1 .. l : told < q[i] /\ q[i] <= noted /\ q[i] \in Nat
        /\ \A i, j \in 1 .. l : i < j => q[i] < q[j]
    BY <2>1, ElementOfSeq DEF QueueInv
  <2>5. told \in Nat /\ noted \in Nat /\ told <= noted /\ QueueLength \in Nat /\ l < QueueLength
    BY <1>3 DEF QueueInv, KeyValueAssumption
  <2> HIDE DEF q2, q, l
  <2>6. \A i \in 1 .. l + 1 : told < q2[i] /\ q2[i] <= noted' /\ (i # l + 1 => q2[i] = q[i] /\ i \in 1 .. l)
    BY <1>1, <2>1, <2>2, <2>4, <2>5
  <2>7. \A i, j \in 1 .. l + 1 : i < j => q2[i] < q2[j]
    <3> SUFFICES ASSUME NEW i \in 1 .. l + 1, NEW j \in 1 .. l + 1, i < j PROVE q2[i] < q2[j]
      OBVIOUS
    <3>1. i # l + 1
      BY <2>1
    <3>2. q2[i] = q[i] /\ i \in 1 .. l
      BY <2>6, <3>1
    <3>3. CASE j = l + 1
      BY <1>1, <2>2, <2>4, <2>5, <3>2, <3>3
    <3>4. CASE j # l + 1
      BY <2>4, <2>6, <3>2, <3>4
    <3> QED BY <3>3, <3>4
  <2>8. l + 1 <= QueueLength
    BY <2>1, <2>5
  <2> QED BY <1>1, <1>2, <2>2, <2>3, <2>6, <2>7, <2>8 DEF QueueInv
<1>4. CASE ~(Len(notifications) < QueueLength)
  <2>1. notifications' = notifications
    BY <1>1, <1>4
  <2>2. \A i \in 1 .. Len(notifications) : notifications[i] \in Nat
    BY ElementOfSeq DEF QueueInv
  <2> QED BY <1>1, <1>2, <2>1, <2>2 DEF QueueInv
<1> QED BY <1>3, <1>4

LEMMA NotificationThreadStep ==
    ASSUME KeyValueAssumption, QueueInv, KeyValue!NotificationThread
    PROVE  QueueInv'
<1> DEFINE q == notifications
           t == SubSeq(q, 1, KeyValue!NextNotification - 1) \o SubSeq(q, KeyValue!NextNotification + 1, Len(q))
<1>1. q # <<>> /\ told' \in {told, q[KeyValue!NextNotification]} /\ notifications' = t /\ noted' = noted
  BY DEF KeyValue!NotificationThread
<1>2. q \in Seq(Nat)
  BY DEF QueueInv
<1>3. /\ t \in Seq(Nat) /\ Len(t) = Len(q) - 1 /\ Len(q) \in Nat \ {0} /\ q[KeyValue!NextNotification] = q[1]
      /\ \A i \in 1 .. Len(t) : t[i] = q[i + 1]
  BY <1>1, <1>2, WithoutFirst
<1> HIDE DEF t
<1> DEFINE l == Len(q)
<1>4. /\ \A i \in 1 .. l : told < q[i] /\ q[i] <= noted /\ q[i] \in Nat
      /\ \A i, j \in 1 .. l : i < j => q[i] < q[j]
      /\ told \in Nat /\ noted \in Nat /\ told <= noted /\ l <= QueueLength /\ QueueLength \in Nat
  BY <1>2, ElementOfSeq DEF QueueInv, KeyValueAssumption
<1> HIDE DEF q, l
<1>5. l \in Nat \ {0} /\ Len(t) = l - 1
  BY <1>3 DEF l
<1>6. told' \in Nat /\ told' <= noted /\ told' <= q[1] /\ q[1] \in Nat
  BY <1>1, <1>3, <1>4, <1>5
<1>7. ASSUME NEW i \in 1 .. Len(t) PROVE told' < t[i] /\ t[i] <= noted
  <2>1. i + 1 \in 1 .. l /\ 1 \in 1 .. l /\ 1 < i + 1
    BY <1>5
  <2>2. q[1] < q[i + 1] /\ q[i + 1] <= noted /\ t[i] = q[i + 1] /\ q[i + 1] \in Nat
    BY <1>3, <1>4, <2>1
  <2> QED BY <1>6, <2>2
<1>8. ASSUME NEW i \in 1 .. Len(t), NEW j \in 1 .. Len(t), i < j PROVE t[i] < t[j]
  <2>1. i + 1 \in 1 .. l /\ j + 1 \in 1 .. l /\ i + 1 < j + 1
    BY <1>5, <1>8
  <2> QED BY <1>3, <1>4, <2>1
<1>9. Len(t) <= QueueLength
  BY <1>4, <1>5
<1> QED BY <1>1, <1>3, <1>4, <1>6, <1>7, <1>8, <1>9 DEF QueueInv

LEMMA QueueStep ==
    ASSUME KeyValueAssumption, QueueInv, [KeyValue!Next]_keyValueVars
    PROVE  QueueInv'
<1>1. CASE noted' = noted /\ told' = told /\ notifications' = notifications
  BY <1>1 DEF QueueInv
<1>2. CASE KeyValue!Outage
  <2>1. notifications' = <<>> /\ told' = told /\ noted' = noted
    BY <1>2 DEF KeyValue!Outage
  <2>2. <<>> \in Seq(Nat) /\ Len(<<>>) = 0
    BY EmptySeq
  <2> QED BY <2>1, <2>2 DEF QueueInv, KeyValueAssumption
<1>3. \/ noted' = noted /\ told' = told /\ notifications' = notifications
      \/ KeyValue!Outage \/ KeyValue!Notify \/ KeyValue!NotificationThread
  BY DEF KeyValue!Next, keyValueVars, KeyValue!Start, KeyValue!Set, KeyValue!Change, KeyValue!Persist,
             KeyValue!OutageInSet, KeyValue!FileIsLost, KeyValue!OutageAtRest
<1> QED BY <1>1, <1>2, <1>3, NotifyStep, NotificationThreadStep

-----------------------------------------------------------------------------
(* The invariant *)

LEMMA InvIs ==
    KeyValueInv <=> KeyValueTypes /\ QueueInv /\ MemoryInv /\ FileInv(kvData, saved, hurt, outages)
BY DEF KeyValueInv

LEMMA EmptyFile ==
    ASSUME KeyValueAssumption, NEW S, S = [k \in KeyValue!Keys |-> {KeyValue!Zeroes(Width[k])}], NEW n
    PROVE  FileInv(<<>>, S, {}, n)
<1> DEFINE s == <<>>
           H == {}
<1>1. s \in Seq(KeyValue!Cells) /\ Len(s) = 0
  BY EmptySeq
<1> HIDE DEF s
<1>2. KeyValue!Slots(s) = {}
  BY <1>1 DEF KeyValue!Slots
<1>3. \A k \in KeyValue!Keys : KeyValue!RecordsOf(k, s) = {}
  BY <1>2 DEF KeyValue!RecordsOf
<1>4. \A k \in KeyValue!Keys : KeyValue!Restored(s)[k] \in S[k]
  <2>1. \A k \in KeyValue!Keys : WholeOf(k, s) = {}
    BY <1>3 DEF WholeOf
  <2> QED BY <1>1, <2>1, RestoredIs
<1>5. Len(s) % R = 0
  <2> DEFINE z == 0
             t == R
  <2>1. z \in Int /\ t \in Int /\ t > 0 /\ z = t * z + z /\ z \in 0 .. t - 1
    <3>1. t \in Int /\ t > 0
      BY Lengths
    <3>2. t * 0 = 0
      BY <3>1
    <3> QED BY <3>1, <3>2
  <2> HIDE DEF z, t
  <2>2. z % t = z
    BY <2>1, Quotient
  <2> QED BY <1>1, <2>2 DEF z, t
<1>6. HeadersOnly(s) /\ \A k \in KeyValue!Keys : Alone(k, s) /\ InPlace(k, s)
  BY <1>1, <1>2, <1>3 DEF HeadersOnly, Alone, InPlace
<1>7. H \subseteq KeyValue!Keys /\ H = {}
  OBVIOUS
<1> HIDE DEF H
<1>8. FileInv(s, S, H, n)
  BY <1>1, <1>4, <1>5, <1>6, <1>7 DEF FileInv, R
<1> QED BY <1>8 DEF s, H

LEMMA OverlayOfMemory ==
    ASSUME KeyValueAssumption, NEW k \in KeyValue!Keys, NEW prior \in [1 .. Width[k] -> KeyValue!Cells],
           NEW data \in Seq(KeyValue!Cells), Len(data) <= Width[k],
           NEW H, Clean(prior, Width[k], H), Clean(data, Len(data), H)
    PROVE  /\ KeyValue!Overlay(prior, 0, data) \in [1 .. Width[k] -> KeyValue!Cells]
           /\ Clean(KeyValue!Overlay(prior, 0, data), Width[k], H)
<1> DEFINE w == Width[k]
           y == KeyValue!Overlay(prior, 0, data)
<1>1. w \in Nat /\ Len(data) \in Nat
  BY Lengths, LenProperties
<1> HIDE DEF w
<1>2. prior \in [1 .. w -> KeyValue!Cells]
  BY DEF w
<1>3. prior \in Seq(KeyValue!Cells) /\ Len(prior) = w
  BY <1>1, <1>2
<1>4. 0 \in 0 .. Len(prior)
  BY <1>1, <1>3
<1>5. Laid(y, prior, 0, data)
  <2> DEFINE z == 0
  <2>1. z \in 0 .. Len(prior)
    BY <1>4
  <2> HIDE DEF z
  <2>2. Laid(KeyValue!Overlay(prior, z, data), prior, z, data)
    BY <1>3, <2>1, OverlayIs
  <2> QED BY <2>2 DEF z
<1> HIDE DEF y
<1>6. y \in Seq(KeyValue!Cells) /\ Len(y) = w
  <2>1. y \in Seq(KeyValue!Cells) /\ Len(y) = IF 0 + Len(data) > Len(prior) THEN 0 + Len(data) ELSE Len(prior)
    BY <1>5 DEF Laid
  <2> QED BY <1>1, <1>3, <2>1 DEF w
<1>7. y \in [1 .. w -> KeyValue!Cells]
  BY <1>6, LenProperties, ElementOfSeq
<1>8. Clean(y, w, H)
  <2> SUFFICES ASSUME NEW i \in 1 .. w PROVE y[i] \notin KeyValue!Keys \ H
    BY DEF Clean
  <2>1. y[i] = IF i \in 0 + 1 .. 0 + Len(data) THEN data[i - 0] ELSE prior[i]
    BY <1>5, <1>6 DEF Laid
  <2>2. y[i] = IF i \in 1 .. Len(data) THEN data[i] ELSE prior[i]
    BY <1>1, <2>1 DEF w
  <2> QED BY <2>2 DEF Clean, w
<1> QED BY <1>7, <1>8 DEF y, w

LEMMA DataIs ==
    ASSUME KeyValueAssumption, NEW k \in KeyValue!Keys, NEW data \in KeyValue!ValuesOf(k)
    PROVE  /\ data \in Seq(KeyValue!Cells) /\ Len(data) <= Width[k] /\ Len(data) <= DataLength
           /\ \A H : Clean(data, Len(data), H)
<1>1. PICK n \in 1 .. Width[k] : data \in [1 .. n -> CellValues]
  BY DEF KeyValue!ValuesOf
<1>2. n \in Nat /\ n <= Width[k] /\ n <= DataLength
  BY Lengths
<1>3. data \in [1 .. n -> KeyValue!Cells]
  BY <1>1 DEF KeyValue!Cells
<1>4. data \in Seq(KeyValue!Cells) /\ Len(data) = n
  BY <1>2, <1>3
<1>5. \A i \in 1 .. n : data[i] \notin KeyValue!Keys
  BY <1>1 DEF KeyValueAssumption
<1> QED BY <1>2, <1>4, <1>5 DEF Clean

LEMMA MemoryIs ==
    ASSUME KeyValueAssumption, KeyValueTypes, NEW k \in KeyValue!Keys
    PROVE  /\ memory[k] \in Seq(KeyValue!Cells) /\ Len(memory[k]) <= DataLength
           /\ Len(memory[k]) = Width[k]
<1> DEFINE w == Width[k]
           v == memory[k]
<1>1. v \in [1 .. w -> KeyValue!Cells] /\ w \in Nat /\ w <= DataLength
  BY Lengths DEF KeyValueTypes
<1> HIDE DEF v, w
<1>2. v \in Seq(KeyValue!Cells) /\ Len(v) = w
  BY <1>1
<1> QED BY <1>1, <1>2 DEF v, w

\* What a restart gives a parameter has no header of one that is not hurt in it.
LEMMA RestoredIsClean ==
    ASSUME KeyValueAssumption, NEW s, NEW S, NEW H, NEW n \in Nat, FileInv(s, S, H, n),
           NEW k \in KeyValue!Keys
    PROVE  Clean(KeyValue!Restored(s)[k], Width[k], H)
<1>1. s \in Seq(KeyValue!Cells) /\ \A j \in KeyValue!Keys \ H : InPlace(j, s)
  BY DEF FileInv
<1>2. CASE WholeOf(k, s) = {}
  <2>1. KeyValue!Restored(s)[k] = KeyValue!Zeroes(Width[k]) /\ KeyValue!Zero \notin KeyValue!Keys
    BY <1>1, <1>2, RestoredIs DEF KeyValueAssumption
  <2> QED BY <2>1 DEF Clean, KeyValue!Zeroes
<1>3. CASE WholeOf(k, s) # {}
  <2>1. PICK q \in WholeOf(k, s) : KeyValue!Restored(s)[k] = ValueAt(s, q, Width[k])
    BY <1>1, <1>3, RestoredIs
  <2> DEFINE v == ValueAt(s, q, Width[k])
             w == Width[k]
  <2>2. /\ q \in Nat /\ w \in Nat /\ q + 1 + w <= Len(s) /\ Len(s) \in Nat
        /\ \A i \in 1 .. w : v[i] = s[q + 1 + i]
    BY <1>1, WholeIs, LenProperties
  <2>3. q % R = 0
    BY DEF WholeOf, KeyValue!RecordsOf, KeyValue!Slots, R
  <2>4. w < R /\ R \in Int /\ R > 0
    BY Lengths
  <2> HIDE DEF v, w
  <2>5. ASSUME NEW i \in 1 .. w PROVE v[i] \notin KeyValue!Keys \ H
    <3>1. SUFFICES ASSUME v[i] \in KeyValue!Keys \ H PROVE FALSE
      OBVIOUS
    <3> DEFINE c == q + 1 + i
               b == q + i
    <3>2. c \in 1 .. Len(s) /\ c - 1 = b /\ s[c] = v[i]
      BY <2>2
    <3>3. b % R = 0
      BY <1>1, <3>1, <3>2 DEF InPlace, R
    <3>4. q < b /\ b < q + R /\ b \in Int /\ q \in Int
      BY <2>2, <2>4
    <3> HIDE DEF b, c
    <3>5. q + R <= b
      BY ONLY <2>3, <2>4, <3>3, <3>4, Apart, Zenon
    <3> QED BY <2>4, <3>4, <3>5
  <2> QED BY <2>1, <2>5 DEF Clean, v, w
<1> QED BY <1>2, <1>3

LEMMA PersistSetStep ==
    ASSUME KeyValueAssumption, KeyValueInv, NEW k \in KeyValue!Keys,
           NEW data \in Seq(KeyValue!Cells), Len(data) <= DataLength, Clean(data, Len(data), hurt),
           KeyValue!PersistSet(k, data), outages' = outages
    PROVE  FileInv(kvData', saved', hurt', outages') /\ hurt \subseteq hurt'
<1>1. FileInv(kvData, saved, hurt, outages) /\ DOMAIN saved = KeyValue!Keys /\ outages \in Nat
  BY InvIs DEF KeyValueTypes
<1>2. CASE UNCHANGED <<kvData, saved, hurt>>
  BY <1>1, <1>2
<1>3. CASE /\ kvData' = KeyValue!RecordIn(k, data, kvData)
           /\ saved' = [saved EXCEPT ![k] = {KeyValue!Extended(k, data)}]
           /\ hurt' = hurt \cup KeyValue!HurtBy(k, kvData)
  <2>1. /\ DOMAIN saved' = KeyValue!Keys /\ \A j \in KeyValue!Keys \ {k} : saved'[j] = saved[j]
        /\ saved'[k] = {KeyValue!Extended(k, data)}
    BY <1>1, <1>3
  <2> DEFINE x == kvData'
             S2 == saved'
  <2>2. /\ DOMAIN S2 = KeyValue!Keys /\ \A j \in KeyValue!Keys \ {k} : S2[j] = saved[j]
        /\ S2[k] = {KeyValue!Extended(k, data)} /\ x = KeyValue!RecordIn(k, data, kvData)
    BY <1>3, <2>1
  <2> HIDE DEF x, S2
  <2>3. FileInv(x, S2, hurt \cup KeyValue!HurtBy(k, kvData), outages)
    BY <1>1, <2>2, RecordIsAdded
  <2> QED BY <1>3, <2>3 DEF x, S2
<1> QED BY <1>2, <1>3 DEF KeyValue!PersistSet

LEMMA FileStep ==
    ASSUME KeyValueAssumption, KeyValueInv, [KeyValue!Next]_keyValueVars
    PROVE  KeyValueTypes' /\ MemoryInv' /\ FileInv(kvData', saved', hurt', outages')
<1>1. /\ FileInv(kvData, saved, hurt, outages) /\ KeyValueTypes /\ DOMAIN saved = KeyValue!Keys
      /\ outages \in Nat /\ DOMAIN memory = KeyValue!Keys /\ kvData \in Seq(KeyValue!Cells)
      /\ \A k \in KeyValue!Keys : memory[k] \in [1 .. Width[k] -> KeyValue!Cells]
      /\ kvMode \in {"off", "normal", "safe"} /\ hurt \subseteq KeyValue!Keys
      /\ kvMode # "off" => \A k \in KeyValue!Keys : Clean(memory[k], Width[k], hurt)
  BY InvIs DEF KeyValueTypes, MemoryInv
<1> DEFINE Good == /\ DOMAIN memory' = KeyValue!Keys
                   /\ \A k \in KeyValue!Keys : memory'[k] \in [1 .. Width[k] -> KeyValue!Cells]
                   /\ kvMode' \in {"off", "normal", "safe"} /\ outages' \in Nat
                   /\ kvMode' # "off" => \A k \in KeyValue!Keys : Clean(memory'[k], Width[k], hurt')
           File == FileInv(kvData', saved', hurt', outages')
<1>2. SUFFICES Good /\ File
  <2>1. File => /\ kvData' \in Seq(KeyValue!Cells) /\ hurt' \subseteq KeyValue!Keys
                /\ DOMAIN saved' = KeyValue!Keys
    BY DEF FileInv
  <2> QED BY <2>1 DEF KeyValueTypes, MemoryInv
<1> HIDE DEF File
<1>3. CASE UNCHANGED keyValueVars
  BY <1>1, <1>3 DEF keyValueVars, File
<1>4. CASE UNCHANGED <<kvData, memory, kvMode, saved, hurt, outages>>
  BY <1>1, <1>4 DEF File
<1>5. ASSUME NEW k \in KeyValue!Keys, NEW data \in KeyValue!ValuesOf(k), kvMode # "off",
             UNCHANGED <<kvMode, outages>>, hurt \subseteq hurt',
             memory' = [memory EXCEPT ![k] = KeyValue!Overlay(@, 0, data)]
      PROVE  Good
  <2>1. data \in Seq(KeyValue!Cells) /\ Len(data) <= Width[k] /\ Clean(data, Len(data), hurt)
    BY DataIs
  <2>2. /\ KeyValue!Overlay(memory[k], 0, data) \in [1 .. Width[k] -> KeyValue!Cells]
        /\ Clean(KeyValue!Overlay(memory[k], 0, data), Width[k], hurt)
    BY <1>1, <1>5, <2>1, OverlayOfMemory
  <2>3. DOMAIN memory' = KeyValue!Keys /\ memory'[k] = KeyValue!Overlay(memory[k], 0, data)
        /\ \A j \in KeyValue!Keys \ {k} : memory'[j] = memory[j]
    BY <1>1, <1>5
  <2>4. \A j \in KeyValue!Keys : Clean(memory'[j], Width[j], hurt)
    BY <1>1, <1>5, <2>2, <2>3
  <2>5. \A j \in KeyValue!Keys : Clean(memory'[j], Width[j], hurt')
    BY <1>5, <2>4 DEF Clean
  <2> QED BY <1>1, <1>5, <2>2, <2>3, <2>5
<1>6. ASSUME NEW mode \in {"normal", "safe"}, KeyValue!Start(mode) PROVE Good /\ File
  <2>1. /\ kvMode' = mode /\ UNCHANGED <<kvData, saved, hurt, outages>>
        /\ memory' = IF mode = "safe" THEN [k \in KeyValue!Keys |-> KeyValue!Zeroes(Width[k])] ELSE KeyValue!Restored(kvData)
    BY <1>6 DEF KeyValue!Start
  <2>2. DOMAIN KeyValue!Restored(kvData) = KeyValue!Keys
    BY DEF KeyValue!Restored
  <2>3. \A k \in KeyValue!Keys : /\ KeyValue!Zeroes(Width[k]) \in [1 .. Width[k] -> KeyValue!Cells]
                                 /\ Clean(KeyValue!Zeroes(Width[k]), Width[k], hurt)
    BY DEF KeyValue!Zeroes, KeyValue!Cells, Clean, KeyValueAssumption
  <2>4. \A k \in KeyValue!Keys : /\ KeyValue!Restored(kvData)[k] \in [1 .. Width[k] -> KeyValue!Cells]
                                 /\ Clean(KeyValue!Restored(kvData)[k], Width[k], hurt)
    BY <1>1, RestoredType, RestoredIsClean
  <2>5. \A k \in KeyValue!Keys : /\ memory'[k] \in [1 .. Width[k] -> KeyValue!Cells]
                                 /\ Clean(memory'[k], Width[k], hurt)
    BY <2>1, <2>3, <2>4
  <2> QED BY <1>1, <2>1, <2>2, <2>5 DEF File
<1>7. ASSUME NEW k \in KeyValue!Keys, NEW data \in KeyValue!ValuesOf(k), KeyValue!Set(k, data)
      PROVE  Good /\ File
  <2>1. /\ KeyValue!PersistSet(k, data) /\ UNCHANGED <<kvMode, outages>> /\ kvMode # "off"
        /\ memory' = [memory EXCEPT ![k] = KeyValue!Overlay(@, 0, data)]
    BY <1>7 DEF KeyValue!Set
  <2>2. data \in Seq(KeyValue!Cells) /\ Len(data) <= DataLength /\ Clean(data, Len(data), hurt)
    BY DataIs
  <2>3. File /\ hurt \subseteq hurt'
    BY <2>1, <2>2, PersistSetStep DEF File
  <2> QED BY <1>5, <2>1, <2>3
<1>8. ASSUME NEW k \in KeyValue!Keys, NEW data \in KeyValue!ValuesOf(k), KeyValue!Change(k, data)
      PROVE  Good /\ File
  <2>1. /\ UNCHANGED <<kvData, saved, hurt, kvMode, outages>> /\ kvMode # "off"
        /\ memory' = [memory EXCEPT ![k] = KeyValue!Overlay(@, 0, data)]
    BY <1>8 DEF KeyValue!Change
  <2> QED BY <1>1, <1>5, <2>1 DEF File
<1>9. ASSUME NEW k \in KeyValue!Keys, KeyValue!Persist(k) PROVE Good /\ File
  <2>1. KeyValue!PersistSet(k, memory[k]) /\ UNCHANGED <<memory, kvMode, outages>> /\ kvMode # "off"
    BY <1>9 DEF KeyValue!Persist
  <2>2. /\ memory[k] \in Seq(KeyValue!Cells) /\ Len(memory[k]) <= DataLength
        /\ Clean(memory[k], Len(memory[k]), hurt)
    BY <1>1, <2>1, MemoryIs
  <2>3. File /\ hurt \subseteq hurt'
    BY <2>1, <2>2, PersistSetStep DEF File
  <2>4. \A j \in KeyValue!Keys : Clean(memory[j], Width[j], hurt')
    BY <1>1, <2>1, <2>3 DEF Clean
  <2> QED BY <1>1, <2>1, <2>3, <2>4
<1>10. ASSUME KeyValue!Outage PROVE Good /\ outages' = outages + 1
  BY <1>1, <1>10 DEF KeyValue!Outage
<1>11. ASSUME NEW k \in KeyValue!Keys, NEW data \in KeyValue!ValuesOf(k), KeyValue!OutageInSet(k, data)
       PROVE  Good /\ File
  <2>1. /\ kvData' \in KeyValue!Interrupted(k, data, kvData)
        /\ saved' = [saved EXCEPT ![k] = @ \cup {KeyValue!Extended(k, data)}
                        \cup IF KeyValue!Straddles(k, kvData) THEN {KeyValue!Restored(kvData')[k]} ELSE {}]
        /\ hurt' = hurt \cup KeyValue!HurtBy(k, kvData) /\ KeyValue!Outage
    BY <1>11 DEF KeyValue!OutageInSet
  <2>2. data \in Seq(KeyValue!Cells) /\ Len(data) <= DataLength /\ Clean(data, Len(data), hurt)
    BY DataIs
  <2> DEFINE x == kvData'
             S2 == saved'
  <2>3. /\ DOMAIN S2 = KeyValue!Keys /\ \A j \in KeyValue!Keys \ {k} : S2[j] = saved[j]
        /\ S2[k] = saved[k] \cup {KeyValue!Extended(k, data)}
                        \cup IF KeyValue!Straddles(k, kvData) THEN {KeyValue!Restored(x)[k]} ELSE {}
        /\ x \in KeyValue!Interrupted(k, data, kvData)
    BY <1>1, <2>1
  <2> HIDE DEF x, S2
  <2>4. FileInv(x, S2, hurt \cup KeyValue!HurtBy(k, kvData), outages + 1)
    BY <1>1, <2>2, <2>3, RecordIsInterrupted
  <2>5. File
    BY <1>10, <2>1, <2>4 DEF x, S2, File
  <2> QED BY <1>10, <2>1, <2>5
<1>12. ASSUME NEW k \in KeyValue!Keys, KeyValue!FileIsLost(k) PROVE Good /\ File
  <2>1. /\ KeyValue!Outage /\ kvData' = <<>> /\ hurt' = {}
        /\ saved' = [j \in KeyValue!Keys |-> {KeyValue!Zeroes(Width[j])}]
    BY <1>12 DEF KeyValue!FileIsLost
  <2>2. FileInv(<<>>, saved', {}, outages')
    BY <1>1, <1>10, <2>1, EmptyFile
  <2> QED BY <1>10, <2>1, <2>2 DEF File
<1>13. ASSUME KeyValue!OutageAtRest PROVE Good /\ File
  <2>1. KeyValue!Outage /\ UNCHANGED <<kvData, saved, hurt>>
    BY <1>13 DEF KeyValue!OutageAtRest
  <2>2. FileInv(kvData, saved, hurt, outages + 1)
    BY <1>1 DEF FileInv
  <2> QED BY <1>10, <2>1, <2>2 DEF File
<1>14. CASE KeyValue!Notify \/ KeyValue!NotificationThread
  BY <1>4, <1>14 DEF KeyValue!Notify, KeyValue!NotificationThread
<1> QED BY <1>3, <1>6, <1>7, <1>8, <1>9, <1>11, <1>12, <1>13, <1>14 DEF KeyValue!Next

LEMMA KeyValueStep ==
    ASSUME KeyValueAssumption, KeyValueInv, [KeyValue!Next]_keyValueVars
    PROVE  KeyValueInv'
<1>1. QueueInv /\ KeyValueTypes
  BY InvIs
<1>2. QueueInv' /\ KeyValueTypes' /\ MemoryInv' /\ FileInv(kvData', saved', hurt', outages')
  BY <1>1, QueueStep, FileStep
<1> QED BY <1>2 DEF KeyValueInv, FileInv, R

LEMMA KeyValueStarts == KeyValueAssumption /\ KeyValue!Init => KeyValueInv
<1> SUFFICES ASSUME KeyValueAssumption, KeyValue!Init PROVE KeyValueInv
  OBVIOUS
<1>1. /\ kvData = <<>> /\ memory = [k \in KeyValue!Keys |-> KeyValue!Zeroes(Width[k])] /\ kvMode = "off"
      /\ notifications = <<>> /\ saved = [k \in KeyValue!Keys |-> {KeyValue!Zeroes(Width[k])}]
      /\ hurt = {} /\ noted = 0 /\ told = 0 /\ outages = 0
  BY DEF KeyValue!Init
<1>2. QueueInv
  <2>1. <<>> \in Seq(Nat) /\ Len(<<>>) = 0
    BY EmptySeq
  <2> QED BY <1>1, <2>1 DEF QueueInv, KeyValueAssumption
<1>3. FileInv(kvData, saved, hurt, outages)
  BY <1>1, EmptyFile
<1>4. KeyValueTypes
  <2>1. \A k \in KeyValue!Keys : KeyValue!Zeroes(Width[k]) \in [1 .. Width[k] -> KeyValue!Cells]
    BY DEF KeyValue!Zeroes, KeyValue!Cells
  <2>2. kvData \in Seq(KeyValue!Cells)
    BY <1>3 DEF FileInv
  <2> QED BY <1>1, <2>1, <2>2 DEF KeyValueTypes
<1> QED BY <1>1, <1>2, <1>3, <1>4, InvIs DEF MemoryInv

\* What the invariant gives.
LEMMA KeyValuesAreSound == KeyValueAssumption /\ KeyValueInv => KeyValue!StorageSound
<1> SUFFICES ASSUME KeyValueAssumption, KeyValueInv PROVE KeyValue!StorageSound
  OBVIOUS
<1>1. KeyValueTypes /\ QueueInv /\ FileInv(kvData, saved, hurt, outages)
  BY InvIs
<1>2. KeyValue!TypeOK
  <2>1. \A i \in DOMAIN kvData : kvData[i] \in KeyValue!Cells
    <3>1. DOMAIN kvData = 1 .. Len(kvData) /\ kvData \in Seq(KeyValue!Cells)
      BY <1>1, LenProperties DEF KeyValueTypes
    <3> QED BY <3>1, ElementOfSeq
  <2> QED BY <1>1, <2>1 DEF KeyValue!TypeOK, KeyValueTypes, QueueInv
<1>3. KeyValue!RecordsWhole
  <2>1. ASSUME NEW k \in KeyValue!Keys \ hurt PROVE Cardinality(KeyValue!RecordsOf(k, kvData)) <= 1
    <3> DEFINE S == KeyValue!RecordsOf(k, kvData)
    <3>1. \A p, q \in S : p = q
      BY <1>1, <2>1 DEF FileInv, Alone
    <3>2. CASE S = {}
      BY <3>2, FS_EmptySet
    <3>3. CASE S # {}
      <4>1. PICK p \in S : TRUE
        BY <3>3
      <4>2. S = {p}
        BY <3>1, <4>1
      <4> HIDE DEF S
      <4>3. Cardinality(S) = 1
        BY <4>2, FS_Singleton
      <4> QED BY <4>3 DEF S
    <3> QED BY <3>2, <3>3
  <2>2. \A k \in KeyValue!Keys : KeyValue!Cardinality(KeyValue!RecordsOf(k, kvData))
                                   = Cardinality(KeyValue!RecordsOf(k, kvData))
    BY SameSize
  <2>3. hurt = {} => \A p \in KeyValue!Slots(kvData) : kvData[p + 1] \in KeyValue!Keys
    BY <1>1 DEF FileInv, HeadersOnly
  <2>4. outages = 0 => hurt = {} /\ Len(kvData) % KeyValue!RecordLength = 0
    BY <1>1 DEF FileInv, R
  <2> QED BY <2>1, <2>2, <2>3, <2>4 DEF KeyValue!RecordsWhole
<1>4. KeyValue!ValuesSurvive
  BY <1>1 DEF KeyValue!ValuesSurvive, FileInv
<1>5. KeyValue!NotificationsInOrder
  <2>1. DOMAIN notifications = 1 .. Len(notifications)
    BY <1>1, LenProperties DEF QueueInv
  <2> QED BY <1>1, <2>1 DEF KeyValue!NotificationsInOrder, QueueInv
<1> QED BY <1>2, <1>3, <1>4, <1>5 DEF KeyValue!StorageSound

-----------------------------------------------------------------------------
(* The invariant of TFTP *)

\* Where a block of a file begins.
At(k) == (k - 1) * BlockLength

Base == IF old = Tftp!Absent THEN <<>> ELSE old
\* The first k units of a content are those of the upload, and the others are as before.
IsMix(content, k) ==
    /\ Len(content) = (IF k < Len(Base) THEN Len(Base) ELSE k)
    /\ \A i \in 1 .. Len(content) : content[i] = IF i <= k THEN new[i] ELSE Base[i]
Mixed(unit, j) == \E content \in {Base, new} : j <= Len(content) /\ unit = content[j]

\* A download may find no file.
Excused == old = Tftp!Absent \/ new = <<>>
Deleted == new = <<>> /\ file \in {Tftp!Absent, <<>>}

ThreadRecords ==
    [pc : {"none", "start", "send", "wait", "gone"}, kind : {"none", "read", "write"},
     next : Nat, pos : Nat, read : Int]
ClientRecords ==
    [pc : {"idle", "active", "done", "failed"}, next : Nat, from : {0} \cup Transfers,
     resends : 0 .. Resends, got : Seq(Tftp!Units)]

TftpTypes ==
    /\ transfer \in [Transfers -> ThreadRecords] /\ up \in ClientRecords /\ down \in ClientRecords
    /\ unlucky \in Nat /\ troubles \in Nat /\ unlucky + troubles <= MaxSetbacks
    /\ old \in Seq(Tftp!Units) /\ new \in Seq(Tftp!Units \ {"absent"}) /\ file \in Seq(Tftp!Units)

ContentInv ==
    /\ file # Tftp!Absent => \A i \in 1 .. Len(file) : Mixed(file[i], i)
    /\ file = Tftp!Absent => Excused
    /\ up.from = 0 => file \in {old, Base}
    /\ up.from = 0 /\ (\E t \in Transfers : transfer[t].kind = "write" /\ transfer[t].pc = "wait") =>
          file = Base

WriterInv(t) ==
    /\ transfer[t].pc \in {"start", "wait", "gone"} /\ up.pc # "idle"
    /\ transfer[t].pc = "wait" =>
          /\ transfer[t].next >= 1 /\ transfer[t].pos = At(transfer[t].next)
          /\ t # up.from => transfer[t].next = 1
    /\ transfer[t].pc = "gone" /\ troubles = 0 => up.from # 0 \/ up.pc \in {"done", "failed"}

ReaderInv(t) ==
    /\ transfer[t].pc # "none" /\ down.pc # "idle"
    /\ transfer[t].pc \in {"send", "wait"} =>
          /\ transfer[t].next \in 1 .. down.next /\ (t # down.from => transfer[t].next = 1)
          /\ file = Tftp!Absent => Deleted /\ shown = Tftp!Changed
          /\ ~Excused => transfer[t].pos <= Len(file)
    /\ transfer[t].pc = "send" => transfer[t].pos = At(transfer[t].next) \/ Deleted
    /\ transfer[t].pc = "wait" =>
          IF transfer[t].read = -1 THEN Deleted
          ELSE /\ transfer[t].read \in 0 .. BlockLength /\ transfer[t].read <= transfer[t].pos
               /\ transfer[t].pos - transfer[t].read = At(transfer[t].next) \/ Deleted
    /\ transfer[t].pc = "gone" /\ troubles = 0 /\ ~Excused => Tftp!Left(t)

ThreadInv(t) ==
    /\ transfer[t].pc = "none" <=> transfer[t].kind = "none"
    /\ transfer[t].pc \in {"none", "start"} => transfer[t].pos = 0
    /\ transfer[t].kind = "write" => WriterInv(t)
    /\ transfer[t].kind = "read" => ReaderInv(t)

\* The upload is in the file, and no thread will write to it.
Settled == up.from # 0 /\ transfer[up.from].pc = "gone" /\ Tftp!IsUploaded

UpInv ==
    /\ up.from = 0 <=> up.next = 0
    /\ up.pc = "idle" => up.from = 0 /\ up.resends = Resends
    /\ up.from # 0 =>
         /\ transfer[up.from].kind = "write" /\ transfer[up.from].pc \in {"wait", "gone"}
         /\ At(up.next) <= Len(new)
         /\ transfer[up.from].pc = "wait" =>
               /\ transfer[up.from].next \in {up.next, up.next + 1}
               /\ transfer[up.from].pos <= Len(new) /\ IsMix(file, transfer[up.from].pos)
         /\ transfer[up.from].pc = "gone" /\ troubles = 0 /\ up.pc = "active" => Tftp!IsUploaded
    /\ up.pc = "done" => Settled
    /\ up.pc = "failed" /\ troubles = 0 => Settled

GotInv ==
    /\ down.pc # "done" => Len(down.got) = At(down.next)
    /\ \A i \in 1 .. Len(down.got) : Mixed(down.got[i], i)
    /\ shown \in {file, Tftp!Changed} /\ (down.pc = "idle" => shown = file)
    /\ shown # Tftp!Changed =>
          IF file = Tftp!Absent THEN down.got = <<>> /\ down.pc # "done"
          ELSE /\ Len(down.got) <= Len(file)
               /\ \A i \in 1 .. Len(down.got) : down.got[i] = file[i]
               /\ down.pc = "done" => Len(down.got) = Len(file)
    /\ ~Excused => Len(down.got) <= Len(file)

DownInv ==
    /\ down.next >= 1 /\ (down.from = 0 <=> down.next = 1)
    /\ down.pc = "idle" => down.from = 0 /\ down.resends = Resends
    /\ down.from # 0 => transfer[down.from].kind = "read" /\ transfer[down.from].pc # "start"
    /\ troubles = 0 /\ ~Excused /\ down.pc = "active" /\ down.from # 0 =>
          /\ transfer[down.from].pc \in {"send", "wait"}
          /\ transfer[down.from].next \in {down.next - 1, down.next}
          /\ transfer[down.from].pc = "wait" /\ transfer[down.from].next = down.next - 1
                => transfer[down.from].read = BlockLength
    /\ down.pc = "failed" /\ troubles = 0 => Excused

UpAckInv(msg) ==
    /\ msg.socket \in Transfers /\ msg.block \in 0 .. up.next
    /\ transfer[msg.socket].kind = "write" /\ transfer[msg.socket].pc # "start"
    /\ msg.block # 0 => msg.socket = up.from
    /\ transfer[msg.socket].pc = "wait" => msg.block < transfer[msg.socket].next
    /\ msg.block # 0 /\ Len(new) < At(msg.block + 1) => Tftp!IsUploaded
DownDataInv(msg) ==
    /\ msg.socket \in Transfers /\ msg.block \in 1 .. down.next
    /\ transfer[msg.socket].kind = "read" /\ transfer[msg.socket].pc # "start"
    /\ transfer[msg.socket].pc \in {"send", "wait"} => msg.block <= transfer[msg.socket].next
    /\ msg.data \in Seq(Tftp!Units) /\ Len(msg.data) <= BlockLength
    /\ \A i \in 1 .. Len(msg.data) : Mixed(msg.data[i], At(msg.block) + i)
    /\ shown # Tftp!Changed => file # Tftp!Absent /\ msg.data = Tftp!Block(file, msg.block)
    /\ ~Excused =>
          /\ At(msg.block) + Len(msg.data) <= Len(file)
          /\ transfer[msg.socket].pc = "wait" /\ msg.block = transfer[msg.socket].next
                => Len(msg.data) <= transfer[msg.socket].read
ErrorInv(msg) ==
    /\ msg.socket \in Transfers /\ transfer[msg.socket].pc = "gone"
    /\ msg.client = Tftp!ClientOf(transfer[msg.socket].kind)
    /\ troubles = 0 => Tftp!Left(msg.socket) \/ (msg.client = "down" /\ Excused)

MsgInv(msg) ==
    \/ msg = Tftp!Message("up", 0, "write", 0, <<>>) /\ up.pc # "idle"
    \/ msg = Tftp!Message("down", 0, "read", 0, <<>>) /\ down.pc # "idle"
    \/ /\ up.from # 0 /\ msg.block \in 1 .. up.next
       /\ msg = Tftp!Message("up", up.from, "data", msg.block, Tftp!Block(new, msg.block))
    \/ /\ down.from # 0 /\ msg.block \in 1 .. down.next - 1
       /\ msg = Tftp!Message("down", down.from, "ack", msg.block, <<>>)
    \/ msg = Tftp!Message("up", msg.socket, "ack", msg.block, <<>>) /\ UpAckInv(msg)
    \/ msg = Tftp!Message("down", msg.socket, "data", msg.block, msg.data) /\ DownDataInv(msg)
    \/ msg = Tftp!Message(msg.client, msg.socket, "error", 0, <<>>) /\ ErrorInv(msg)
MessagesInv == \A msg \in datagrams : MsgInv(msg)

\* The transfer goes on without the client's doing.
UpLive ==
    \/ Tftp!Last("up") \in datagrams
    \/ up.from = 0 /\ \E t \in Transfers : transfer[t].kind = "write" /\ transfer[t].pc = "start"
    \/ \E t \in Transfers : up.from \in {0, t}
          /\ Tftp!Message("up", t, "ack", up.next, <<>>) \in datagrams
DownLive ==
    \/ Tftp!Last("down") \in datagrams
    \/ \E t \in Transfers :
          down.from \in {0, t} /\ transfer[t].kind = "read" /\ transfer[t].pc \in {"start", "send"}
    \/ \E msg \in datagrams :
          /\ msg.client = "down" /\ msg.kind = "data"
          /\ down.from \in {0, msg.socket} /\ msg.block \in {down.next - 1, down.next}

\* A message was lost for each that a client sent again, and one more when nothing is on its way.
UpCount ==
    troubles = 0 /\ up.pc = "active" /\ ~(up.from # 0 /\ transfer[up.from].pc = "gone") =>
        IF UpLive THEN Resends - up.resends <= unlucky ELSE Resends - up.resends < unlucky
DownCount ==
    troubles = 0 /\ ~Excused /\ down.pc = "active" =>
        IF DownLive THEN Resends - down.resends <= unlucky ELSE Resends - down.resends < unlucky

TftpInv ==
    /\ TftpTypes /\ ContentInv /\ (\A t \in Transfers : ThreadInv(t)) /\ UpInv /\ GotInv /\ DownInv
    /\ MessagesInv /\ UpCount /\ DownCount

-----------------------------------------------------------------------------
(* Blocks and contents *)

LEMMA AtIs ==
    ASSUME TftpAssumption, NEW k \in Nat
    PROVE  /\ At(k) \in Int /\ At(k + 1) = At(k) + BlockLength /\ (k >= 1 => At(k) \in Nat)
           /\ k * BlockLength = At(k + 1)
<1>1. BlockLength \in Nat \ {0}
  BY DEF TftpAssumption
<1>2. (k - 1) * BlockLength \in Int /\ k * BlockLength = (k - 1) * BlockLength + BlockLength
  BY <1>1
<1>3. k >= 1 => (k - 1) * BlockLength >= 0
  BY <1>1
<1> QED BY <1>1, <1>2, <1>3 DEF At

LEMMA FirstAt == ASSUME TftpAssumption PROVE At(1) = 0
  BY DEF TftpAssumption, At

LEMMA AtGrows ==
    ASSUME TftpAssumption, NEW j \in Nat, NEW k \in Nat, j < k
    PROVE  At(j + 1) <= At(k)
<1>1. BlockLength \in Int /\ BlockLength > 0
  BY DEF TftpAssumption
<1>2. BlockLength * (j - 1) + BlockLength <= BlockLength * (k - 1)
  BY <1>1, Multiples
<1>3. At(j) = BlockLength * (j - 1) /\ At(k) = BlockLength * (k - 1)
  BY <1>1 DEF At
<1> QED BY <1>2, <1>3, AtIs

LEMMA BlockAtIs ==
    ASSUME TftpAssumption, NEW S, NEW content \in Seq(S), NEW pos \in Nat
    PROVE  LET data == Tftp!BlockAt(content, pos) IN
           /\ data \in Seq(S) /\ Len(data) \in 0 .. BlockLength
           /\ \A i \in 1 .. Len(data) : pos + i <= Len(content) /\ data[i] = content[pos + i]
           /\ Len(data) < BlockLength /\ pos <= Len(content) => pos + Len(data) = Len(content)
           /\ pos <= Len(content) => pos + Len(data) <= Len(content)
           /\ pos + BlockLength <= Len(content) => Len(data) = BlockLength
<1> DEFINE data == Tftp!BlockAt(content, pos)
           n == Len(content) - pos
           last == pos + (IF n < BlockLength THEN n ELSE BlockLength)
<1>1. BlockLength \in Nat \ {0} /\ Len(content) \in Nat /\ n \in Int /\ last \in Int /\ pos + 1 \in Int
  BY LenProperties DEF TftpAssumption
<1>2. \A i \in pos + 1 .. last : content[i] \in S
  BY <1>1, ElementOfSeq
<1>3. data = SubSeq(content, pos + 1, last)
  BY DEF Tftp!BlockAt
<1> HIDE DEF data
<1>4. /\ data \in Seq(S) /\ Len(data) = IF pos + 1 <= last THEN last - (pos + 1) + 1 ELSE 0
      /\ \A i \in 1 .. last - (pos + 1) + 1 : data[i] = content[(pos + 1) + i - 1]
  <2> HIDE DEF last
  <2> QED BY <1>1, <1>2, <1>3, SubSeqProperties
<1>5. \A i \in 1 .. Len(data) : i \in 1 .. last - (pos + 1) + 1 /\ (pos + 1) + i - 1 = pos + i
  BY <1>1, <1>4
<1>6. \A i \in 1 .. Len(data) : data[i] = content[pos + i] /\ pos + i <= Len(content)
  BY <1>1, <1>4, <1>5
<1>7. \A i \in 1 .. Len(data) : pos + i <= Len(content) /\ data[i] = content[pos + i]
  BY <1>6
<1>8. Len(data) \in 0 .. BlockLength
  BY <1>1, <1>4
<1>9. /\ Len(data) < BlockLength /\ pos <= Len(content) => pos + Len(data) = Len(content)
      /\ pos <= Len(content) => pos + Len(data) <= Len(content)
      /\ pos + BlockLength <= Len(content) => Len(data) = BlockLength
  BY <1>1, <1>4
<1> QED BY <1>4, <1>7, <1>8, <1>9 DEF data

LEMMA OverwrittenIs ==
    ASSUME NEW S, NEW content \in Seq(S), NEW pos \in Nat, pos <= Len(content), NEW data \in Seq(S)
    PROVE  LET result == Tftp!Overwritten(content, pos, data)
               end == pos + Len(data) IN
           /\ result \in Seq(S)
           /\ Len(result) = (IF end < Len(content) THEN Len(content) ELSE end)
           /\ \A i \in 1 .. Len(result) :
                 result[i] = IF i <= pos THEN content[i] ELSE IF i <= end THEN data[i - pos] ELSE content[i]
<1> DEFINE result == Tftp!Overwritten(content, pos, data)
           end == pos + Len(data)
           front == SubSeq(content, 1, pos)
           rear == SubSeq(content, end + 1, Len(content))
<1>1. Len(content) \in Nat /\ Len(data) \in Nat /\ end \in Nat /\ end + 1 \in Int
  BY LenProperties
<1>2. \A i \in 1 .. Len(content) : content[i] \in S
  BY ElementOfSeq
<1> HIDE DEF end
<1>3. /\ front \in Seq(S) /\ Len(front) = pos
      /\ \A i \in 1 .. pos : front[i] = content[i]
  <2>1. \A i \in 1 .. pos : content[i] \in S
    BY <1>1, <1>2
  <2>2. /\ front \in Seq(S) /\ Len(front) = IF 1 <= pos THEN pos - 1 + 1 ELSE 0
        /\ \A i \in 1 .. pos - 1 + 1 : front[i] = content[1 + i - 1]
    BY <2>1, SubSeqProperties
  <2> QED BY <2>2
<1>4. /\ rear \in Seq(S) /\ Len(rear) = (IF end < Len(content) THEN Len(content) - end ELSE 0)
      /\ \A i \in 1 .. Len(content) - end : rear[i] = content[end + i]
  <2>1. \A i \in end + 1 .. Len(content) : content[i] \in S
    BY <1>1, <1>2
  <2>2. /\ rear \in Seq(S) /\ Len(rear) = IF end + 1 <= Len(content) THEN Len(content) - (end + 1) + 1 ELSE 0
        /\ \A i \in 1 .. Len(content) - (end + 1) + 1 : rear[i] = content[(end + 1) + i - 1]
    BY <1>1, <2>1, SubSeqProperties
  <2>3. \A i \in 1 .. Len(content) - end : i \in 1 .. Len(content) - (end + 1) + 1 /\ (end + 1) + i - 1 = end + i
    BY <1>1
  <2> QED BY <1>1, <2>2, <2>3
<1>5. result = (front \o data) \o rear
  BY DEF Tftp!Overwritten, end
<1> HIDE DEF front, rear, result
<1>6. /\ front \o data \in Seq(S) /\ Len(front \o data) = end
      /\ \A i \in 1 .. end : (front \o data)[i] = IF i <= pos THEN front[i] ELSE data[i - pos]
  BY <1>1, <1>3, ConcatProperties DEF end
<1> DEFINE most == front \o data
<1> HIDE DEF most
<1>7. /\ result \in Seq(S) /\ Len(result) = end + Len(rear)
      /\ \A i \in 1 .. Len(result) : result[i] = IF i <= end THEN most[i] ELSE rear[i - end]
  <2>1. most \in Seq(S) /\ Len(most) = end /\ result = most \o rear
    BY <1>5, <1>6 DEF most
  <2>2. /\ most \o rear \in Seq(S) /\ Len(most \o rear) = Len(most) + Len(rear)
        /\ \A i \in 1 .. Len(most) + Len(rear) :
              (most \o rear)[i] = IF i <= Len(most) THEN most[i] ELSE rear[i - Len(most)]
    BY <1>4, <2>1, ConcatProperties
  <2> QED BY <2>1, <2>2
<1>8. Len(result) = (IF end < Len(content) THEN Len(content) ELSE end)
  BY <1>1, <1>4, <1>7
<1>9. ASSUME NEW i \in 1 .. Len(result)
      PROVE  result[i] = IF i <= pos THEN content[i] ELSE IF i <= end THEN data[i - pos] ELSE content[i]
  <2>1. CASE i <= end
    <3>1. i \in 1 .. end
      BY <1>1, <2>1
    <3>2. result[i] = (front \o data)[i]
      BY <1>7, <2>1 DEF most
    <3>3. result[i] = IF i <= pos THEN front[i] ELSE data[i - pos]
      BY <1>6, <3>1, <3>2
    <3>4. i <= pos => i \in 1 .. pos
      BY <3>1
    <3> QED BY <1>3, <2>1, <3>3, <3>4
  <2>2. CASE i > end
    <3>1. i - end \in 1 .. Len(content) - end /\ end + (i - end) = i /\ ~(i <= pos)
      BY <1>1, <1>8, <2>2 DEF end
    <3> QED BY <1>1, <1>4, <1>7, <2>2, <3>1
  <2> QED BY <1>1, <1>7, <2>1, <2>2
<1> QED BY <1>7, <1>8, <1>9 DEF result, end

LEMMA BaseIs == ASSUME old \in Seq(Tftp!Units) PROVE Base \in Seq(Tftp!Units) /\ Base # Tftp!Absent
<1>1. <<>> \in Seq(Tftp!Units) /\ Len(<<>>) = 0 /\ Len(Tftp!Absent) = 1
  BY EmptySeq DEF Tftp!Absent
<1>2. <<>> # Tftp!Absent
  BY DEF Tftp!Absent
<1>3. CASE old = Tftp!Absent
  BY <1>1, <1>2, <1>3 DEF Base
<1>4. CASE old # Tftp!Absent
  BY <1>4 DEF Base
<1> QED BY <1>3, <1>4

\* The content of which nothing was uploaded, and the one of which everything was.
LEMMA MixBegins ==
    ASSUME old \in Seq(Tftp!Units), NEW content \in Seq(Tftp!Units), IsMix(content, 0)
    PROVE  content = Base
<1>1. Base \in Seq(Tftp!Units) /\ Len(Base) \in Nat
  BY BaseIs, LenProperties
<1>2. Len(content) = Len(Base) /\ \A i \in 1 .. Len(Base) : content[i] = Base[i]
  BY <1>1 DEF IsMix
<1> QED BY <1>1, <1>2, SeqEqual

LEMMA BaseIsMix == ASSUME old \in Seq(Tftp!Units) PROVE IsMix(Base, 0)
  BY BaseIs, LenProperties DEF IsMix

LEMMA UploadedIsMix ==
    ASSUME old \in Seq(Tftp!Units), new \in Seq(Tftp!Units \ {"absent"})
    PROVE  Tftp!Overwritten(Base, 0, new) \in Seq(Tftp!Units)
              /\ IsMix(Tftp!Overwritten(Base, 0, new), Len(new))
<1>1. Base \in Seq(Tftp!Units) /\ new \in Seq(Tftp!Units)
  BY BaseIs, ElementOfSeq, LenProperties, SeqDef
<1>2. Len(Base) \in Nat /\ Len(new) \in Nat
  BY <1>1, LenProperties
<1>3. LET result == Tftp!Overwritten(Base, 0, new)
          end == 0 + Len(new) IN
      /\ result \in Seq(Tftp!Units)
      /\ Len(result) = (IF end < Len(Base) THEN Len(Base) ELSE end)
      /\ \A i \in 1 .. Len(result) :
            result[i] = IF i <= 0 THEN Base[i] ELSE IF i <= end THEN new[i - 0] ELSE Base[i]
  BY <1>1, <1>2, OverwrittenIs
<1> DEFINE result == Tftp!Overwritten(Base, 0, new)
<1> HIDE DEF result
<1>4. /\ result \in Seq(Tftp!Units)
      /\ Len(result) = (IF Len(new) < Len(Base) THEN Len(Base) ELSE Len(new))
      /\ \A i \in 1 .. Len(result) : result[i] = IF i <= Len(new) THEN new[i] ELSE Base[i]
  BY <1>2, <1>3 DEF result
<1> QED BY <1>4 DEF IsMix, result

LEMMA MixIsUploaded ==
    ASSUME old \in Seq(Tftp!Units), new \in Seq(Tftp!Units \ {"absent"}),
           NEW content \in Seq(Tftp!Units), IsMix(content, Len(new))
    PROVE  content = Tftp!Overwritten(Base, 0, new)
<1> DEFINE result == Tftp!Overwritten(Base, 0, new)
<1>1. result \in Seq(Tftp!Units) /\ IsMix(result, Len(new))
  BY UploadedIsMix
<1> HIDE DEF result
<1>2. Len(content) = Len(result) /\ \A i \in 1 .. Len(result) : content[i] = result[i]
  BY <1>1 DEF IsMix
<1> QED BY <1>1, <1>2, SeqEqual DEF result

LEMMA MixIsThere ==
    ASSUME old \in Seq(Tftp!Units), new \in Seq(Tftp!Units \ {"absent"}),
           NEW content \in Seq(Tftp!Units), NEW k \in 0 .. Len(new), IsMix(content, k)
    PROVE  content # Tftp!Absent
<1>1. CASE k = 0
  BY <1>1, MixBegins, BaseIs
<1>2. CASE k # 0
  <2>1. Len(new) \in Nat /\ Len(Base) \in Nat /\ new[1] \in Tftp!Units \ {"absent"}
    BY <1>2, LenProperties, ElementOfSeq, BaseIs
  <2>2. Len(content) >= 1 /\ content[1] = new[1]
    BY <1>2, <2>1 DEF IsMix
  <2> QED BY <2>1, <2>2 DEF Tftp!Absent
<1> QED BY <1>1, <1>2

LEMMA MixIsMixed ==
    ASSUME old \in Seq(Tftp!Units), new \in Seq(Tftp!Units \ {"absent"}), NEW content,
               NEW k \in 0 .. Len(new),
           IsMix(content, k), NEW i \in 1 .. Len(content)
    PROVE  Mixed(content[i], i)
<1>1. Len(new) \in Nat /\ Len(Base) \in Nat
  BY LenProperties, BaseIs
<1>2. content[i] = IF i <= k THEN new[i] ELSE Base[i]
  BY DEF IsMix
<1>3. IF i <= k THEN i <= Len(new) ELSE i <= Len(Base)
  BY <1>1 DEF IsMix
<1> QED BY <1>2, <1>3 DEF Mixed

\* A block is added to those that were uploaded before.
LEMMA MixGrows ==
    ASSUME TftpAssumption, old \in Seq(Tftp!Units), new \in Seq(Tftp!Units \ {"absent"}),
           NEW content \in Seq(Tftp!Units), NEW pos \in 0 .. Len(new), IsMix(content, pos)
    PROVE  LET data == Tftp!BlockAt(new, pos)
               result == Tftp!Overwritten(content, pos, data) IN
           /\ result \in Seq(Tftp!Units) /\ pos + Len(data) \in 0 .. Len(new)
           /\ IsMix(result, pos + Len(data)) /\ Len(content) <= Len(result)
<1>1. Base \in Seq(Tftp!Units) /\ new \in Seq(Tftp!Units)
  BY BaseIs, ElementOfSeq, LenProperties, SeqDef
<1>2. Len(Base) \in Nat /\ Len(new) \in Nat /\ Len(content) \in Nat /\ pos \in Nat /\ pos <= Len(content)
  BY <1>1, LenProperties DEF IsMix
<1> DEFINE data == Tftp!BlockAt(new, pos)
           result == Tftp!Overwritten(content, pos, data)
           end == pos + Len(data)
<1>3. /\ data \in Seq(Tftp!Units) /\ Len(data) \in Nat /\ end <= Len(new)
      /\ \A i \in 1 .. Len(data) : data[i] = new[pos + i]
  <2>1. BlockLength \in Nat
    BY DEF TftpAssumption
  <2> QED BY <1>1, <1>2, <2>1, BlockAtIs
<1> HIDE DEF data, end
<1>4. end \in Nat /\ end = pos + Len(data)
  BY <1>2, <1>3 DEF end
<1>5. LET r == Tftp!Overwritten(content, pos, data)
          e == pos + Len(data) IN
      /\ r \in Seq(Tftp!Units)
      /\ Len(r) = (IF e < Len(content) THEN Len(content) ELSE e)
      /\ \A i \in 1 .. Len(r) :
            r[i] = IF i <= pos THEN content[i] ELSE IF i <= e THEN data[i - pos] ELSE content[i]
  BY <1>2, <1>3, OverwrittenIs
<1>6. /\ result \in Seq(Tftp!Units)
      /\ Len(result) = (IF end < Len(content) THEN Len(content) ELSE end)
      /\ \A i \in 1 .. Len(result) :
            result[i] = IF i <= pos THEN content[i] ELSE IF i <= end THEN data[i - pos] ELSE content[i]
  BY <1>4, <1>5
<1> HIDE DEF result
<1>7. Len(result) = (IF end < Len(Base) THEN Len(Base) ELSE end)
  BY <1>2, <1>3, <1>6, <1>4 DEF IsMix
<1>8. ASSUME NEW i \in 1 .. Len(result) PROVE result[i] = IF i <= end THEN new[i] ELSE Base[i]
  <2>1. CASE i <= pos
    BY <1>2, <1>3, <1>6, <1>4, <2>1 DEF IsMix
  <2>2. CASE i > pos /\ i <= end
    <3>1. i - pos \in 1 .. Len(data) /\ pos + (i - pos) = i
      BY <1>2, <1>3, <1>4, <2>2
    <3>2. data[i - pos] = new[i]
      BY <1>3, <3>1
    <3> QED BY <1>2, <1>3, <1>6, <1>4, <2>2, <3>2
  <2>3. CASE i > end
    BY <1>2, <1>3, <1>6, <1>4, <2>3 DEF IsMix
  <2> QED BY <1>4, <2>1, <2>2, <2>3
<1>9. IsMix(result, end)
  BY <1>7, <1>8 DEF IsMix
<1> QED BY <1>2, <1>3, <1>6, <1>9, <1>4 DEF data, result

-----------------------------------------------------------------------------
(* Messages *)

LEMMA ForListener ==
    ASSUME TftpAssumption, TftpInv, NEW msg, Tftp!Arrived(msg), msg.socket = 0
    PROVE  \/ msg = Tftp!Message("up", 0, "write", 0, <<>>) /\ up.pc # "idle"
           \/ msg = Tftp!Message("down", 0, "read", 0, <<>>) /\ down.pc # "idle"
<1>1. MsgInv(msg) /\ Tftp!ToNode(msg) /\ 0 \notin Transfers
  BY DEF TftpInv, MessagesInv, Tftp!Arrived, TftpAssumption
<1> QED BY <1>1 DEF MsgInv, Tftp!Message, Tftp!ToNode, UpAckInv, DownDataInv, ErrorInv

LEMMA ForThread ==
    ASSUME TftpAssumption, TftpInv, NEW msg, Tftp!Arrived(msg), msg.socket \in Transfers
    PROVE  \/ /\ up.from # 0 /\ up.from = msg.socket /\ transfer[msg.socket].kind = "write"
              /\ msg.block \in 1 .. up.next
              /\ msg = Tftp!Message("up", up.from, "data", msg.block, Tftp!Block(new, msg.block))
           \/ /\ down.from # 0 /\ down.from = msg.socket /\ transfer[msg.socket].kind = "read"
              /\ msg.block \in 1 .. down.next - 1
              /\ msg = Tftp!Message("down", down.from, "ack", msg.block, <<>>)
<1>1. MsgInv(msg) /\ Tftp!ToNode(msg) /\ msg.socket # 0
  BY DEF TftpInv, MessagesInv, Tftp!Arrived, TftpAssumption
<1>2. /\ up.from # 0 => transfer[up.from].kind = "write"
      /\ down.from # 0 => transfer[down.from].kind = "read"
  BY DEF TftpInv, UpInv, DownInv
<1> QED BY <1>1, <1>2 DEF MsgInv, Tftp!Message, Tftp!ToNode

LEMMA ForUp ==
    ASSUME TftpInv, NEW msg, Tftp!ForClient("up", msg)
    PROVE  \/ msg = Tftp!Message("up", msg.socket, "ack", msg.block, <<>>) /\ UpAckInv(msg)
           \/ msg = Tftp!Message("up", msg.socket, "error", 0, <<>>) /\ ErrorInv(msg)
<1>1. MsgInv(msg) /\ ~Tftp!ToNode(msg) /\ msg.client = "up"
  BY DEF TftpInv, MessagesInv, Tftp!ForClient
<1> QED BY <1>1 DEF MsgInv, Tftp!Message, Tftp!ToNode

LEMMA ForDown ==
    ASSUME TftpInv, NEW msg, Tftp!ForClient("down", msg)
    PROVE  \/ msg = Tftp!Message("down", msg.socket, "data", msg.block, msg.data) /\ DownDataInv(msg)
           \/ msg = Tftp!Message("down", msg.socket, "error", 0, <<>>) /\ ErrorInv(msg)
<1>1. MsgInv(msg) /\ ~Tftp!ToNode(msg) /\ msg.client = "down"
  BY DEF TftpInv, MessagesInv, Tftp!ForClient
<1> QED BY <1>1 DEF MsgInv, Tftp!Message, Tftp!ToNode

\* What no step takes back.
ClientKeeps(before, after) ==
    /\ before.pc # "idle" => after.pc # "idle"
    /\ before.pc \in {"done", "failed"} => after.pc \in {"done", "failed"}
    /\ before.from # 0 => after.from = before.from
    /\ before.next <= after.next
ThreadKeeps(before, after) ==
    /\ before.kind # "none" => after.kind = before.kind
    /\ before.pc = "gone" => after.pc = "gone"
    /\ before.pc \in {"send", "wait", "gone"} => after.pc \in {"send", "wait", "gone"}
    /\ before.pc \in {"send", "wait"} /\ after.pc \in {"send", "wait"} => before.next <= after.next
    /\ before.kind = "read" /\ before.pc \in {"send", "wait"} /\ after.pc = "wait" /\ ~Excused =>
          /\ after.next = before.next
          /\ before.pc = "wait" => after.read = before.read
          /\ before.pc = "send" =>
                \A n \in 0 .. BlockLength : At(before.next) + n <= Len(file) => n <= after.read
Keeps ==
    /\ old' = old /\ new' = new /\ troubles <= troubles'
    /\ ClientKeeps(up, up') /\ ClientKeeps(down, down')
    /\ \A t \in Transfers : ThreadKeeps(transfer[t], transfer[t]')
    /\ shown' # Tftp!Changed => (shown # Tftp!Changed /\ file' = file) \/ down.pc = "idle"
    /\ ~Excused => Len(file) <= Len(file')
    /\ Tftp!IsUploaded => Tftp!IsUploaded' \/ (up.from # 0 /\ transfer[up.from].pc = "wait")

LEMMA LeftForGood ==
    ASSUME TftpTypes, TftpTypes', Keeps, NEW t \in Transfers, transfer[t].kind # "none", Tftp!Left(t)
    PROVE  Tftp!Left(t)'
<1>1. transfer[t]'.kind = transfer[t].kind
  BY DEF Keeps, ThreadKeeps
<1>2. ClientKeeps(up, up') /\ ClientKeeps(down, down')
  BY DEF Keeps
<1> QED BY <1>1, <1>2 DEF Tftp!Left, Tftp!Client, Tftp!ClientOf, ClientKeeps

LEMMA UpAckIsKept ==
    ASSUME TftpAssumption, TftpInv, TftpTypes', Keeps, NEW msg, UpAckInv(msg)
    PROVE  UpAckInv(msg)'
<1> DEFINE t == msg.socket
<1>1. t \in Transfers /\ transfer[t] \in ThreadRecords /\ transfer[t]' \in ThreadRecords
  BY DEF UpAckInv, TftpInv, TftpTypes
<1>2. ThreadKeeps(transfer[t], transfer[t]')
  BY <1>1 DEF Keeps
<1>3. up \in ClientRecords /\ up' \in ClientRecords /\ up.next <= up'.next /\ (up.from # 0 => up'.from = up.from)
  BY DEF TftpInv, TftpTypes, Keeps, ClientKeeps
<1>4. transfer[t].kind = "write" /\ transfer[t].pc \in {"wait", "gone"}
  BY <1>1 DEF UpAckInv, TftpInv, ThreadInv, WriterInv
<1>5. transfer[t]'.kind = "write" /\ transfer[t]'.pc \in {"send", "wait", "gone"}
  BY <1>2, <1>4 DEF ThreadKeeps
<1>6. transfer[t]'.pc = "wait" => msg.block < transfer[t]'.next
  BY <1>1, <1>2, <1>3, <1>4 DEF ThreadKeeps, UpAckInv, ThreadRecords, ClientRecords
<1>7. ASSUME msg.block # 0, Len(new) < At(msg.block + 1) PROVE Tftp!IsUploaded'
  <2>1. Tftp!IsUploaded /\ up.from = t /\ t # 0
    BY <1>1, <1>7 DEF UpAckInv, TftpAssumption
  <2>2. ASSUME transfer[t].pc = "wait" PROVE FALSE
    <3>1. msg.block < transfer[t].next /\ transfer[t].next \in Nat /\ msg.block \in Nat
      BY <1>1, <1>3, <2>2 DEF UpAckInv, ThreadRecords, ClientRecords
    <3>2. transfer[t].pos = At(transfer[t].next) /\ transfer[t].pos <= Len(new)
      BY <1>1, <1>4, <2>1, <2>2 DEF TftpInv, ThreadInv, WriterInv, UpInv
    <3>3. At(msg.block + 1) <= At(transfer[t].next)
      BY <3>1, AtGrows
    <3>4. At(msg.block + 1) \in Int /\ At(transfer[t].next) \in Int /\ Len(new) \in Int
      <4>1. new \in Seq(Tftp!Units \ {"absent"}) /\ msg.block + 1 \in Nat
        BY <3>1 DEF TftpInv, TftpTypes
      <4>2. At(msg.block + 1) \in Int /\ At(transfer[t].next) \in Int
        BY <3>1, <4>1, AtIs
      <4> QED BY <4>1, <4>2, LenProperties
    <3> QED BY <1>7, <3>2, <3>3, <3>4
  <2> QED BY <2>1, <2>2 DEF Keeps
<1>8. new' = new /\ At(msg.block + 1)' = At(msg.block + 1)
  BY DEF Keeps, At
<1>9. msg.block \in 0 .. up'.next /\ (msg.block # 0 => t = up'.from)
  BY <1>1, <1>3 DEF UpAckInv, ClientRecords, TftpAssumption
<1> QED BY <1>1, <1>5, <1>6, <1>7, <1>8, <1>9 DEF UpAckInv

LEMMA MixedIsKept ==
    ASSUME old' = old, new' = new, NEW unit, NEW j
    PROVE  Mixed(unit, j)' <=> Mixed(unit, j)
  BY DEF Mixed, Base

LEMMA DownDataIsKept ==
    ASSUME TftpAssumption, TftpInv, TftpTypes', Keeps, NEW msg, DownDataInv(msg)
    PROVE  DownDataInv(msg)'
<1> DEFINE t == msg.socket
<1>1. t \in Transfers /\ transfer[t] \in ThreadRecords /\ transfer[t]' \in ThreadRecords
  BY DEF DownDataInv, TftpInv, TftpTypes
<1>2. ThreadKeeps(transfer[t], transfer[t]')
  BY <1>1 DEF Keeps
<1>3. down \in ClientRecords /\ down' \in ClientRecords /\ down.next <= down'.next
  BY DEF TftpInv, TftpTypes, Keeps, ClientKeeps
<1>4. transfer[t].kind = "read" /\ transfer[t].pc \in {"send", "wait", "gone"} /\ down.pc # "idle"
  BY <1>1 DEF DownDataInv, TftpInv, ThreadInv, ReaderInv, ThreadRecords
<1>5. transfer[t]'.kind = "read" /\ transfer[t]'.pc \in {"send", "wait", "gone"}
  BY <1>2, <1>4 DEF ThreadKeeps
<1>6. msg.block \in 1 .. down.next /\ msg.block \in 1 .. down'.next /\ msg.block \in Nat
  BY <1>3 DEF DownDataInv, ClientRecords
<1>7. transfer[t]'.pc \in {"send", "wait"} => msg.block <= transfer[t]'.next
  BY <1>1, <1>2, <1>4, <1>6 DEF ThreadKeeps, DownDataInv, ThreadRecords
<1>8. \A i \in 1 .. Len(msg.data) : Mixed(msg.data[i], At(msg.block) + i)'
  BY MixedIsKept DEF Keeps, DownDataInv, At
<1>9. shown' # Tftp!Changed => file' # Tftp!Absent /\ msg.data = Tftp!Block(file', msg.block)
  BY <1>4 DEF Keeps, DownDataInv
<1>10. Excused' <=> Excused
  BY DEF Keeps, Excused
<1>11. At(msg.block) \in Int /\ Len(msg.data) \in 0 .. BlockLength /\ Len(file) \in Int /\ Len(file') \in Int
  <2>1. file \in Seq(Tftp!Units) /\ file' \in Seq(Tftp!Units) /\ msg.data \in Seq(Tftp!Units)
           /\ Len(msg.data) <= BlockLength
    BY DEF DownDataInv, TftpInv, TftpTypes
  <2>2. Len(file) \in Nat /\ Len(file') \in Nat /\ Len(msg.data) \in Nat
    BY <2>1, LenProperties
  <2>3. At(msg.block) \in Int /\ BlockLength \in Nat
    BY <1>6, AtIs DEF TftpAssumption
  <2> QED BY <2>1, <2>2, <2>3
<1>12. ASSUME ~Excused
       PROVE  /\ At(msg.block) + Len(msg.data) <= Len(file')
              /\ transfer[t]'.pc = "wait" /\ msg.block = transfer[t]'.next =>
                    Len(msg.data) <= transfer[t]'.read
  <2>1. At(msg.block) + Len(msg.data) <= Len(file) /\ Len(file) <= Len(file')
    BY <1>12 DEF DownDataInv, Keeps
  <2>2. ASSUME transfer[t]'.pc = "wait",
                        msg.block = transfer[t]'.next PROVE Len(msg.data) <= transfer[t]'.read
    <3>1. transfer[t].pc \in {"send", "wait"} /\ transfer[t].next = msg.block
      BY <1>2, <1>4, <1>12, <2>2 DEF ThreadKeeps
    <3>2. CASE transfer[t].pc = "wait"
      BY <1>2, <1>4, <1>12, <2>2, <3>1, <3>2 DEF ThreadKeeps, DownDataInv
    <3>3. CASE transfer[t].pc = "send"
      BY <1>2, <1>4, <1>11, <1>12, <2>1, <2>2, <3>1, <3>3 DEF ThreadKeeps
    <3> QED BY <3>1, <3>2, <3>3
  <2> QED BY <1>11, <2>1, <2>2
<1>13. At(msg.block)' = At(msg.block)
  BY DEF At
<1>14. (transfer[t].kind)' = "read" /\ (transfer[t].pc)' # "start"
  BY <1>5
<1>15. Tftp!Block(file, msg.block)' = Tftp!Block(file', msg.block)
  BY DEF Tftp!Block, Tftp!BlockAt
<1>16. msg.data \in Seq(Tftp!Units) /\ Len(msg.data) <= BlockLength
  BY DEF DownDataInv
<1> QED BY <1>1, <1>6, <1>7, <1>8, <1>9, <1>10, <1>12, <1>13, <1>14, <1>15, <1>16 DEF DownDataInv

LEMMA MessageIsKept ==
    ASSUME TftpAssumption, TftpInv, TftpTypes', Keeps, NEW msg, MsgInv(msg)
    PROVE  MsgInv(msg)'
<1>1. /\ up.pc # "idle" => up'.pc # "idle"
      /\ up.from # 0 => up'.from = up.from
      /\ up.next <= up'.next /\ up.next \in Nat /\ up'.next \in Nat
      /\ down.pc # "idle" => down'.pc # "idle"
      /\ down.from # 0 => down'.from = down.from
      /\ down.next <= down'.next /\ down.next \in Nat /\ down'.next \in Nat
  BY DEF Keeps, ClientKeeps, TftpInv, TftpTypes, ClientRecords
<1>2. CASE \/ msg = Tftp!Message("up", 0, "write", 0, <<>>) /\ up.pc # "idle"
           \/ msg = Tftp!Message("down", 0, "read", 0, <<>>) /\ down.pc # "idle"
  BY <1>1, <1>2 DEF MsgInv, Tftp!Message
<1>3. CASE /\ up.from # 0 /\ msg.block \in 1 .. up.next
           /\ msg = Tftp!Message("up", up.from, "data", msg.block, Tftp!Block(new, msg.block))
  <2>1. up'.from = up.from /\ msg.block \in 1 .. up'.next /\ new' = new
    BY <1>1, <1>3 DEF Keeps
  <2> QED BY <1>3, <2>1 DEF MsgInv, Tftp!Message, Tftp!Block, Tftp!BlockAt
<1>4. CASE /\ down.from # 0 /\ msg.block \in 1 .. down.next - 1
           /\ msg = Tftp!Message("down", down.from, "ack", msg.block, <<>>)
  <2>1. down'.from = down.from /\ msg.block \in 1 .. down'.next - 1
    BY <1>1, <1>4
  <2> QED BY <1>4, <2>1 DEF MsgInv, Tftp!Message
<1>5. CASE msg = Tftp!Message("up", msg.socket, "ack", msg.block, <<>>) /\ UpAckInv(msg)
  <2>1. UpAckInv(msg)'
    BY <1>5, UpAckIsKept
  <2> QED BY <1>5, <2>1 DEF MsgInv, Tftp!Message
<1>6. CASE msg = Tftp!Message("down", msg.socket, "data", msg.block, msg.data) /\ DownDataInv(msg)
  <2>1. DownDataInv(msg)'
    BY <1>6, DownDataIsKept
  <2> QED BY <1>6, <2>1 DEF MsgInv, Tftp!Message
<1>7. CASE msg = Tftp!Message(msg.client, msg.socket, "error", 0, <<>>) /\ ErrorInv(msg)
  <2>1. msg.socket \in Transfers /\ transfer[msg.socket].pc = "gone" /\ transfer[msg.socket].kind # "none"
    BY <1>7 DEF ErrorInv, TftpInv, ThreadInv
  <2>2. ThreadKeeps(transfer[msg.socket], transfer[msg.socket]')
    BY <2>1 DEF Keeps
  <2>3. transfer[msg.socket]'.pc = "gone" /\ transfer[msg.socket]'.kind = transfer[msg.socket].kind
    BY <2>1, <2>2 DEF ThreadKeeps
  <2>4. Tftp!Left(msg.socket) => Tftp!Left(msg.socket)'
    BY <2>1, LeftForGood DEF TftpInv
  <2>5. (troubles' = 0 => troubles = 0) /\ (Excused => Excused')
    BY DEF Keeps, TftpInv, TftpTypes, Excused
  <2>6. ErrorInv(msg)'
    BY <1>7, <2>1, <2>3, <2>4, <2>5 DEF ErrorInv, Tftp!ClientOf
  <2> QED BY <1>7, <2>6 DEF MsgInv, Tftp!Message
<1> QED BY <1>2, <1>3, <1>4, <1>5, <1>6, <1>7 DEF MsgInv

-----------------------------------------------------------------------------
(* What rests in a step *)

LEMMA FileRests ==
    ASSUME ContentInv, old' = old, new' = new, file' = file, up'.from = 0 => up.from = 0,
           \/ file = Base
           \/ \A t \in Transfers : transfer[t]'.kind = "write" /\ transfer[t]'.pc = "wait"
                                     => transfer[t].kind = "write" /\ transfer[t].pc = "wait"
    PROVE  ContentInv'
<1>1. Base' = Base /\ (Excused' <=> Excused)
  BY DEF Base, Excused
<1>2. \A i \in 1 .. Len(file) : Mixed(file[i], i)' <=> Mixed(file[i], i)
  BY MixedIsKept
<1> QED BY <1>1, <1>2 DEF ContentInv

LEMMA UpRests ==
    ASSUME TftpAssumption, UpInv, up' = up, old' = old, new' = new, file' = file,
           troubles \in Nat, troubles' \in Nat, troubles <= troubles',
           up.from # 0 => transfer[up.from]' = transfer[up.from]
    PROVE  UpInv'
<1>1. Base' = Base /\ (Tftp!IsUploaded' <=> Tftp!IsUploaded)
  BY DEF Base, Tftp!IsUploaded, Tftp!Overwritten
<1>2. \A k : (IsMix(file, k)' <=> IsMix(file, k)) /\ At(k)' = At(k)
  BY <1>1 DEF IsMix, At
<1>3. Settled => Settled'
  BY <1>1 DEF Settled
<1> QED BY <1>1, <1>2, <1>3 DEF UpInv

LEMMA GotRests ==
    ASSUME GotInv, down'.got = down.got, down'.next = down.next, old' = old, new' = new,
           file' = file, shown' = shown,
           down'.pc = "done" <=> down.pc = "done", down'.pc = "idle" => down.pc = "idle"
    PROVE  GotInv'
<1>1. \A i \in 1 .. Len(down.got) : Mixed(down.got[i], i)' <=> Mixed(down.got[i], i)
  BY MixedIsKept
<1> QED BY <1>1 DEF GotInv, Excused, At

LEMMA DownRests ==
    ASSUME DownInv, down' = down, old' = old, new' = new,
           troubles \in Nat, troubles' \in Nat, troubles <= troubles',
           down.from # 0 => transfer[down.from]' = transfer[down.from]
    PROVE  DownInv'
  BY DEF DownInv, Excused

LEMMA ThreadRests ==
    ASSUME TftpAssumption, TftpInv, TftpTypes', Keeps, NEW t \in Transfers, transfer[t]' = transfer[t],
           Deleted => Deleted',
           file' = Tftp!Absent => file = Tftp!Absent \/ Deleted',
           file' = Tftp!Absent =>
                 (file' = file /\ shown' = shown) \/ down.pc = "idle" \/ shown' = Tftp!Changed
    PROVE  ThreadInv(t)'
<1>1. t # 0 /\ ThreadInv(t)
  BY DEF TftpAssumption, TftpInv
<1>2. ClientKeeps(up, up') /\ ClientKeeps(down, down') /\ (Excused' <=> Excused)
      /\ (troubles' = 0 => troubles = 0) /\ old' = old /\ new' = new
  BY DEF Keeps, Excused, TftpInv, TftpTypes
<1>3. At(transfer[t].next)' = At(transfer[t].next)
  BY DEF At
<1>4. /\ up \in ClientRecords /\ up' \in ClientRecords /\ down \in ClientRecords
      /\ down' \in ClientRecords
      /\ transfer[t] \in ThreadRecords
  BY DEF TftpInv, TftpTypes
<1>5. transfer[t].kind # "none" /\ Tftp!Left(t) => Tftp!Left(t)'
  BY LeftForGood DEF TftpInv
<1>6. transfer[t].kind = "write" => WriterInv(t)'
  BY <1>1, <1>2, <1>3, <1>4 DEF ThreadInv, WriterInv, ClientKeeps
<1>7. ASSUME transfer[t].kind = "read" PROVE ReaderInv(t)'
  <2>1. ReaderInv(t)
    BY <1>1, <1>7 DEF ThreadInv
  <2>2. down'.pc # "idle"
    BY <1>2, <2>1 DEF ReaderInv, ClientKeeps
  <2>3. ASSUME transfer[t].pc \in {"send", "wait"}
        PROVE  /\ transfer[t].next \in 1 .. down'.next /\ (t # down'.from => transfer[t].next = 1)
               /\ file' = Tftp!Absent => Deleted' /\ shown' = Tftp!Changed
               /\ ~Excused => transfer[t].pos <= Len(file')
    <3>1. transfer[t].next \in 1 .. down'.next /\ (t # down'.from => transfer[t].next = 1)
      BY <1>1, <1>2, <1>4, <2>1, <2>3 DEF ReaderInv, ClientKeeps, ClientRecords, ThreadRecords
    <3>2. file' = Tftp!Absent => Deleted' /\ shown' = Tftp!Changed
      BY <2>1, <2>3 DEF ReaderInv
    <3>3. ~Excused => transfer[t].pos <= Len(file')
      <4>1. Len(file) \in Nat /\ Len(file') \in Nat /\ transfer[t].pos \in Nat
        BY <1>4, LenProperties DEF TftpInv, TftpTypes, ThreadRecords
      <4> QED BY <2>1, <2>3, <4>1 DEF ReaderInv, Keeps
    <3> QED BY <3>1, <3>2, <3>3
  <2> QED BY <1>2, <1>3, <1>5, <1>7, <2>1, <2>2, <2>3 DEF ReaderInv
<1> QED BY <1>1, <1>6, <1>7 DEF ThreadInv

LEMMA UpCountRests ==
    ASSUME TftpAssumption, TftpInv, up' = up, new' = new, unlucky' \in Nat, troubles' \in Nat,
           unlucky <= unlucky', troubles <= troubles',
           \A t \in Transfers : ThreadKeeps(transfer[t], transfer[t]'),
           \A msg \in datagrams : msg.client = "up" => msg \in datagrams',
           \A t \in Transfers : transfer[t].kind = "write" /\ transfer[t].pc = "start"
                                  => transfer[t]' = transfer[t]
    PROVE  UpCount'
<1>1. up \in ClientRecords /\ unlucky \in Nat /\ troubles \in Nat /\ Resends \in Nat
  BY DEF TftpInv, TftpTypes, TftpAssumption
<1>2. Tftp!Last("up")' = Tftp!Last("up") /\ Tftp!Last("up").client = "up"
  BY DEF Tftp!Last, Tftp!Client, Tftp!Message, Tftp!Block, Tftp!BlockAt
<1>3. \A t \in Transfers : Tftp!Message("up", t, "ack", up.next, <<>>).client = "up"
  BY DEF Tftp!Message
<1>4. ASSUME UpLive PROVE UpLive'
  <2>1. CASE Tftp!Last("up") \in datagrams
    BY <1>2, <2>1 DEF UpLive
  <2>2. CASE up.from = 0 /\ \E t \in Transfers : transfer[t].kind = "write" /\ transfer[t].pc = "start"
    BY <2>2 DEF UpLive
  <2>3. CASE \E t \in Transfers : up.from \in {0, t}
                /\ Tftp!Message("up", t, "ack", up.next, <<>>) \in datagrams
    <3>1. PICK t \in Transfers : up.from \in {0, t}
             /\ Tftp!Message("up", t, "ack", up.next, <<>>) \in datagrams
      BY <2>3
    <3>2. Tftp!Message("up", t, "ack", up.next, <<>>) \in datagrams'
      BY <1>3, <3>1
    <3>3. Tftp!Message("up", t, "ack", up.next, <<>>)' = Tftp!Message("up", t, "ack", up.next, <<>>)
      BY DEF Tftp!Message
    <3> QED BY <3>1, <3>2, <3>3 DEF UpLive
  <2> QED BY <1>4, <2>1, <2>2, <2>3 DEF UpLive
<1>5. UpCount /\ (troubles' = 0 => troubles = 0) /\ Resends - up.resends \in Int
  BY <1>1 DEF TftpInv, ClientRecords
<1>6. up.from # 0 /\ transfer[up.from].pc = "gone" => up'.from # 0 /\ transfer[up.from]'.pc = "gone"
  BY <1>1 DEF ClientRecords, ThreadKeeps
<1> QED BY <1>1, <1>4, <1>5, <1>6 DEF UpCount

LEMMA DownCountRests ==
    ASSUME TftpAssumption, TftpInv, down' = down, old' = old, new' = new, unlucky' \in Nat,
               troubles' \in Nat,
           unlucky <= unlucky', troubles <= troubles',
           \A msg \in datagrams : msg.client = "down" => msg \in datagrams',
           \A t \in Transfers : transfer[t].kind = "read" /\ transfer[t].pc \in {"start", "send"}
                                  => transfer[t]' = transfer[t]
    PROVE  DownCount'
<1>1. down \in ClientRecords /\ unlucky \in Nat /\ troubles \in Nat /\ Resends \in Nat
  BY DEF TftpInv, TftpTypes, TftpAssumption
<1>2. Tftp!Last("down")' = Tftp!Last("down") /\ Tftp!Last("down").client = "down"
  BY DEF Tftp!Last, Tftp!Client, Tftp!Message
<1>4. ASSUME DownLive PROVE DownLive'
  BY <1>2, <1>4 DEF DownLive
<1>5. DownCount /\ (troubles' = 0 => troubles = 0) /\ (Excused' <=> Excused) /\ Resends - down.resends \in Int
  BY <1>1 DEF TftpInv, ClientRecords, Excused
<1> QED BY <1>1, <1>4, <1>5 DEF DownCount

-----------------------------------------------------------------------------
(* Steps that take a message or a request *)

LEMMA TftpStarts == TftpAssumption /\ Tftp!Init => TftpInv
<1> SUFFICES ASSUME TftpAssumption, Tftp!Init PROVE TftpInv
  OBVIOUS
<1>1. old \in Seq(Tftp!Units) /\ new \in Seq(Tftp!Units \ {"absent"}) /\ file = old /\ shown = old
  BY DEF Tftp!Init, TftpAssumption
<1>2. <<>> \in Seq(Tftp!Units) /\ Len(<<>>) = 0 /\ Resends \in Nat /\ MaxSetbacks \in Nat /\ 0 \notin Transfers
  BY EmptySeq DEF TftpAssumption
<1>3. TftpTypes
  BY <1>1, <1>2 DEF Tftp!Init, TftpTypes, ThreadRecords, ClientRecords, Tftp!NotStarted, Tftp!Idle
<1>4. ContentInv
  <2>1. file # Tftp!Absent => Base = file
    BY <1>1 DEF Base
  <2>2. Len(file) \in Nat
    BY <1>1, LenProperties
  <2> QED BY <1>1, <2>1, <2>2 DEF ContentInv, Mixed, Excused, Tftp!Init, Tftp!NotStarted, Tftp!Idle
<1>5. \A t \in Transfers : ThreadInv(t)
  BY DEF Tftp!Init, ThreadInv, Tftp!NotStarted
<1>6. UpInv /\ DownInv
  BY DEF Tftp!Init, UpInv, DownInv, Tftp!Idle
<1>7. GotInv
  <2>1. Len(file) \in Nat
    BY <1>1, LenProperties
  <2> QED BY <1>1, <1>2, <2>1, FirstAt DEF GotInv, Tftp!Init, Tftp!Idle
<1>8. MessagesInv /\ UpCount /\ DownCount
  BY DEF MessagesInv, UpCount, DownCount, Tftp!Init, Tftp!Idle
<1> QED BY <1>3, <1>4, <1>5, <1>6, <1>7, <1>8 DEF TftpInv

LEMMA SameClient == ASSUME NEW c \in ClientRecords PROVE ClientKeeps(c, c)
  BY DEF ClientKeeps, ClientRecords
LEMMA SameThread == ASSUME NEW thread \in ThreadRecords PROVE ThreadKeeps(thread, thread)
  BY DEF ThreadKeeps, ThreadRecords

LEMMA SameFile ==
    ASSUME old' = old, new' = new, file' = file, shown' = shown, file \in Seq(Tftp!Units)
    PROVE  /\ shown' # Tftp!Changed => (shown # Tftp!Changed /\ file' = file) \/ down.pc = "idle"
           /\ ~Excused => Len(file) <= Len(file')
           /\ Tftp!IsUploaded => Tftp!IsUploaded' \/ (up.from # 0 /\ transfer[up.from].pc = "wait")
           /\ Deleted => Deleted' /\ (file' = Tftp!Absent => file = Tftp!Absent)
<1>1. Len(file) \in Nat
  BY LenProperties
<1> QED BY <1>1 DEF Tftp!IsUploaded, Tftp!Overwritten, Deleted

LEMMA MessagesAreKept ==
    ASSUME TftpAssumption, TftpInv, TftpTypes', Keeps,
           \A msg \in datagrams' : msg \in datagrams \/ MsgInv(msg)'
    PROVE  MessagesInv'
<1>1. \A msg \in datagrams : MsgInv(msg)'
  <2> TAKE msg \in datagrams
  <2>1. MsgInv(msg)
    BY DEF TftpInv, MessagesInv
  <2> QED BY <2>1, MessageIsKept
<1> QED BY <1>1 DEF MessagesInv

LEMMA UpCountGoesOn ==
    ASSUME TftpAssumption, TftpInv, up'.resends = up.resends, up'.from = up.from, up'.pc = "active" =>
                 up.pc = "active",
           unlucky' \in Nat, troubles' \in Nat, unlucky <= unlucky', troubles <= troubles',
           \A t \in Transfers : ThreadKeeps(transfer[t], transfer[t]'),
           UpLive => UpLive'
    PROVE  UpCount'
<1>1. up \in ClientRecords /\ unlucky \in Nat /\ troubles \in Nat /\ Resends \in Nat
  BY DEF TftpInv, TftpTypes, TftpAssumption
<1>2. UpCount /\ (troubles' = 0 => troubles = 0) /\ Resends - up.resends \in Int
  BY <1>1 DEF TftpInv, ClientRecords
<1>3. up.from # 0 /\ transfer[up.from].pc = "gone" => up'.from # 0 /\ transfer[up.from]'.pc = "gone"
  BY <1>1 DEF ClientRecords, ThreadKeeps
<1> QED BY <1>1, <1>2, <1>3 DEF UpCount

LEMMA DownCountGoesOn ==
    ASSUME TftpAssumption, TftpInv, down'.resends = down.resends, down'.pc = "active" =>
                 down.pc = "active",
           old' = old, new' = new, unlucky' \in Nat, troubles' \in Nat,
           unlucky <= unlucky', troubles <= troubles', DownLive => DownLive'
    PROVE  DownCount'
<1>1. down \in ClientRecords /\ unlucky \in Nat /\ troubles \in Nat /\ Resends \in Nat
  BY DEF TftpInv, TftpTypes, TftpAssumption
<1>2. DownCount /\ (troubles' = 0 => troubles = 0) /\ Resends - down.resends \in Int /\ (Excused' <=> Excused)
  BY <1>1 DEF TftpInv, ClientRecords, Excused
<1> QED BY <1>1, <1>2 DEF DownCount

LEMMA ListenStep ==
    ASSUME TftpAssumption, TftpInv, NEW msg, NEW t \in Transfers, Tftp!Listen(msg, t)
    PROVE  TftpInv'
<1>1. /\ TftpTypes /\ UNCHANGED <<file, up, down, old, new, shown, unlucky, troubles>>
      /\ datagrams' = datagrams \ {msg}
  BY DEF Tftp!Listen, TftpInv
<1>2. \/ msg = Tftp!Message("up", 0, "write", 0, <<>>) /\ up.pc # "idle"
      \/ msg = Tftp!Message("down", 0, "read", 0, <<>>) /\ down.pc # "idle"
  BY ForListener DEF Tftp!Listen
<1>3. msg.kind \in {"read", "write"}
  BY <1>2 DEF Tftp!Message
<1>4. transfer[t].pc = "none" /\ transfer[t].kind = "none" /\ transfer[t].pos = 0
  BY DEF Tftp!Listen, TftpInv, ThreadInv
<1>5. /\ transfer' \in [Transfers -> ThreadRecords]
      /\ transfer[t]'.pc = "start" /\ transfer[t]'.kind = msg.kind /\ transfer[t]'.pos = 0
      /\ \A s \in Transfers : s # t => transfer[s]' = transfer[s]
  BY <1>1, <1>3, <1>4 DEF Tftp!Listen, TftpTypes, ThreadRecords
<1>6. TftpTypes'
  BY <1>1, <1>5 DEF TftpTypes
<1>7. \A s \in Transfers : ThreadKeeps(transfer[s], transfer[s]')
  <2>1. ThreadKeeps(transfer[t], transfer[t]')
    BY <1>4 DEF ThreadKeeps
  <2> QED BY <1>1, <1>5, <2>1, SameThread DEF TftpTypes
<1>8. Keeps
  BY <1>1, <1>7, SameFile, SameClient DEF Keeps, TftpTypes
<1>9. MessagesInv'
  BY <1>1, <1>6, <1>8, MessagesAreKept
<1>10. ContentInv'
  BY <1>1, <1>5, FileRests DEF TftpInv
<1>11. ASSUME NEW s \in Transfers PROVE ThreadInv(s)'
  <2>1. CASE s = t
    BY <1>1, <1>2, <1>3, <1>5, <2>1 DEF ThreadInv, WriterInv, ReaderInv, Tftp!Message
  <2>2. CASE s # t
    BY <1>1, <1>5, <1>6, <1>8, <2>2, ThreadRests, SameFile DEF TftpTypes
  <2> QED BY <2>1, <2>2
<1>12. up.from # 0 => transfer[up.from]' = transfer[up.from]
  BY <1>1, <1>4, <1>5 DEF TftpInv, UpInv, TftpTypes, ClientRecords
<1>13. down.from # 0 => transfer[down.from]' = transfer[down.from]
  BY <1>1, <1>4, <1>5 DEF TftpInv, DownInv, TftpTypes, ClientRecords
<1>14. UpInv' /\ GotInv' /\ DownInv'
  BY <1>1, <1>12, <1>13, UpRests, GotRests, DownRests DEF TftpInv, TftpTypes
<1>15. UpLive => UpLive'
  <2> SUFFICES ASSUME UpLive PROVE UpLive'
    OBVIOUS
  <2>1. CASE Tftp!Last("up") \in datagrams
    <3>1. CASE Tftp!Last("up") = msg
      <4>1. up.from = 0 /\ msg.kind = "write"
        BY <1>3, <3>1 DEF Tftp!Last, Tftp!Client, Tftp!Message
      <4> QED BY <1>1, <1>5, <4>1 DEF UpLive
    <3>2. CASE Tftp!Last("up") # msg
      BY <1>1, <2>1, <3>2 DEF UpLive, Tftp!Last, Tftp!Client, Tftp!Block, Tftp!BlockAt, Tftp!Message
    <3> QED BY <3>1, <3>2
  <2>2. CASE up.from = 0 /\ \E s \in Transfers : transfer[s].kind = "write" /\ transfer[s].pc = "start"
    BY <1>1, <1>4, <1>5, <2>2 DEF UpLive
  <2>3. CASE \E s \in Transfers : up.from \in {0, s}
                /\ Tftp!Message("up", s, "ack", up.next, <<>>) \in datagrams
    BY <1>1, <1>2, <2>3 DEF UpLive, Tftp!Message
  <2> QED BY <2>1, <2>2, <2>3 DEF UpLive
<1>16. DownLive => DownLive'
  <2> SUFFICES ASSUME DownLive PROVE DownLive'
    OBVIOUS
  <2>1. CASE Tftp!Last("down") \in datagrams
    <3>1. CASE Tftp!Last("down") = msg
      <4>1. down.from = 0 /\ msg.kind = "read"
        BY <1>3, <3>1 DEF Tftp!Last, Tftp!Client, Tftp!Message
      <4> QED BY <1>1, <1>5, <4>1 DEF DownLive
    <3>2. CASE Tftp!Last("down") # msg
      BY <1>1, <2>1, <3>2 DEF DownLive, Tftp!Last, Tftp!Client, Tftp!Message
    <3> QED BY <3>1, <3>2
  <2>2. CASE \E s \in Transfers :
               down.from \in {0, s} /\ transfer[s].kind = "read" /\ transfer[s].pc \in {"start", "send"}
    BY <1>1, <1>4, <1>5, <2>2 DEF DownLive
  <2>3. CASE \E m \in datagrams : /\ m.client = "down" /\ m.kind = "data"
                                  /\ down.from \in {0, m.socket}
                                  /\ m.block \in {down.next - 1, down.next}
    BY <1>1, <1>3, <2>3 DEF DownLive
  <2> QED BY <2>1, <2>2, <2>3 DEF DownLive
<1>17. UpCount' /\ DownCount'
  BY <1>1, <1>7, <1>15, <1>16, UpCountGoesOn, DownCountGoesOn DEF TftpTypes
<1> QED BY <1>6, <1>9, <1>10, <1>11, <1>14, <1>17 DEF TftpInv

-----------------------------------------------------------------------------
(* Steps of the network and of the clients' timers *)

LEMMA ThreadsRest ==
    ASSUME TftpAssumption, TftpInv, TftpTypes', UNCHANGED <<file, transfer, old, new, shown>>,
           ClientKeeps(up, up'), ClientKeeps(down, down'), troubles <= troubles'
    PROVE  Keeps /\ ContentInv' /\ \A t \in Transfers : ThreadInv(t)'
<1>1. TftpTypes /\ up \in ClientRecords /\ up' \in ClientRecords
  BY DEF TftpInv, TftpTypes
<1>2. \A t \in Transfers : ThreadKeeps(transfer[t], transfer[t]')
  BY <1>1, SameThread DEF TftpTypes
<1>3. Keeps
  BY <1>1, <1>2, SameFile DEF Keeps, TftpTypes
<1>4. ContentInv'
  BY <1>1, FileRests DEF TftpInv, ClientKeeps
<1>5. ASSUME NEW t \in Transfers PROVE ThreadInv(t)'
  BY <1>1, <1>3, ThreadRests, SameFile DEF TftpTypes
<1> QED BY <1>3, <1>4, <1>5

LEMMA IgnoredStep ==
    ASSUME TftpAssumption, TftpInv, NEW msg, NEW t \in Transfers, Tftp!Ignored(t, msg)
    PROVE  TftpInv'
<1>1. /\ TftpTypes /\ datagrams' = datagrams \ {msg} /\ msg.socket = t /\ transfer[t].pc # "wait"
      /\ UNCHANGED <<file, transfer, up, down, old, new, shown, unlucky, troubles>>
  BY DEF Tftp!Ignored, TftpInv
<1>2. TftpTypes' /\ ClientKeeps(up, up') /\ ClientKeeps(down, down') /\ troubles <= troubles'
  BY <1>1, SameClient DEF TftpTypes
<1>3. Keeps /\ ContentInv' /\ \A s \in Transfers : ThreadInv(s)'
  BY <1>1, <1>2, ThreadsRest
<1>4. UpInv' /\ GotInv' /\ DownInv'
  BY <1>1, UpRests, GotRests, DownRests DEF TftpInv, TftpTypes
<1>5. MessagesInv'
  BY <1>1, <1>2, <1>3, MessagesAreKept
<1>6. CASE /\ up.from # 0 /\ up.from = t /\ transfer[t].kind = "write"
           /\ msg = Tftp!Message("up", up.from, "data", msg.block, Tftp!Block(new, msg.block))
  <2>1. transfer[t].pc = "gone"
    BY <1>1, <1>6 DEF TftpInv, UpInv
  <2>2. UpCount'
    BY <1>1, <1>6, <2>1 DEF UpCount
  <2>3. \A m \in datagrams : m.client = "down" => m \in datagrams'
    BY <1>1, <1>6 DEF Tftp!Message
  <2>4. DownCount'
    BY <1>1, <2>3, DownCountRests DEF TftpTypes
  <2> QED BY <1>2, <1>3, <1>4, <1>5, <2>2, <2>4 DEF TftpInv
<1>7. CASE /\ down.from # 0 /\ down.from = t /\ transfer[t].kind = "read"
           /\ msg = Tftp!Message("down", down.from, "ack", msg.block, <<>>)
  <2>1. \A m \in datagrams : m.client = "up" => m \in datagrams'
    BY <1>1, <1>7 DEF Tftp!Message
  <2>2. UpCount'
    BY <1>1, <1>3, <2>1, UpCountRests DEF TftpTypes, Keeps
  <2>3. DownCount'
    <3>1. ASSUME troubles = 0, ~Excused, down.pc = "active" PROVE DownLive'
      <4>1. transfer[t].pc = "send"
        BY <1>1, <1>7, <3>1 DEF TftpInv, DownInv
      <4> QED BY <1>1, <1>7, <4>1 DEF DownLive
    <3>2. DownCount /\ (Excused' <=> Excused) /\ down \in ClientRecords /\ Resends \in Nat /\ unlucky \in Nat
      BY <1>1 DEF TftpInv, Excused, TftpTypes, TftpAssumption
    <3>3. Resends - down.resends \in Int
      BY <3>2 DEF ClientRecords
    <3> QED BY <1>1, <3>1, <3>2, <3>3 DEF DownCount
  <2> QED BY <1>2, <1>3, <1>4, <1>5, <2>2, <2>3 DEF TftpInv
<1> QED BY <1>1, <1>6, <1>7, ForThread DEF Tftp!Ignored

\* Whatever is lost or repeated makes up for a repetition.
LEMMA UnluckyCounts ==
    ASSUME TftpAssumption, TftpInv, UNCHANGED <<transfer, up, down, old, new, troubles>>,
               unlucky' = unlucky + 1
    PROVE  UpCount' /\ DownCount'
<1>1. /\ up \in ClientRecords /\ down \in ClientRecords /\ unlucky \in Nat /\ Resends \in Nat
      /\ UpCount /\ DownCount /\ (Excused' <=> Excused)
  BY DEF TftpInv, TftpTypes, TftpAssumption, Excused
<1>2. Resends - up.resends \in Int /\ Resends - down.resends \in Int
  BY <1>1 DEF ClientRecords
<1> QED BY <1>1, <1>2 DEF UpCount, DownCount

LEMMA LastIs ==
    ASSUME TftpAssumption, TftpInv, NEW c \in Tftp!Clients, Tftp!Client(c).pc # "idle"
    PROVE  MsgInv(Tftp!Last(c)) /\ Tftp!Last(c).client = c
<1>1. up \in ClientRecords /\ down \in ClientRecords
  BY DEF TftpInv, TftpTypes
<1>2. up.from # 0 => up.next \in 1 .. up.next
  BY <1>1 DEF TftpInv, UpInv, ClientRecords
<1>3. down.from # 0 => down.next - 1 \in 1 .. down.next - 1
  BY <1>1 DEF TftpInv, DownInv, ClientRecords
<1> QED BY <1>2, <1>3 DEF MsgInv, Tftp!Last, Tftp!Client, Tftp!Clients, Tftp!Message

LEMMA LostStep ==
    ASSUME TftpAssumption, TftpInv, NEW msg, Tftp!LostDatagram(msg)
    PROVE  TftpInv'
<1>1. /\ TftpTypes /\ datagrams' = datagrams \ {msg}
      /\ UNCHANGED <<file, transfer, up, down, old, new, shown, troubles>>
      /\ unlucky' = unlucky + 1 /\ unlucky + troubles < MaxSetbacks
  BY DEF Tftp!LostDatagram, Tftp!Unlucky, TftpInv
<1>2. TftpTypes' /\ ClientKeeps(up, up') /\ ClientKeeps(down, down') /\ troubles <= troubles'
  BY <1>1, SameClient DEF TftpTypes, TftpAssumption
<1>3. Keeps /\ ContentInv' /\ \A s \in Transfers : ThreadInv(s)'
  BY <1>1, <1>2, ThreadsRest
<1>4. UpInv' /\ GotInv' /\ DownInv'
  BY <1>1, UpRests, GotRests, DownRests DEF TftpInv, TftpTypes
<1>5. MessagesInv'
  BY <1>1, <1>2, <1>3, MessagesAreKept
<1>6. UpCount' /\ DownCount'
  BY <1>1, UnluckyCounts
<1> QED BY <1>2, <1>3, <1>4, <1>5, <1>6 DEF TftpInv

LEMMA RepeatedStep ==
    ASSUME TftpAssumption, TftpInv, NEW c \in Tftp!Clients, Tftp!Repeated(c)
    PROVE  TftpInv'
<1>1. /\ TftpTypes /\ datagrams' = datagrams \cup {Tftp!Last(c)}
      /\ UNCHANGED <<file, transfer, up, down, old, new, shown, troubles>>
      /\ unlucky' = unlucky + 1 /\ unlucky + troubles < MaxSetbacks
  BY DEF Tftp!Repeated, Tftp!Unlucky, TftpInv
<1>2. TftpTypes' /\ ClientKeeps(up, up') /\ ClientKeeps(down, down') /\ troubles <= troubles'
  BY <1>1, SameClient DEF TftpTypes, TftpAssumption
<1>3. Keeps /\ ContentInv' /\ \A s \in Transfers : ThreadInv(s)'
  BY <1>1, <1>2, ThreadsRest
<1>4. UpInv' /\ GotInv' /\ DownInv'
  BY <1>1, UpRests, GotRests, DownRests DEF TftpInv, TftpTypes
<1>5. MessagesInv'
  <2>1. MsgInv(Tftp!Last(c))
    BY LastIs DEF Tftp!Repeated
  <2>2. \A msg \in datagrams' : MsgInv(msg)
    BY <1>1, <2>1 DEF TftpInv, MessagesInv
  <2>3. \A msg \in datagrams' : MsgInv(msg)'
    BY <1>2, <1>3, <2>2, MessageIsKept
  <2> QED BY <2>3 DEF MessagesInv
<1>6. UpCount' /\ DownCount'
  BY <1>1, UnluckyCounts
<1> QED BY <1>2, <1>3, <1>4, <1>5, <1>6 DEF TftpInv

LEMMA BeginStep ==
    ASSUME TftpAssumption, TftpInv, NEW c \in Tftp!Clients, Tftp!Begin(c)
    PROVE  TftpInv'
<1>0. PICK m : m = Tftp!Last(c)
  OBVIOUS
<1>1. /\ TftpTypes /\ datagrams' = datagrams \cup {m} /\ Tftp!Client(c).pc = "idle"
      /\ UNCHANGED <<file, transfer, old, new, shown, unlucky, troubles>>
  BY <1>0 DEF Tftp!Begin, TftpInv
<1>2. CASE c = "up"
  <2>1. up.pc = "idle" /\ up' = [up EXCEPT !.pc = "active"] /\ down' = down
    BY <1>2 DEF Tftp!Begin, Tftp!Client, Tftp!Is
  <2>2. up.from = 0 /\ up.resends = Resends /\ Resends \in Nat
           /\ m = Tftp!Message("up", 0, "write", 0, <<>>)
    BY <1>0, <1>2, <2>1 DEF TftpInv, UpInv, Tftp!Last, TftpAssumption, Tftp!Client
  <2>3. up \in ClientRecords /\ up' \in ClientRecords /\ up'.pc = "active" /\ up'.from = 0
        /\ up'.next = up.next /\ up'.resends = Resends
    BY <1>1, <2>1, <2>2 DEF TftpTypes, ClientRecords
  <2>4. TftpTypes' /\ ClientKeeps(up, up') /\ ClientKeeps(down, down') /\ troubles <= troubles'
    BY <1>1, <2>1, <2>2, <2>3, SameClient DEF TftpTypes, ClientKeeps, ClientRecords
  <2>5. Keeps /\ ContentInv' /\ \A s \in Transfers : ThreadInv(s)'
    BY <1>1, <2>4, ThreadsRest
  <2>6. UpInv'
    BY <2>2, <2>3 DEF TftpInv, UpInv
  <2>7. GotInv' /\ DownInv'
    BY <1>1, <2>1, GotRests, DownRests DEF TftpInv, TftpTypes
  <2>8. MsgInv(m)'
    BY <2>2, <2>3 DEF MsgInv, Tftp!Message
  <2>9. MessagesInv'
    BY <1>1, <2>4, <2>5, <2>8, MessagesAreKept
  <2>10. UpCount'
    <3>1. UpLive'
      BY <1>1, <2>2, <2>3 DEF UpLive, Tftp!Last, Tftp!Client, Tftp!Message
    <3> QED BY <1>1, <2>2, <2>3, <3>1 DEF UpCount, TftpTypes
  <2>11. DownCount'
    BY <1>1, <2>1, DownCountRests DEF TftpTypes
  <2> QED BY <2>4, <2>5, <2>6, <2>7, <2>9, <2>10, <2>11 DEF TftpInv
<1>4. CASE c = "down"
  <2>1. down.pc = "idle" /\ down' = [down EXCEPT !.pc = "active"] /\ up' = up
    BY <1>4 DEF Tftp!Begin, Tftp!Client, Tftp!Is
  <2>2. down.from = 0 /\ down.resends = Resends /\ Resends \in Nat
           /\ m = Tftp!Message("down", 0, "read", 0, <<>>)
    BY <1>0, <1>1, <1>4, <2>1 DEF TftpInv, DownInv, Tftp!Last, TftpAssumption, Tftp!Client
  <2>3. down \in ClientRecords /\ down' \in ClientRecords /\ down'.pc = "active" /\ down'.from = 0
        /\ down'.next = down.next /\ down'.resends = Resends /\ down'.got = down.got
    BY <1>1, <2>1, <2>2 DEF TftpTypes, ClientRecords
  <2>4. TftpTypes' /\ ClientKeeps(up, up') /\ ClientKeeps(down, down') /\ troubles <= troubles'
    BY <1>1, <2>1, <2>2, <2>3, SameClient DEF TftpTypes, ClientKeeps, ClientRecords
  <2>5. Keeps /\ ContentInv' /\ \A s \in Transfers : ThreadInv(s)'
    BY <1>1, <2>4, ThreadsRest
  <2>6. DownInv'
    BY <2>2, <2>3 DEF TftpInv, DownInv
  <2>7. UpInv' /\ GotInv'
    BY <1>1, <2>1, <2>3, UpRests, GotRests DEF TftpInv, TftpTypes
  <2>8. MsgInv(m)'
    BY <2>2, <2>3 DEF MsgInv, Tftp!Message
  <2>9. MessagesInv'
    BY <1>1, <2>4, <2>5, <2>8, MessagesAreKept
  <2>10. DownCount'
    <3>1. DownLive'
      BY <1>1, <2>2, <2>3 DEF DownLive, Tftp!Last, Tftp!Client, Tftp!Message
    <3> QED BY <1>1, <2>2, <2>3, <3>1 DEF DownCount, TftpTypes
  <2>11. UpCount'
    <3>1. \A s \in Transfers : ThreadKeeps(transfer[s], transfer[s]')
      BY <2>5 DEF Keeps
    <3> QED BY <1>1, <2>1, <3>1, UpCountRests DEF TftpTypes
  <2> QED BY <2>4, <2>5, <2>6, <2>7, <2>9, <2>10, <2>11 DEF TftpInv
<1> QED BY <1>2, <1>4 DEF Tftp!Clients

-----------------------------------------------------------------------------
(* Steps of the clients *)

LEMMA QuietIs ==
    ASSUME TftpInv
    PROVE  (Tftp!Quiet("up") => ~UpLive) /\ (Tftp!Quiet("down") => ~DownLive)
<1>1. Tftp!Last("up").client = "up" /\ Tftp!Last("down").client = "down"
  BY DEF Tftp!Last, Tftp!Client, Tftp!Message
<1> QED BY <1>1 DEF Tftp!Quiet, UpLive, DownLive, Tftp!ClientOf, Tftp!Message

LEMMA UpResendStep ==
    ASSUME TftpAssumption, TftpInv, Tftp!Resend("up")
    PROVE  TftpInv'
<1>0. PICK m : m = Tftp!Last("up")
  OBVIOUS
<1>1. /\ TftpTypes /\ up.pc = "active" /\ UNCHANGED <<file, transfer, down, old, new, shown, unlucky>>
      /\ IF Tftp!Quiet("up") THEN troubles' = troubles
         ELSE unlucky + troubles < MaxSetbacks /\ troubles' = troubles + 1
      /\ \/ /\ up.resends > 0 /\ up' = [up EXCEPT !.resends = @ - 1] /\ datagrams' = datagrams \cup {m}
         \/ /\ up.resends = 0 /\ up' = [up EXCEPT !.pc = "failed"] /\ datagrams' = datagrams
  BY <1>0 DEF Tftp!Resend, TftpInv, Tftp!Client, Tftp!Is, Tftp!Trouble
<1>2. up \in ClientRecords /\ unlucky \in Nat /\ troubles \in Nat /\ MaxSetbacks \in 0 .. Resends /\ Resends \in Nat
  BY <1>1 DEF TftpTypes, TftpAssumption
<1>3. /\ up' \in ClientRecords /\ up'.from = up.from /\ up'.next = up.next
      /\ IF up.resends > 0 THEN up'.pc = "active" /\ up'.resends = up.resends - 1 ELSE up'.pc = "failed"
  BY <1>1, <1>2 DEF ClientRecords
<1>4. troubles' \in Nat /\ troubles <= troubles' /\ unlucky + troubles' <= MaxSetbacks
  BY <1>1, <1>2 DEF TftpTypes
<1>5. TftpTypes' /\ ClientKeeps(up, up') /\ ClientKeeps(down, down')
  BY <1>1, <1>2, <1>3, <1>4, SameClient DEF TftpTypes, ClientKeeps, ClientRecords
<1>6. Keeps /\ ContentInv' /\ \A s \in Transfers : ThreadInv(s)'
  BY <1>1, <1>4, <1>5, ThreadsRest
<1>7. GotInv' /\ DownInv'
  BY <1>1, <1>2, <1>4, GotRests, DownRests DEF TftpInv
<1>8. MessagesInv'
  <2>1. MsgInv(m)
    BY <1>0, <1>1, LastIs DEF Tftp!Client, Tftp!Clients
  <2>2. \A msg \in datagrams' : MsgInv(msg)
    BY <1>1, <2>1 DEF TftpInv, MessagesInv
  <2>3. \A msg \in datagrams' : MsgInv(msg)'
    BY <1>5, <1>6, <2>2, MessageIsKept
  <2> QED BY <2>3 DEF MessagesInv
<1>9. troubles' = 0 => troubles = 0 /\ Tftp!Quiet("up") /\ ~UpLive
  BY <1>1, <1>2, QuietIs
<1>10. UpInv'
  <2>1. (Tftp!IsUploaded' <=> Tftp!IsUploaded) /\ At(up.next)' = At(up.next) /\ Base' = Base
    BY <1>1, <1>3 DEF Tftp!IsUploaded, Tftp!Overwritten, At, Base
  <2>2. \A k : IsMix(file, k)' <=> IsMix(file, k)
    BY <1>1, <2>1 DEF IsMix
  <2>3. At(up'.next) = At(up.next) /\ (troubles' = 0 => troubles = 0)
    BY <1>3, <1>9
  <2>4. ASSUME up'.pc = "failed", troubles' = 0 PROVE Settled'
    <3>1. up.resends = 0 /\ troubles = 0 /\ ~UpLive
      BY <1>2, <1>3, <1>9, <2>4 DEF ClientRecords
    <3>2. up.from # 0 /\ transfer[up.from].pc = "gone"
      <4>1. UpCount
        BY DEF TftpInv
      <4> QED BY <1>1, <1>2, <3>1, <4>1 DEF UpCount, TftpTypes
    <3>3. Tftp!IsUploaded
      BY <1>1, <3>1, <3>2 DEF TftpInv, UpInv
    <3> QED BY <1>1, <1>3, <2>1, <3>2, <3>3 DEF Settled
  <2> QED BY <1>1, <1>3, <2>1, <2>2, <2>3, <2>4 DEF TftpInv, UpInv, At
<1>11. UpCount'
  <2>1. CASE up'.pc = "active"
    <3>1. UpLive'
      <4>1. m = Tftp!Last("up")'
        BY <1>0, <1>1, <1>3 DEF Tftp!Last, Tftp!Client, Tftp!Message, Tftp!Block, Tftp!BlockAt
      <4> QED BY <1>1, <1>3, <2>1, <4>1 DEF UpLive
    <3>2. UpCount
      BY DEF TftpInv
    <3> QED BY <1>1, <1>2, <1>3, <1>9, <2>1, <3>1, <3>2 DEF UpCount, ClientRecords
  <2>2. CASE up'.pc # "active"
    BY <2>2 DEF UpCount
  <2> QED BY <2>1, <2>2
<1>12. DownCount'
  BY <1>1, <1>2, <1>4, DownCountRests
<1> QED BY <1>5, <1>6, <1>7, <1>8, <1>10, <1>11, <1>12 DEF TftpInv

LEMMA DownResendStep ==
    ASSUME TftpAssumption, TftpInv, Tftp!Resend("down")
    PROVE  TftpInv'
<1>0. PICK m : m = Tftp!Last("down")
  OBVIOUS
<1>1. /\ TftpTypes /\ down.pc = "active" /\ UNCHANGED <<file, transfer, up, old, new, shown, unlucky>>
      /\ IF Tftp!Quiet("down") THEN troubles' = troubles
         ELSE unlucky + troubles < MaxSetbacks /\ troubles' = troubles + 1
      /\ \/ /\ down.resends > 0 /\ down' = [down EXCEPT !.resends = @ - 1] /\ datagrams' = datagrams \cup {m}
         \/ /\ down.resends = 0 /\ down' = [down EXCEPT !.pc = "failed"] /\ datagrams' = datagrams
  BY <1>0 DEF Tftp!Resend, TftpInv, Tftp!Client, Tftp!Is, Tftp!Trouble
<1>2. down \in ClientRecords /\ unlucky \in Nat /\ troubles \in Nat /\ MaxSetbacks \in 0 .. Resends
         /\ Resends \in Nat
  BY <1>1 DEF TftpTypes, TftpAssumption
<1>3. /\ down' \in ClientRecords /\ down'.from = down.from /\ down'.next = down.next
      /\ down'.got = down.got
      /\ IF down.resends > 0 THEN down'.pc = "active" /\ down'.resends = down.resends - 1 ELSE down'.pc = "failed"
  BY <1>1, <1>2 DEF ClientRecords
<1>4. troubles' \in Nat /\ troubles <= troubles' /\ unlucky + troubles' <= MaxSetbacks
  BY <1>1, <1>2 DEF TftpTypes
<1>5. TftpTypes' /\ ClientKeeps(up, up') /\ ClientKeeps(down, down')
  BY <1>1, <1>2, <1>3, <1>4, SameClient DEF TftpTypes, ClientKeeps, ClientRecords
<1>6. Keeps /\ ContentInv' /\ \A s \in Transfers : ThreadInv(s)'
  BY <1>1, <1>4, <1>5, ThreadsRest
<1>7. UpInv' /\ GotInv'
  BY <1>1, <1>2, <1>3, <1>4, UpRests, GotRests DEF TftpInv
<1>8. MessagesInv'
  <2>1. MsgInv(m)
    BY <1>0, <1>1, LastIs DEF Tftp!Client, Tftp!Clients
  <2>2. \A msg \in datagrams' : MsgInv(msg)
    BY <1>1, <2>1 DEF TftpInv, MessagesInv
  <2>3. \A msg \in datagrams' : MsgInv(msg)'
    BY <1>5, <1>6, <2>2, MessageIsKept
  <2> QED BY <2>3 DEF MessagesInv
<1>9. troubles' = 0 => troubles = 0 /\ Tftp!Quiet("down") /\ ~DownLive
  BY <1>1, <1>2, QuietIs
<1>10. (Excused' <=> Excused) /\ DownCount
  BY <1>1 DEF Excused, TftpInv
<1>11. DownInv'
  <2>1. ASSUME down'.pc = "failed", troubles' = 0 PROVE Excused
    BY <1>1, <1>2, <1>3, <1>9, <1>10, <2>1 DEF DownCount, ClientRecords, TftpTypes
  <2> QED BY <1>1, <1>3, <1>9, <1>10, <2>1 DEF TftpInv, DownInv
<1>12. DownCount'
  <2>1. CASE down'.pc = "active"
    <3>1. DownLive'
      <4>1. m = Tftp!Last("down")'
        BY <1>0, <1>1, <1>3 DEF Tftp!Last, Tftp!Client, Tftp!Message
      <4> QED BY <1>1, <1>3, <2>1, <4>1 DEF DownLive
    <3> QED BY <1>1, <1>2, <1>3, <1>9, <1>10, <2>1, <3>1 DEF DownCount, ClientRecords
  <2>2. CASE down'.pc # "active"
    BY <2>2 DEF DownCount
  <2> QED BY <2>1, <2>2
<1>13. UpCount'
  <2>1. \A s \in Transfers : ThreadKeeps(transfer[s], transfer[s]')
    BY <1>6 DEF Keeps
  <2> QED BY <1>1, <1>2, <1>4, <2>1, UpCountRests
<1> QED BY <1>5, <1>6, <1>7, <1>8, <1>11, <1>12, <1>13 DEF TftpInv

LEMMA UpHearOtherStep ==
    ASSUME TftpAssumption, TftpInv, NEW msg, Tftp!HearOther("up", msg)
    PROVE  TftpInv'
<1>1. \/ msg = Tftp!Message("up", msg.socket, "ack", msg.block, <<>>) /\ UpAckInv(msg)
      \/ msg = Tftp!Message("up", msg.socket, "error", 0, <<>>) /\ ErrorInv(msg)
  BY ForUp DEF Tftp!HearOther
<1> DEFINE mine == up.pc = "active" /\ up.from \in {0, msg.socket}
<1>2. /\ TftpTypes /\ UNCHANGED <<file, transfer, down, old, new, shown, unlucky, troubles>>
      /\ up' = [up EXCEPT !.pc = IF mine /\ msg.kind = "error" THEN "failed" ELSE @]
      /\ datagrams' = datagrams \ {msg}
  BY <1>1 DEF Tftp!HearOther, TftpInv, Tftp!Client, Tftp!Is, Tftp!Message
<1>3. /\ up \in ClientRecords /\ up' \in ClientRecords /\ up'.from = up.from /\ up'.next = up.next
      /\ up'.resends = up.resends /\ up'.pc = (IF mine /\ msg.kind = "error" THEN "failed" ELSE up.pc)
  BY <1>2 DEF TftpTypes, ClientRecords
<1>4. TftpTypes' /\ ClientKeeps(up, up') /\ ClientKeeps(down, down') /\ troubles <= troubles'
  BY <1>2, <1>3, SameClient DEF TftpTypes, ClientKeeps, ClientRecords
<1>5. Keeps /\ ContentInv' /\ \A s \in Transfers : ThreadInv(s)'
  BY <1>2, <1>4, ThreadsRest
<1>6. GotInv' /\ DownInv'
  BY <1>2, <1>4, GotRests, DownRests DEF TftpInv, TftpTypes
<1>7. MessagesInv'
  BY <1>2, <1>4, <1>5, MessagesAreKept
<1>8. troubles = 0 => up' = up
  <2>1. CASE msg.kind = "error"
    <3>1. ErrorInv(msg) /\ msg.client = "up"
      BY <1>1, <2>1 DEF Tftp!Message
    <3>2. troubles = 0 => Tftp!Left(msg.socket)
      BY <3>1 DEF ErrorInv
    <3>3. troubles = 0 => ~mine
      BY <3>1, <3>2 DEF Tftp!Left, Tftp!Client, ErrorInv
    <3> QED BY <1>2, <1>3, <3>3 DEF ClientRecords
  <2>2. CASE msg.kind # "error"
    BY <1>2, <1>3, <2>2 DEF ClientRecords
  <2> QED BY <2>1, <2>2
<1>9. UpInv'
  <2>1. CASE up' = up
    BY <1>2, <1>4, <2>1, UpRests DEF TftpInv, TftpTypes
  <2>2. CASE up' # up
    <3>1. troubles # 0 /\ up'.pc = "failed" /\ up.pc = "active"
      BY <1>3, <1>8, <2>2, <1>2 DEF ClientRecords
    <3>2. (Tftp!IsUploaded' <=> Tftp!IsUploaded) /\ At(up.next)' = At(up.next) /\ Base' = Base
      BY <1>2, <1>3 DEF Tftp!IsUploaded, Tftp!Overwritten, At, Base
    <3>3. \A k : IsMix(file, k)' <=> IsMix(file, k)
      BY <1>2, <3>2 DEF IsMix
    <3> QED BY <1>2, <1>3, <3>1, <3>2, <3>3 DEF TftpInv, UpInv, At
  <2> QED BY <2>1, <2>2
<1>10. \A s \in Transfers : ThreadKeeps(transfer[s], transfer[s]')
  BY <1>5 DEF Keeps
<1>11. UpCount'
  <2>1. CASE up'.pc # "active"
    BY <2>1 DEF UpCount
  <2>2. CASE up'.pc = "active"
    <3>1. up.pc = "active" /\ (mine => msg.kind # "error")
      BY <1>3, <2>2
    <3>2. ASSUME UpLive PROVE UpLive'
      <4>1. Tftp!Last("up")' = Tftp!Last("up") /\ Tftp!Last("up") # msg
        BY <1>1, <1>2, <1>3 DEF Tftp!Last, Tftp!Client, Tftp!Message, Tftp!Block, Tftp!BlockAt
      <4>2. ASSUME NEW s \in Transfers, up.from \in {0, s},
                   Tftp!Message("up", s, "ack", up.next, <<>>) \in datagrams
            PROVE  Tftp!Message("up", s, "ack", up.next, <<>>) \in datagrams'
        <5>1. CASE msg = Tftp!Message("up", s, "ack", up.next, <<>>)
          BY <3>1, <4>2, <5>1 DEF Tftp!HearOther, Tftp!Expected, Tftp!Client, Tftp!Message
        <5> QED BY <1>2, <4>2, <5>1
      <4>3. \A s : Tftp!Message("up", s, "ack", up.next, <<>>)' =
                Tftp!Message("up", s, "ack", up.next, <<>>)
        BY <1>3 DEF Tftp!Message
      <4> QED BY <1>2, <1>3, <3>2, <4>1, <4>2, <4>3 DEF UpLive
    <3> QED BY <1>2, <1>3, <1>4, <1>10, <3>1, <3>2, UpCountGoesOn DEF TftpTypes
  <2> QED BY <2>1, <2>2
<1>12. DownCount'
  <2>1. \A m \in datagrams : m.client = "down" => m \in datagrams'
    BY <1>1, <1>2 DEF Tftp!Message
  <2> QED BY <1>2, <1>4, <2>1, DownCountRests DEF TftpTypes
<1> QED BY <1>4, <1>5, <1>6, <1>7, <1>9, <1>11, <1>12 DEF TftpInv

LEMMA DownHearOtherStep ==
    ASSUME TftpAssumption, TftpInv, NEW msg, Tftp!HearOther("down", msg)
    PROVE  TftpInv'
<1>1. \/ msg = Tftp!Message("down", msg.socket, "data", msg.block, msg.data) /\ DownDataInv(msg)
      \/ msg = Tftp!Message("down", msg.socket, "error", 0, <<>>) /\ ErrorInv(msg)
  BY ForDown DEF Tftp!HearOther
<1> DEFINE mine == down.pc = "active" /\ down.from \in {0, msg.socket}
           repeated == mine /\ msg.kind = "data" /\ msg.block < down.next
           ack == Tftp!Message("down", msg.socket, "ack", msg.block, <<>>)
<1>2. /\ TftpTypes /\ UNCHANGED <<file, transfer, up, old, new, shown, unlucky, troubles>>
      /\ down' = [down EXCEPT !.pc = IF mine /\ msg.kind = "error" THEN "failed" ELSE @]
      /\ datagrams' = (datagrams \ {msg}) \cup (IF repeated THEN {ack} ELSE {})
  BY DEF Tftp!HearOther, TftpInv, Tftp!Client, Tftp!Is
<1>3. /\ down \in ClientRecords /\ down' \in ClientRecords /\ down'.from = down.from
      /\ down'.next = down.next
      /\ down'.got = down.got
      /\ down'.resends = down.resends /\ down'.pc = (IF mine /\ msg.kind = "error" THEN "failed" ELSE down.pc)
  BY <1>2 DEF TftpTypes, ClientRecords
<1>4. TftpTypes' /\ ClientKeeps(up, up') /\ ClientKeeps(down, down') /\ troubles <= troubles'
  BY <1>2, <1>3, SameClient DEF TftpTypes, ClientKeeps, ClientRecords
<1>5. Keeps /\ ContentInv' /\ \A s \in Transfers : ThreadInv(s)'
  BY <1>2, <1>4, ThreadsRest
<1>6. UpInv' /\ GotInv'
  BY <1>2, <1>3, <1>4, UpRests, GotRests DEF TftpInv, TftpTypes
<1>7. repeated => down.from # 0 /\ msg.socket = down.from /\ msg.block \in 1 .. down.next - 1
  <2>1. repeated => DownDataInv(msg) /\ (down.from = 0 => down.next = 1) /\ down.next \in Nat
    BY <1>1, <1>3 DEF Tftp!Message, TftpInv, DownInv, ClientRecords
  <2> QED BY <2>1 DEF DownDataInv
<1>8. MessagesInv'
  <2>1. ASSUME repeated PROVE MsgInv(ack)'
    BY <1>3, <1>7, <2>1 DEF MsgInv, Tftp!Message
  <2> QED BY <1>2, <1>4, <1>5, <2>1, MessagesAreKept
<1>9. Excused' <=> Excused
  BY <1>2 DEF Excused
<1>10. troubles = 0 /\ ~Excused => down' = down
  <2>1. CASE msg.kind = "error"
    <3>1. ErrorInv(msg) /\ msg.client = "down"
      BY <1>1, <2>1 DEF Tftp!Message
    <3>2. troubles = 0 /\ ~Excused => Tftp!Left(msg.socket)
      BY <3>1 DEF ErrorInv
    <3>3. troubles = 0 /\ ~Excused => ~mine
      BY <3>1, <3>2 DEF Tftp!Left, Tftp!Client, ErrorInv
    <3> QED BY <1>2, <1>3, <3>3 DEF ClientRecords
  <2>2. CASE msg.kind # "error"
    BY <1>2, <1>3, <2>2 DEF ClientRecords
  <2> QED BY <2>1, <2>2
<1>11. DownInv'
  <2>1. DownInv
    BY DEF TftpInv
  <2>2. CASE down' = down
    BY <1>2, <1>4, <2>1, <2>2, DownRests DEF TftpTypes
  <2>3. CASE down' # down
    BY <1>2, <1>3, <1>9, <1>10, <2>1, <2>3 DEF DownInv
  <2> QED BY <2>2, <2>3
<1>12. DownCount'
  <2>1. CASE down'.pc # "active"
    BY <2>1 DEF DownCount
  <2>2. CASE down'.pc = "active"
    <3>1. down.pc = "active"
      BY <1>3, <2>2
    <3>2. ASSUME DownLive PROVE DownLive'
      <4>1. CASE Tftp!Last("down") \in datagrams
        <5>1. Tftp!Last("down")' = Tftp!Last("down") /\ Tftp!Last("down") # msg
          BY <1>1, <1>2, <1>3 DEF Tftp!Last, Tftp!Client, Tftp!Message
        <5> QED BY <1>2, <4>1, <5>1 DEF DownLive
      <4>2. CASE \E s \in Transfers :
                   down.from \in {0, s} /\ transfer[s].kind = "read" /\ transfer[s].pc \in {"start",
                                                                                 "send"}
        BY <1>2, <1>3, <4>2 DEF DownLive
      <4>3. CASE \E m \in datagrams : /\ m.client = "down" /\ m.kind = "data"
                                      /\ down.from \in {0, m.socket}
                                      /\ m.block \in {down.next - 1, down.next}
        <5>1. PICK m \in datagrams : /\ m.client = "down" /\ m.kind = "data"
                                     /\ down.from \in {0, m.socket}
                                     /\ m.block \in {down.next - 1, down.next}
          BY <4>3
        <5>2. CASE m # msg
          BY <1>2, <1>3, <5>1, <5>2 DEF DownLive
        <5>3. CASE m = msg
          <6>1. msg.block # down.next
            BY <3>1, <5>1, <5>3 DEF Tftp!HearOther, Tftp!Expected, Tftp!Client
          <6>2. repeated /\ msg.block = down.next - 1 /\ down.next \in Nat
            BY <1>3, <3>1, <5>1, <5>3, <6>1 DEF ClientRecords
          <6>3. ack = Tftp!Last("down")
            BY <1>7, <6>2 DEF Tftp!Last, Tftp!Client
          <6>4. Tftp!Last("down")' = Tftp!Last("down")
            BY <1>3 DEF Tftp!Last, Tftp!Client, Tftp!Message
          <6> QED BY <1>2, <6>2, <6>3, <6>4 DEF DownLive
        <5> QED BY <5>2, <5>3
      <4> QED BY <3>2, <4>1, <4>2, <4>3 DEF DownLive
    <3> QED BY <1>2, <1>3, <1>4, <3>1, <3>2, DownCountGoesOn DEF TftpTypes
  <2> QED BY <2>1, <2>2
<1>13. UpCount'
  <2>1. \A m \in datagrams : m.client = "up" => m \in datagrams'
    BY <1>1, <1>2 DEF Tftp!Message
  <2>2. \A s \in Transfers : ThreadKeeps(transfer[s], transfer[s]')
    BY <1>5 DEF Keeps
  <2> QED BY <1>2, <1>4, <2>1, <2>2, UpCountRests DEF TftpTypes
<1> QED BY <1>4, <1>5, <1>6, <1>8, <1>11, <1>12, <1>13 DEF TftpInv

LEMMA UpHearsStep ==
    ASSUME TftpAssumption, TftpInv, NEW msg, Tftp!UpHears(msg)
    PROVE  TftpInv'
<1> DEFINE s == msg.socket
<1>1. msg = Tftp!Message("up", s, "ack", up.next, <<>>) /\ UpAckInv(msg) /\ msg.block = up.next
      /\ up.pc = "active" /\ up.from \in {0, s}
  BY ForUp DEF Tftp!UpHears, Tftp!Expected, Tftp!Client, Tftp!Message
<1>2. /\ TftpTypes /\ UNCHANGED <<file, transfer, down, old, new, shown, unlucky, troubles>>
      /\ up \in ClientRecords /\ Resends \in Nat /\ 0 \notin Transfers
  BY DEF Tftp!UpHears, TftpInv, TftpTypes, TftpAssumption
<1>3. /\ s \in Transfers /\ s # 0 /\ transfer[s].kind = "write" /\ transfer[s].pc \in {"wait", "gone"}
      /\ transfer[s].pc = "wait" => up.next < transfer[s].next
      /\ transfer[s] \in ThreadRecords /\ ThreadInv(s) /\ WriterInv(s)
  <2>1. s \in Transfers /\ s # 0 /\ transfer[s].kind = "write" /\ transfer[s].pc # "start"
        /\ (transfer[s].pc = "wait" => up.next < transfer[s].next)
    BY <1>1, <1>2 DEF UpAckInv
  <2>2. ThreadInv(s) /\ transfer[s] \in ThreadRecords
    BY <1>2, <2>1 DEF TftpInv, TftpTypes
  <2> QED BY <2>1, <2>2 DEF ThreadInv, WriterInv
<1>4. UpInv /\ ContentInv /\ up.next \in Nat
  BY <1>2 DEF TftpInv, ClientRecords
<1>5. up.next * BlockLength = At(up.next + 1) /\ Len(new) \in Nat /\ At(up.next + 1) \in Nat
  <2>1. up.next + 1 \in Nat
    BY <1>4
  <2>2. up.next * BlockLength = At(up.next + 1) /\ (up.next + 1 >= 1 => At(up.next + 1) \in Nat)
    BY <1>4, <2>1, AtIs
  <2> QED BY <1>2, <1>4, <2>2, LenProperties DEF TftpTypes
<1>6. CASE up.next * BlockLength > Len(new)
  <2>1. up' = [up EXCEPT !.pc = "done"] /\ datagrams' = datagrams \ {msg}
    BY <1>6 DEF Tftp!UpHears
  <2>2. up' \in ClientRecords /\ up'.pc = "done" /\ up'.from = up.from /\ up'.next = up.next
    BY <1>2, <2>1 DEF ClientRecords
  <2>3. TftpTypes' /\ ClientKeeps(up, up') /\ ClientKeeps(down, down') /\ troubles <= troubles'
    BY <1>2, <2>2, SameClient DEF TftpTypes, ClientKeeps, ClientRecords
  <2>4. Keeps /\ ContentInv' /\ \A t \in Transfers : ThreadInv(t)'
    BY <1>2, <2>3, ThreadsRest
  <2>5. GotInv' /\ DownInv'
    BY <1>2, <2>3, GotRests, DownRests DEF TftpInv, TftpTypes
  <2>6. MessagesInv'
    BY <2>1, <2>3, <2>4, MessagesAreKept
  <2>7. up.next # 0
    BY <1>2, <1>5, <1>6 DEF TftpAssumption
  <2>8. up.from = s /\ Tftp!IsUploaded
    BY <1>1, <1>5, <1>6, <2>7 DEF UpAckInv
  <2>9. transfer[s].pc = "gone"
    <3>1. SUFFICES ASSUME transfer[s].pc = "wait" PROVE FALSE
      BY <1>3
    <3>2. transfer[s].pos = At(transfer[s].next) /\ transfer[s].pos <= Len(new) /\ transfer[s].next \in Nat
          /\ transfer[s].pos \in Nat
      BY <1>3, <1>4, <2>8, <3>1 DEF UpInv, WriterInv, ThreadRecords
    <3>3. At(up.next + 1) <= At(transfer[s].next)
      BY <1>3, <1>4, <3>1, <3>2, AtGrows
    <3> QED BY <1>5, <1>6, <3>2, <3>3
  <2>10. (Tftp!IsUploaded' <=> Tftp!IsUploaded) /\ At(up.next)' = At(up.next)
    BY <1>2, <2>2 DEF Tftp!IsUploaded, Tftp!Overwritten, At
  <2>11. UpInv'
    BY <1>2, <1>3, <1>4, <2>2, <2>8, <2>9, <2>10 DEF UpInv, Settled
  <2>12. UpCount'
    BY <2>2 DEF UpCount
  <2>13. DownCount'
    <3>1. \A m \in datagrams : m.client = "down" => m \in datagrams'
      BY <1>1, <2>1 DEF Tftp!Message
    <3> QED BY <1>2, <2>3, <3>1, DownCountRests DEF TftpTypes
  <2> QED BY <2>3, <2>4, <2>5, <2>6, <2>11, <2>12, <2>13 DEF TftpInv
<1>7. CASE ~(up.next * BlockLength > Len(new))
  <2>0. PICK m : m = Tftp!Message("up", s, "data", up.next + 1, Tftp!Block(new, up.next + 1))
    OBVIOUS
  <2>1. /\ up' = [up EXCEPT !.next = @ + 1, !.from = s, !.resends = Resends]
        /\ datagrams' = (datagrams \ {msg}) \cup {m}
    BY <1>7, <2>0 DEF Tftp!UpHears
  <2>2. up' \in ClientRecords /\ up'.pc = "active" /\ up'.from = s /\ up'.next = up.next + 1
           /\ up'.resends = Resends
    <3>1. up' = [pc |-> "active", next |-> up.next + 1, from |-> s, resends |-> Resends, got |-> up.got]
      BY <1>1, <1>2, <2>1 DEF ClientRecords
    <3>2. up.next + 1 \in Nat /\ s \in {0} \cup Transfers /\ Resends \in 0 .. Resends /\ up.got \in Seq(Tftp!Units)
      BY <1>2, <1>3 DEF ClientRecords
    <3> QED BY <3>1, <3>2 DEF ClientRecords
  <2>3. TftpTypes' /\ ClientKeeps(up, up') /\ ClientKeeps(down, down') /\ troubles <= troubles'
    BY <1>1, <1>2, <1>4, <2>2, SameClient DEF TftpTypes, ClientKeeps
  <2>4. Keeps /\ ContentInv' /\ \A t \in Transfers : ThreadInv(t)'
    BY <1>2, <2>3, ThreadsRest
  <2>5. GotInv' /\ DownInv'
    BY <1>2, <2>3, GotRests, DownRests DEF TftpInv, TftpTypes
  <2>6. MsgInv(m)'
    <3>1. m.block = up.next + 1 /\ m.block \in 1 .. up'.next
             /\ m = Tftp!Message("up", up'.from, "data", m.block, Tftp!Block(new', m.block))
      BY <1>2, <1>4, <2>0, <2>2 DEF Tftp!Message
    <3> QED BY <1>3, <2>2, <3>1 DEF MsgInv, Tftp!Message, Tftp!Block, Tftp!BlockAt
  <2>7. MessagesInv'
    BY <2>1, <2>3, <2>4, <2>6, MessagesAreKept
  <2>8. At(up'.next) <= Len(new) /\ up'.next # 0
    BY <1>4, <1>5, <1>7, <2>2
  <2>9. ASSUME transfer[s].pc = "wait"
        PROVE  transfer[s].next = up.next + 1 /\ transfer[s].pos <= Len(new)
                  /\ IsMix(file, transfer[s].pos)
    <3>1. up.next < transfer[s].next /\ transfer[s].next \in Nat
      BY <1>3, <2>9 DEF ThreadRecords
    <3>2. CASE up.from = s
      BY <1>3, <1>4, <2>9, <3>1, <3>2 DEF UpInv
    <3>3. CASE up.from = 0
      <4>1. up.next = 0 /\ transfer[s].next = 1 /\ transfer[s].pos = At(1)
        BY <1>3, <1>4, <2>9, <3>3 DEF UpInv, WriterInv
      <4>2. transfer[s].pos = 0
        BY <4>1, FirstAt
      <4>3. file = Base
        BY <1>3, <1>4, <2>9, <3>3 DEF ContentInv
      <4> QED BY <1>2, <1>5, <4>1, <4>2, <4>3, BaseIsMix DEF TftpTypes
    <3> QED BY <1>1, <3>2, <3>3
  <2>10. ASSUME transfer[s].pc = "gone", troubles = 0 PROVE Tftp!IsUploaded
    <3>1. up.from = s
      BY <1>1, <1>3, <2>10 DEF WriterInv
    <3> QED BY <1>1, <1>3, <1>4, <2>10, <3>1 DEF UpInv
  <2>11. Base' = Base /\ (Tftp!IsUploaded' <=> Tftp!IsUploaded)
            /\ \A k : IsMix(file, k)' <=> IsMix(file, k)
    BY <1>2 DEF Tftp!IsUploaded, Tftp!Overwritten, Base, IsMix
  <2>12. At(up.next)' = At(up'.next)
    BY DEF At
  <2>13. UpInv'
    BY <1>2, <1>3, <2>2, <2>8, <2>9, <2>10, <2>11, <2>12 DEF UpInv
  <2>14. UpCount'
    <3>1. Tftp!Last("up")' = m
      BY <1>2, <1>3, <2>0, <2>2 DEF Tftp!Last, Tftp!Client, Tftp!Message, Tftp!Block, Tftp!BlockAt
    <3>2. UpLive'
      BY <2>1, <3>1 DEF UpLive
    <3> QED BY <1>2, <2>2, <3>2 DEF UpCount, TftpTypes
  <2>15. DownCount'
    <3>1. \A x \in datagrams : x.client = "down" => x \in datagrams'
      BY <1>1, <2>1 DEF Tftp!Message
    <3> QED BY <1>2, <2>3, <3>1, DownCountRests DEF TftpTypes
  <2> QED BY <2>3, <2>4, <2>5, <2>7, <2>13, <2>14, <2>15 DEF TftpInv
<1> QED BY <1>6, <1>7

LEMMA DownHearsStep ==
    ASSUME TftpAssumption, TftpInv, NEW msg, Tftp!DownHears(msg)
    PROVE  TftpInv'
<1> DEFINE s == msg.socket
           n == down.next
<1>1. msg = Tftp!Message("down", s, "data", n, msg.data) /\ DownDataInv(msg) /\ msg.block = n
      /\ down.pc = "active" /\ down.from \in {0, s}
  BY ForDown DEF Tftp!DownHears, Tftp!Expected, Tftp!Client, Tftp!Message
<1>2. /\ TftpTypes /\ UNCHANGED <<file, transfer, up, old, new, shown, unlucky, troubles>>
      /\ down \in ClientRecords /\ Resends \in Nat /\ 0 \notin Transfers /\ BlockLength \in Nat \ {0}
  BY DEF Tftp!DownHears, TftpInv, TftpTypes, TftpAssumption
<1>3. /\ s \in Transfers /\ s # 0 /\ transfer[s].kind = "read" /\ transfer[s].pc # "start"
      /\ transfer[s] \in ThreadRecords /\ ThreadInv(s) /\ ReaderInv(s)
  <2>1. s \in Transfers /\ s # 0 /\ transfer[s].kind = "read" /\ transfer[s].pc # "start"
    BY <1>1, <1>2 DEF DownDataInv
  <2>2. ThreadInv(s) /\ transfer[s] \in ThreadRecords
    BY <1>2, <2>1 DEF TftpInv, TftpTypes
  <2> QED BY <2>1, <2>2 DEF ThreadInv
<1>4. DownInv /\ GotInv /\ n \in Nat /\ n >= 1
  BY <1>2 DEF TftpInv, DownInv, ClientRecords
<1>5. msg.data \in Seq(Tftp!Units) /\ down.got \in Seq(Tftp!Units)
         /\ Len(msg.data) \in 0 .. BlockLength /\ Len(down.got) \in Nat
      /\ Len(file) \in Nat
  <2>1. msg.data \in Seq(Tftp!Units) /\ down.got \in Seq(Tftp!Units) /\ Len(msg.data) <= BlockLength
           /\ file \in Seq(Tftp!Units)
    BY <1>1, <1>2 DEF DownDataInv, ClientRecords, TftpTypes
  <2>2. Len(msg.data) \in Nat /\ Len(down.got) \in Nat /\ Len(file) \in Nat
    BY <2>1, LenProperties
  <2> QED BY <1>2, <2>1, <2>2
<1>6. PICK ack : ack = Tftp!Message("down", s, "ack", n, <<>>)
  OBVIOUS
<1>7. PICK got : got = down.got \o msg.data
  OBVIOUS
<1> DEFINE short == Len(msg.data) < BlockLength
<1>8. /\ got \in Seq(Tftp!Units) /\ Len(got) = Len(down.got) + Len(msg.data)
      /\ \A i \in 1 .. Len(got) : got[i] = IF i <= Len(down.got) THEN down.got[i] ELSE msg.data[i - Len(down.got)]
  <2>1. /\ down.got \o msg.data \in Seq(Tftp!Units)
        /\ Len(down.got \o msg.data) = Len(down.got) + Len(msg.data)
        /\ \A i \in 1 .. Len(down.got) + Len(msg.data) : (down.got \o msg.data)[i] =
              IF i <= Len(down.got) THEN down.got[i] ELSE msg.data[i - Len(down.got)]
    BY <1>5, ConcatProperties
  <2> QED BY <1>7, <2>1
<1>9. /\ down' = [down EXCEPT !.pc = IF short THEN "done" ELSE @, !.next = @ + 1, !.from = s,
                              !.resends = Resends, !.got = @ \o msg.data]
      /\ datagrams' = (datagrams \ {msg}) \cup {ack}
  BY <1>1, <1>6 DEF Tftp!DownHears
<1>10. /\ down' \in ClientRecords /\ down'.pc = (IF short THEN "done" ELSE "active") /\ down'.next = n + 1
      /\ down'.from = s /\ down'.resends = Resends /\ down'.got = got
  <2>1. down' = [pc |-> IF short THEN "done" ELSE "active", next |-> n + 1, from |-> s,
                 resends |-> Resends,
                 got |-> got]
    BY <1>1, <1>2, <1>9, <1>7 DEF ClientRecords
  <2>2. n + 1 \in Nat /\ s \in {0} \cup Transfers /\ Resends \in 0 .. Resends
    BY <1>2, <1>3, <1>4
  <2> QED BY <1>8, <2>1, <2>2 DEF ClientRecords
<1>11. TftpTypes' /\ ClientKeeps(up, up') /\ ClientKeeps(down, down') /\ troubles <= troubles'
  BY <1>1, <1>2, <1>4, <1>10, SameClient DEF TftpTypes, ClientKeeps
<1>12. Keeps /\ ContentInv' /\ \A t \in Transfers : ThreadInv(t)'
  BY <1>2, <1>11, ThreadsRest
<1>13. UpInv'
  BY <1>2, <1>11, UpRests DEF TftpInv, TftpTypes
<1>14. MessagesInv'
  <2>1. ack.block = n /\ ack.block \in 1 .. down'.next - 1
           /\ ack = Tftp!Message("down", down'.from, "ack", ack.block, <<>>)
    BY <1>4, <1>6, <1>10 DEF Tftp!Message
  <2>2. MsgInv(ack)'
    BY <1>3, <1>10, <2>1 DEF MsgInv, Tftp!Message
  <2> QED BY <1>9, <1>11, <1>12, <2>2, MessagesAreKept
<1>15. Len(down.got) = At(n) /\ At(n) \in Nat /\ At(n + 1) = At(n) + BlockLength
  BY <1>1, <1>4, AtIs DEF GotInv
<1>16. Excused' <=> Excused
  BY <1>2 DEF Excused
<1>17. GotInv'
  <2>1. down'.pc # "done" => Len(got) = At(n + 1)
    BY <1>2, <1>5, <1>8, <1>10, <1>15
  <2>2. At(down.next)' = At(n + 1)
    BY <1>10 DEF At
  <2>3. ASSUME NEW i \in 1 .. Len(got) PROVE Mixed(got[i], i)
    <3>1. CASE i <= Len(down.got)
      <4>1. i \in 1 .. Len(down.got) /\ got[i] = down.got[i]
        <5>1. i \in Int /\ i >= 1
          BY <1>5, <1>8
        <5>2. got[i] = IF i <= Len(down.got) THEN down.got[i] ELSE msg.data[i - Len(down.got)]
          BY <1>8
        <5> QED BY <1>5, <3>1, <5>1, <5>2
      <4>2. Mixed(down.got[i], i)
        BY <1>4, <4>1 DEF GotInv
      <4> QED BY <4>1, <4>2
    <3>2. CASE i > Len(down.got)
      <4>1. i - At(n) \in 1 .. Len(msg.data) /\ got[i] = msg.data[i - At(n)] /\ At(n) + (i - At(n)) = i
        BY <1>5, <1>8, <1>15, <3>2
      <4>2. Mixed(msg.data[i - At(n)], At(n) + (i - At(n)))
        BY <1>1, <4>1 DEF DownDataInv
      <4> QED BY <4>1, <4>2
    <3> QED BY <1>5, <1>8, <3>1, <3>2
  <2>4. \A i \in 1 .. Len(got) : Mixed(got[i], i)'
    BY <1>2, <2>3, MixedIsKept
  <2>5. ASSUME shown # Tftp!Changed
        PROVE  /\ file # Tftp!Absent /\ Len(got) <= Len(file)
               /\ \A i \in 1 .. Len(got) : got[i] = file[i]
               /\ short => Len(got) = Len(file)
    <3>1. /\ file # Tftp!Absent /\ msg.data = Tftp!BlockAt(file, At(n)) /\ Len(down.got) <= Len(file)
          /\ \A i \in 1 .. Len(down.got) : down.got[i] = file[i]
      BY <1>1, <1>4, <2>5 DEF DownDataInv, Tftp!Block, At, GotInv
    <3>2. file \in Seq(Tftp!Units)
      BY <1>2 DEF TftpTypes
    <3>3. /\ \A i \in 1 .. Len(msg.data) : msg.data[i] = file[At(n) + i]
          /\ Len(msg.data) < BlockLength /\ At(n) <= Len(file) => At(n) + Len(msg.data) = Len(file)
          /\ At(n) <= Len(file) => At(n) + Len(msg.data) <= Len(file)
      <4>1. LET data == Tftp!BlockAt(file, At(n)) IN
            /\ \A i \in 1 .. Len(data) : At(n) + i <= Len(file) /\ data[i] = file[At(n) + i]
            /\ Len(data) < BlockLength /\ At(n) <= Len(file) => At(n) + Len(data) = Len(file)
            /\ At(n) <= Len(file) => At(n) + Len(data) <= Len(file)
        BY <1>15, <3>2, BlockAtIs
      <4> QED BY <3>1, <4>1
    <3>4. ASSUME NEW i \in 1 .. Len(got) PROVE got[i] = file[i]
      <4>1. CASE i <= Len(down.got)
        <5>1. i \in 1 .. Len(down.got) /\ got[i] = down.got[i]
          <6>1. i \in Int /\ i >= 1
            BY <1>5, <1>8
          <6>2. got[i] = IF i <= Len(down.got) THEN down.got[i] ELSE msg.data[i - Len(down.got)]
            BY <1>8
          <6> QED BY <1>5, <4>1, <6>1, <6>2
        <5> QED BY <3>1, <5>1
      <4>2. CASE i > Len(down.got)
        <5>1. i - At(n) \in 1 .. Len(msg.data) /\ got[i] = msg.data[i - At(n)] /\ At(n) + (i - At(n)) = i
          BY <1>5, <1>8, <1>15, <4>2
        <5> QED BY <3>3, <5>1
      <4> QED BY <1>5, <1>8, <4>1, <4>2
    <3> QED BY <1>5, <1>8, <1>15, <3>1, <3>3, <3>4
  <2>6. ~Excused => Len(got) <= Len(file)
    BY <1>1, <1>8, <1>15 DEF DownDataInv
  <2> QED BY <1>2, <1>4, <1>10, <1>16, <2>1, <2>2, <2>4, <2>5, <2>6 DEF GotInv
<1>18. DownInv'
  <2>1. ASSUME troubles = 0, ~Excused, ~short
        PROVE  /\ transfer[s].pc \in {"send", "wait"} /\ transfer[s].next = n
               /\ transfer[s].pc = "wait" => transfer[s].read = BlockLength
    <3>1. transfer[s].pc \in {"send", "wait"}
      <4>1. ~Tftp!Left(s)
        BY <1>1, <1>3 DEF Tftp!Left, Tftp!Client, Tftp!ClientOf
      <4> QED BY <1>3, <2>1, <4>1 DEF ReaderInv, ThreadRecords
    <3>2. transfer[s].next = n
      BY <1>1, <1>3, <1>4, <3>1 DEF ReaderInv, DownDataInv, ThreadRecords
    <3>3. ASSUME transfer[s].pc = "wait" PROVE transfer[s].read = BlockLength
      <4>1. Len(msg.data) = BlockLength /\ Len(msg.data) <= transfer[s].read
        BY <1>1, <1>2, <1>5, <2>1, <3>2, <3>3 DEF DownDataInv
      <4>2. transfer[s].read \in -1 .. BlockLength
        BY <1>2, <1>3, <3>3 DEF ReaderInv
      <4> QED BY <1>2, <4>1, <4>2
    <3> QED BY <3>1, <3>2, <3>3
  <2> QED BY <1>2, <1>3, <1>4, <1>10, <1>16, <2>1 DEF DownInv
<1>19. DownCount'
  <2>1. Tftp!Last("down")' = ack
    BY <1>3, <1>4, <1>6, <1>10 DEF Tftp!Last, Tftp!Client, Tftp!Message
  <2>2. DownLive'
    BY <1>9, <2>1 DEF DownLive
  <2> QED BY <1>2, <1>10, <2>2 DEF DownCount, TftpTypes
<1>20. UpCount'
  <2>1. \A m \in datagrams : m.client = "up" => m \in datagrams'
    BY <1>1, <1>9 DEF Tftp!Message
  <2>2. \A t \in Transfers : ThreadKeeps(transfer[t], transfer[t]')
    BY <1>12 DEF Keeps
  <2> QED BY <1>2, <1>11, <2>1, <2>2, UpCountRests DEF TftpTypes
<1> QED BY <1>11, <1>12, <1>13, <1>14, <1>17, <1>18, <1>19, <1>20 DEF TftpInv

-----------------------------------------------------------------------------
(* Steps of the threads *)

LEMMA SendBlockStep ==
    ASSUME TftpAssumption, TftpInv, NEW t \in Transfers, Tftp!SendBlock(t)
    PROVE  TftpInv'
<1> DEFINE pos == transfer[t].pos
           k == transfer[t].next
           n == down.next
<1>1. /\ TftpTypes /\ UNCHANGED <<file, up, down, old, new, shown, unlucky, troubles>>
      /\ transfer[t] \in ThreadRecords /\ transfer[t].pc = "send" /\ t # 0
      /\ up \in ClientRecords /\ down \in ClientRecords /\ BlockLength \in Nat \ {0}
      /\ file \in Seq(Tftp!Units)
  BY DEF Tftp!SendBlock, TftpInv, TftpTypes, TftpAssumption
<1>2. ThreadInv(t) /\ transfer[t].kind = "read" /\ ReaderInv(t)
  BY <1>1 DEF TftpInv, ThreadInv, WriterInv, ThreadRecords
<1>3. /\ k \in 1 .. n /\ k \in Nat /\ pos \in Nat /\ n \in Nat /\ Len(file) \in Nat
      /\ At(k) \in Nat /\ At(k + 1) = At(k) + BlockLength
  <2>1. k \in 1 .. n /\ k \in Nat /\ pos \in Nat /\ n \in Nat
    BY <1>1, <1>2 DEF ReaderInv, ThreadRecords, ClientRecords
  <2>2. Len(file) \in Nat
    BY <1>1, LenProperties
  <2>3. At(k) \in Int /\ At(k + 1) = At(k) + BlockLength /\ (k >= 1 => At(k) \in Nat)
    BY <2>1, AtIs
  <2> QED BY <1>1, <2>1, <2>2, <2>3
<1>4. PICK data : data = Tftp!BlockAt(file, pos)
  OBVIOUS
<1>5. PICK m : m = Tftp!Message("down", t, "data", k, data)
  OBVIOUS
<1>6. /\ data \in Seq(Tftp!Units) /\ Len(data) \in 0 .. BlockLength
      /\ \A i \in 1 .. Len(data) : pos + i <= Len(file) /\ data[i] = file[pos + i]
      /\ Len(data) < BlockLength /\ pos <= Len(file) => pos + Len(data) = Len(file)
      /\ pos <= Len(file) => pos + Len(data) <= Len(file)
      /\ pos + BlockLength <= Len(file) => Len(data) = BlockLength
  <2>1. LET d == Tftp!BlockAt(file, pos) IN
        /\ d \in Seq(Tftp!Units) /\ Len(d) \in 0 .. BlockLength
        /\ \A i \in 1 .. Len(d) : pos + i <= Len(file) /\ d[i] = file[pos + i]
        /\ Len(d) < BlockLength /\ pos <= Len(file) => pos + Len(d) = Len(file)
        /\ pos <= Len(file) => pos + Len(d) <= Len(file)
        /\ pos + BlockLength <= Len(file) => Len(d) = BlockLength
    BY <1>1, <1>3, BlockAtIs
  <2> QED BY <1>4, <2>1
<1>7. /\ transfer[t]'.pc = "wait" /\ transfer[t]'.kind = "read" /\ transfer[t]'.next = k
      /\ \A s \in Transfers : s # t => transfer[s]' = transfer[s]
      /\ transfer' \in [Transfers -> ThreadRecords]
      /\ file = Tftp!Absent =>
            transfer[t]'.read = -1 /\ transfer[t]'.pos = pos /\ datagrams' = datagrams
      /\ file # Tftp!Absent => /\ transfer[t]'.read = Len(data) /\ transfer[t]'.pos = pos + Len(data)
                          /\ datagrams' = datagrams \cup {m}
  <2>1. CASE file = Tftp!Absent
    <3>1. transfer' = [transfer EXCEPT ![t] = [@ EXCEPT !.pc = "wait",
                                               !.read = -1]] /\ datagrams' = datagrams
      BY <2>1 DEF Tftp!SendBlock
    <3>2. transfer[t]' = [pc |-> "wait", kind |-> "read", next |-> k, pos |-> pos, read |-> -1]
      BY <1>1, <1>2, <3>1 DEF TftpTypes, ThreadRecords
    <3>3. transfer[t]' \in ThreadRecords
      BY <1>3, <3>2 DEF ThreadRecords
    <3> QED BY <1>1, <2>1, <3>1, <3>2, <3>3 DEF TftpTypes
  <2>2. CASE file # Tftp!Absent
    <3>1. /\ transfer' = [transfer EXCEPT ![t] =
                 [@ EXCEPT !.pc = "wait", !.read = Len(data), !.pos = pos + Len(data)]]
          /\ datagrams' = datagrams \cup {m}
      BY <1>4, <1>5, <2>2 DEF Tftp!SendBlock
    <3>2. transfer[t]' = [pc |-> "wait", kind |-> "read", next |-> k, pos |-> pos + Len(data),
                          read |-> Len(data)]
      BY <1>1, <1>2, <3>1 DEF TftpTypes, ThreadRecords
    <3>3. pos + Len(data) \in Nat /\ Len(data) \in Int
      BY <1>1, <1>3, <1>6
    <3>4. transfer[t]' \in ThreadRecords
      BY <1>3, <3>2, <3>3 DEF ThreadRecords
    <3> QED BY <1>1, <2>2, <3>1, <3>2, <3>4 DEF TftpTypes
  <2> QED BY <2>1, <2>2
<1>8. TftpTypes'
  BY <1>1, <1>7 DEF TftpTypes
<1>9. ~Excused => file # Tftp!Absent /\ pos = At(k) /\ pos <= Len(file)
  BY <1>1, <1>2 DEF TftpInv, ContentInv, ReaderInv, Deleted, Excused
<1>10. \A s \in Transfers : ThreadKeeps(transfer[s], transfer[s]')
  <2>1. ASSUME ~Excused, NEW i \in 0 .. BlockLength, At(k) + i <= Len(file) PROVE i <= transfer[t]'.read
    BY <1>1, <1>3, <1>6, <1>7, <1>9, <2>1
  <2>2. ThreadKeeps(transfer[t], transfer[t]')
    BY <1>1, <1>2, <1>3, <1>7, <2>1 DEF ThreadKeeps
  <2> QED BY <1>1, <1>7, <2>2, SameThread DEF TftpTypes
<1>11. Keeps
  BY <1>1, <1>10, SameFile, SameClient DEF Keeps, TftpTypes
<1>12. ContentInv' /\ GotInv'
  <2>1. ContentInv'
    BY <1>1, <1>7, FileRests DEF TftpInv
  <2> QED BY <1>1, <2>1, GotRests DEF TftpInv
<1>13. ASSUME NEW s \in Transfers PROVE ThreadInv(s)'
  <2>1. CASE s = t
    <3>1. ~Excused => transfer[t]'.pos <= Len(file)
      BY <1>6, <1>7, <1>9
    <3>2. IF transfer[t]'.read = -1 THEN Deleted
          ELSE /\ transfer[t]'.read \in 0 .. BlockLength /\ transfer[t]'.read <= transfer[t]'.pos
               /\ transfer[t]'.pos - transfer[t]'.read = At(k) \/ Deleted
      BY <1>1, <1>2, <1>3, <1>6, <1>7 DEF ReaderInv
    <3>3. Deleted' = Deleted /\ Excused' = Excused /\ At(transfer[t].next)' = At(k)
      BY <1>1, <1>7 DEF Deleted, Excused, At
    <3>4. ReaderInv(t)'
      BY <1>1, <1>2, <1>3, <1>7, <3>1, <3>2, <3>3 DEF ReaderInv
    <3> QED BY <1>7, <2>1, <3>4 DEF ThreadInv
  <2>2. CASE s # t
    BY <1>1, <1>7, <1>8, <1>11, <2>2, ThreadRests, SameFile
  <2> QED BY <2>1, <2>2
<1>14. UpInv'
  <2>1. up.from # 0 => transfer[up.from]' = transfer[up.from]
    BY <1>1, <1>2, <1>7 DEF TftpInv, UpInv, ClientRecords
  <2> QED BY <1>1, <2>1, UpRests DEF TftpInv, TftpTypes
<1>15. DownInv /\ GotInv /\ (Excused' <=> Excused)
  BY <1>1 DEF TftpInv, Excused
<1>16. DownInv'
  <2>1. ASSUME down.from = t, troubles = 0, ~Excused, down.pc = "active"
        PROVE  k \in {n - 1, n} /\ (k = n - 1 => transfer[t]'.read = BlockLength)
    <3>1. k \in {n - 1, n} /\ Len(down.got) = At(n) /\ Len(down.got) <= Len(file)
      BY <1>1, <1>15, <2>1 DEF DownInv, GotInv
    <3>2. k = n - 1 => n = k + 1
      BY <1>3
    <3> QED BY <1>3, <1>6, <1>7, <1>9, <2>1, <3>1, <3>2
  <2>2. down.from # 0 /\ down.from # t => transfer[down.from]' = transfer[down.from]
    BY <1>1, <1>7 DEF ClientRecords
  <2>3. CASE down.from = t
    BY <1>1, <1>7, <1>15, <2>1, <2>3 DEF DownInv
  <2>4. CASE down.from # t
    BY <1>1, <1>15, <2>2, <2>4, DownRests DEF TftpTypes
  <2> QED BY <2>3, <2>4
<1>17. MessagesInv'
  <2>1. ASSUME file # Tftp!Absent PROVE MsgInv(m)'
    <3>1. m.socket = t /\ m.block = k /\ m.data = data
             /\ m = Tftp!Message("down", m.socket, "data", m.block, m.data)
      BY <1>5 DEF Tftp!Message
    <3>2. Deleted => file = <<>> /\ Len(file) = 0
      BY <2>1 DEF Deleted
    <3>3. pos = At(k) \/ Deleted
      BY <1>1, <1>2 DEF ReaderInv
    <3>4. ASSUME NEW i \in 1 .. Len(data) PROVE Mixed(data[i], At(k) + i)
      <4>1. pos + i <= Len(file) /\ data[i] = file[pos + i] /\ pos + i \in 1 .. Len(file)
        BY <1>3, <1>6
      <4>2. pos = At(k)
        BY <1>3, <1>6, <3>2, <3>3, <4>1
      <4> QED BY <2>1, <4>1, <4>2 DEF TftpInv, ContentInv
    <3>5. data = Tftp!Block(file, k)
      <4>1. CASE pos = At(k)
        BY <1>4, <4>1 DEF Tftp!Block, At
      <4>2. CASE Deleted
        <5>1. Len(data) = 0
          BY <1>3, <1>6, <3>2, <4>2
        <5>2. Tftp!Block(file, k) \in Seq(Tftp!Units) /\ Len(Tftp!Block(file, k)) = 0
          <6>1. LET d == Tftp!BlockAt(file, At(k)) IN
                /\ d \in Seq(Tftp!Units) /\ Len(d) \in 0 .. BlockLength
                /\ \A i \in 1 .. Len(d) : At(k) + i <= Len(file) /\ d[i] = file[At(k) + i]
            BY <1>1, <1>3, BlockAtIs
          <6>2. PICK d : d = Tftp!BlockAt(file, At(k))
            OBVIOUS
          <6>3. d \in Seq(Tftp!Units) /\ Len(d) \in Nat /\ \A i \in 1 .. Len(d) : At(k) + i <= 0
            BY <1>1, <3>2, <4>2, <6>1, <6>2
          <6>4. Len(d) = 0
            BY <1>3, <6>3
          <6> QED BY <6>2, <6>3, <6>4 DEF Tftp!Block, At
        <5> QED BY <1>6, <5>1, <5>2, SeqEqual
      <4> QED BY <3>3, <4>1, <4>2
    <3>6. \A i \in 1 .. Len(data) : Mixed(data[i], At(m.block) + i)'
      BY <1>1, <3>1, <3>4, MixedIsKept DEF At
    <3>7. At(m.block)' = At(k) /\ Tftp!Block(file, m.block)' = Tftp!Block(file, k)
      BY <1>1, <3>1 DEF At, Tftp!Block, Tftp!BlockAt
    <3>8. DownDataInv(m)'
      BY <1>1, <1>3, <1>6, <1>7, <1>9, <1>15, <2>1, <3>1, <3>5, <3>6, <3>7 DEF DownDataInv
    <3> QED BY <3>1, <3>8 DEF MsgInv, Tftp!Message
  <2> QED BY <1>7, <1>8, <1>11, <2>1, MessagesAreKept
<1>18. UpCount'
  BY <1>1, <1>2, <1>7, <1>10, UpCountRests DEF TftpTypes
<1>19. ASSUME troubles = 0, ~Excused, down.pc = "active", DownLive PROVE DownLive'
  <2>1. m \in datagrams' /\ m.client = "down" /\ m.kind = "data" /\ m.socket = t /\ m.block = k
    BY <1>5, <1>7, <1>9, <1>19 DEF Tftp!Message
  <2>2. CASE down.from = t
    <3>1. k \in {n - 1, n}
      BY <1>1, <1>15, <1>19, <2>2 DEF DownInv
    <3> QED BY <1>1, <2>1, <2>2, <3>1 DEF DownLive
  <2>3. CASE down.from = 0
    <3>1. k = n
      BY <1>3, <1>15, <2>3 DEF DownInv
    <3> QED BY <1>1, <2>1, <2>3, <3>1 DEF DownLive
  <2>4. CASE down.from \notin {0, t}
    <3>1. Tftp!Last("down")' = Tftp!Last("down")
      BY <1>1 DEF Tftp!Last, Tftp!Client, Tftp!Message
    <3>2. datagrams \subseteq datagrams'
      BY <1>7
    <3> QED BY <1>1, <1>7, <1>19, <2>4, <3>1, <3>2 DEF DownLive
  <2> QED BY <2>2, <2>3, <2>4
<1>20. DownCount'
  <2>1. Resends - down.resends \in Int /\ unlucky \in Nat
    BY <1>1 DEF TftpTypes, TftpAssumption, ClientRecords
  <2> QED BY <1>1, <1>15, <1>19, <2>1 DEF DownCount, TftpInv
<1> QED BY <1>8, <1>12, <1>13, <1>14, <1>16, <1>17, <1>18, <1>20 DEF TftpInv

LEMMA HearAckStep ==
    ASSUME TftpAssumption, TftpInv, NEW msg, NEW t \in Transfers, Tftp!HearAck(t, msg)
    PROVE  TftpInv'
<1> DEFINE pos == transfer[t].pos
           k == transfer[t].next
           read == transfer[t].read
           n == down.next
<1>1. /\ TftpTypes /\ UNCHANGED <<file, up, down, old, new, shown, unlucky, troubles>>
      /\ transfer[t] \in ThreadRecords /\ transfer[t].pc = "wait" /\ transfer[t].kind = "read" /\ t # 0
      /\ up \in ClientRecords /\ down \in ClientRecords /\ BlockLength \in Nat \ {0}
      /\ file \in Seq(Tftp!Units) /\ datagrams' = datagrams \ {msg}
  BY DEF Tftp!HearAck, TftpInv, TftpTypes, TftpAssumption
<1>2. ThreadInv(t) /\ ReaderInv(t) /\ DownInv /\ GotInv /\ (Excused' <=> Excused) /\ (Deleted' <=> Deleted)
  BY <1>1 DEF TftpInv, ThreadInv, Excused, Deleted
<1>3. /\ down.from = t /\ msg.block \in 1 .. n - 1
      /\ msg = Tftp!Message("down", down.from, "ack", msg.block, <<>>)
  BY <1>1, ForThread DEF Tftp!HearAck
<1>4. /\ k \in 1 .. n /\ k \in Nat /\ pos \in Nat /\ n \in Nat /\ Len(file) \in Nat
      /\ At(k) \in Nat /\ At(k + 1) = At(k) + BlockLength /\ read \in -1 .. BlockLength
      /\ read = -1 => Deleted
      /\ read # -1 => read <= pos /\ (pos - read = At(k) \/ Deleted)
      /\ Deleted => Excused
  <2>1. k \in 1 .. n /\ k \in Nat /\ pos \in Nat /\ n \in Nat
    BY <1>1, <1>2 DEF ReaderInv, ThreadRecords, ClientRecords
  <2>2. Len(file) \in Nat
    BY <1>1, LenProperties
  <2>3. At(k) \in Int /\ At(k + 1) = At(k) + BlockLength /\ (k >= 1 => At(k) \in Nat)
    BY <2>1, AtIs
  <2> QED BY <1>1, <1>2, <2>1, <2>2, <2>3 DEF ReaderInv, Deleted, Excused
<1>5. ~Excused => pos <= Len(file)
  BY <1>1, <1>2 DEF ReaderInv
<1>6. ASSUME troubles = 0, ~Excused, down.pc = "active" PROVE k \in {n - 1,
                 n} /\ (k = n - 1 => read = BlockLength)
  BY <1>1, <1>2, <1>3, <1>6 DEF DownInv
<1>7. /\ \A s \in Transfers : s # t => transfer[s]' = transfer[s]
      /\ transfer' \in [Transfers -> ThreadRecords] /\ transfer[t]'.kind = "read"
      /\ \/ /\ transfer[t]'.pc = "send" /\ transfer[t]'.next = k
            /\ transfer[t]'.pos = IF read = -1 THEN Tftp!Beyond ELSE pos - read
         \/ /\ transfer[t]'.pc = "gone" /\ msg.block = k /\ read \in 0 .. BlockLength - 1
         \/ /\ transfer[t]'.pc = "send" /\ transfer[t]'.next = k + 1 /\ transfer[t]'.pos = pos
            /\ msg.block = k /\ read \notin 0 .. BlockLength - 1
  <2>1. CASE msg.block # k
    <3>1. transfer' = [transfer EXCEPT ![t] = Tftp!Back(@)]
      BY <2>1 DEF Tftp!HearAck
    <3>2. transfer[t]' = [pc |-> "send", kind |-> "read", next |-> k,
                          pos |-> IF read = -1 THEN Tftp!Beyond ELSE pos - read, read |-> read]
      BY <1>1, <3>1 DEF Tftp!Back, TftpTypes, ThreadRecords
    <3>3. (IF read = -1 THEN Tftp!Beyond ELSE pos - read) \in Nat /\ read \in Int
      BY <1>4 DEF Tftp!Beyond
    <3>4. transfer[t]' \in ThreadRecords
      BY <1>4, <3>2, <3>3 DEF ThreadRecords
    <3> QED BY <1>1, <3>1, <3>2, <3>4 DEF TftpTypes
  <2>2. CASE msg.block = k /\ read \in 0 .. BlockLength - 1
    <3>1. transfer' = [transfer EXCEPT ![t] = [Tftp!NotStarted EXCEPT !.pc = "gone",
                                               !.kind = transfer[t].kind]]
      BY <2>2 DEF Tftp!HearAck, Tftp!Ended
    <3>2. transfer[t]' = [pc |-> "gone", kind |-> "read", next |-> 0, pos |-> 0, read |-> 0]
      BY <1>1, <3>1 DEF TftpTypes, Tftp!NotStarted
    <3>3. transfer[t]' \in ThreadRecords
      BY <3>2 DEF ThreadRecords
    <3> QED BY <1>1, <2>2, <3>1, <3>2, <3>3 DEF TftpTypes
  <2>3. CASE msg.block = k /\ read \notin 0 .. BlockLength - 1
    <3>1. transfer' = [transfer EXCEPT ![t].pc = "send", ![t].next = @ + 1]
      BY <2>3 DEF Tftp!HearAck
    <3>2. transfer[t]' = [pc |-> "send", kind |-> "read", next |-> k + 1, pos |-> pos, read |-> read]
      BY <1>1, <3>1 DEF TftpTypes, ThreadRecords
    <3>3. k + 1 \in Nat /\ read \in Int
      BY <1>4
    <3>4. transfer[t]' \in ThreadRecords
      BY <1>4, <3>2, <3>3 DEF ThreadRecords
    <3> QED BY <1>1, <2>3, <3>1, <3>2, <3>4 DEF TftpTypes
  <2> QED BY <2>1, <2>2, <2>3
<1>8. TftpTypes'
  BY <1>1, <1>7 DEF TftpTypes
<1>9. \A s \in Transfers : ThreadKeeps(transfer[s], transfer[s]')
  <2>1. ThreadKeeps(transfer[t], transfer[t]')
    BY <1>1, <1>4, <1>7 DEF ThreadKeeps
  <2> QED BY <1>1, <1>7, <2>1, SameThread DEF TftpTypes
<1>10. Keeps
  BY <1>1, <1>9, SameFile, SameClient DEF Keeps, TftpTypes
<1>11. ContentInv' /\ GotInv'
  <2>1. ContentInv'
    BY <1>1, <1>7, FileRests DEF TftpInv
  <2> QED BY <1>1, <1>2, <2>1, GotRests
<1>12. down.pc # "idle"
  BY <1>2 DEF ReaderInv
<1>13. ASSUME transfer[t]'.pc = "gone", troubles = 0, ~Excused PROVE down.pc \in {"done", "failed"}
  BY <1>1, <1>3, <1>4, <1>6, <1>7, <1>12, <1>13 DEF ClientRecords
<1>14. ASSUME NEW s \in Transfers PROVE ThreadInv(s)'
  <2>1. CASE s = t
    <3>1. ASSUME transfer[t]'.pc = "send"
          PROVE  /\ transfer[t]'.next \in 1 .. n
                 /\ ~Excused => transfer[t]'.pos <= Len(file)
                 /\ transfer[t]'.pos = At(transfer[t].next)' \/ Deleted
      <4>1. CASE transfer[t]'.next = k /\ transfer[t]'.pos = IF read = -1 THEN Tftp!Beyond ELSE pos - read
        <5>1. At(transfer[t].next)' = At(k)
          BY <4>1 DEF At
        <5> QED BY <1>4, <1>5, <4>1, <5>1
      <4>2. CASE transfer[t]'.next = k + 1 /\ transfer[t]'.pos = pos /\ msg.block = k
                    /\ read \notin 0 .. BlockLength - 1
        <5>1. At(transfer[t].next)' = At(k + 1)
          BY <4>2 DEF At
        <5>2. k + 1 \in 1 .. n
          BY <1>3, <1>4, <4>2
        <5>3. read = -1 \/ read = BlockLength
          BY <1>1, <1>4, <4>2
        <5>4. pos = At(k + 1) \/ Deleted
          BY <1>1, <1>4, <5>3
        <5> QED BY <1>5, <4>2, <5>1, <5>2, <5>4
      <4> QED BY <1>7, <3>1, <4>1, <4>2
    <3>2. transfer[t]'.pc = "gone" /\ troubles = 0 /\ ~Excused => Tftp!Left(t)'
      BY <1>1, <1>7, <1>13 DEF Tftp!Left, Tftp!Client, Tftp!ClientOf
    <3>3. file = Tftp!Absent => Deleted /\ shown = Tftp!Changed
      BY <1>1, <1>2 DEF ReaderInv
    <3>4. ReaderInv(t)'
      BY <1>1, <1>2, <1>3, <1>7, <1>12, <3>1, <3>2, <3>3 DEF ReaderInv
    <3> QED BY <1>7, <2>1, <3>4 DEF ThreadInv
  <2>2. CASE s # t
    BY <1>1, <1>7, <1>8, <1>10, <2>2, ThreadRests, SameFile
  <2> QED BY <2>1, <2>2
<1>15. UpInv'
  <2>1. up.from # 0 => transfer[up.from]' = transfer[up.from]
    BY <1>1, <1>7 DEF TftpInv, UpInv, ClientRecords
  <2> QED BY <1>1, <2>1, UpRests DEF TftpInv, TftpTypes
<1>16. DownInv'
  <2>1. ASSUME troubles = 0, ~Excused, down.pc = "active"
        PROVE  transfer[t]'.pc = "send" /\ transfer[t]'.next \in {n - 1, n}
    BY <1>3, <1>4, <1>6, <1>7, <1>13, <2>1
  <2> QED BY <1>1, <1>2, <1>3, <1>7, <2>1 DEF DownInv
<1>17. MessagesInv'
  BY <1>1, <1>8, <1>10, MessagesAreKept
<1>18. UpCount'
  <2>1. \A m \in datagrams : m.client = "up" => m \in datagrams'
    BY <1>1, <1>3 DEF Tftp!Message
  <2> QED BY <1>1, <1>7, <1>9, <2>1, UpCountRests DEF TftpTypes
<1>19. DownCount'
  <2>1. ASSUME troubles = 0, ~Excused, down.pc = "active" PROVE DownLive'
    <3>1. transfer[t]'.pc = "send"
      BY <1>7, <1>13, <2>1
    <3> QED BY <1>1, <1>3, <1>7, <3>1 DEF DownLive
  <2>2. Resends - down.resends \in Int /\ unlucky \in Nat
    BY <1>1 DEF TftpTypes, TftpAssumption, ClientRecords
  <2> QED BY <1>1, <1>2, <2>1, <2>2 DEF DownCount, TftpInv
<1> QED BY <1>8, <1>11, <1>14, <1>15, <1>16, <1>17, <1>18, <1>19 DEF TftpInv

LEMMA TimedOutStep ==
    ASSUME TftpAssumption, TftpInv, NEW t \in Transfers, Tftp!TimedOut(t)
    PROVE  TftpInv'
<1> DEFINE kind == transfer[t].kind
<1>1. /\ TftpTypes /\ UNCHANGED <<file, up, down, old, new, shown, unlucky>>
      /\ transfer[t] \in ThreadRecords /\ transfer[t].pc = "wait" /\ t # 0
      /\ up \in ClientRecords /\ down \in ClientRecords /\ file \in Seq(Tftp!Units)
  BY DEF Tftp!TimedOut, Tftp!GivesUp, TftpInv, TftpTypes, TftpAssumption
<1>2. /\ ThreadInv(t) /\ UpInv /\ DownInv /\ GotInv /\ (Excused' <=> Excused) /\ kind \in {"read", "write"}
  BY <1>1 DEF TftpInv, ThreadInv, Excused, ThreadRecords
<1>3. PICK m : m = Tftp!Message(Tftp!ClientOf(kind), t, "error", 0, <<>>)
  OBVIOUS
<1>4. /\ transfer' = Tftp!Ended(t)
      /\ datagrams' \in {datagrams, datagrams \cup {m}}
      /\ troubles \in Nat /\ troubles' \in Nat /\ troubles <= troubles'
      /\ unlucky + troubles' <= MaxSetbacks
      /\ troubles' = 0 => troubles = 0 /\ Tftp!Left(t)
  <2>1. transfer' = Tftp!Ended(t) /\ datagrams' \in {datagrams, datagrams \cup {m}}
    BY <1>3 DEF Tftp!TimedOut, Tftp!Fail
  <2>2. CASE Tftp!Left(t)
    <3>1. troubles' = troubles
      BY <2>2 DEF Tftp!TimedOut
    <3> QED BY <1>1, <2>1, <2>2, <3>1 DEF TftpTypes
  <2>3. CASE ~Tftp!Left(t)
    <3>1. troubles' = troubles + 1 /\ unlucky + troubles < MaxSetbacks /\ MaxSetbacks \in Nat
      BY <2>3 DEF Tftp!TimedOut, Tftp!Trouble, TftpAssumption
    <3> QED BY <1>1, <2>1, <3>1 DEF TftpTypes
  <2> QED BY <2>1, <2>2, <2>3
<1>5. /\ transfer[t]'.pc = "gone" /\ transfer[t]'.kind = kind
      /\ \A s \in Transfers : s # t => transfer[s]' = transfer[s]
      /\ transfer' \in [Transfers -> ThreadRecords]
  <2>1. transfer' = [transfer EXCEPT ![t] = [Tftp!NotStarted EXCEPT !.pc = "gone",
                                             !.kind = transfer[t].kind]]
    BY <1>4 DEF Tftp!Ended
  <2>2. transfer[t]' = [pc |-> "gone", kind |-> kind, next |-> 0, pos |-> 0, read |-> 0]
    BY <1>1, <2>1 DEF TftpTypes, Tftp!NotStarted
  <2>3. transfer[t]' \in ThreadRecords
    BY <1>2, <2>2 DEF ThreadRecords
  <2> QED BY <1>1, <2>1, <2>2, <2>3 DEF TftpTypes
<1>6. TftpTypes'
  BY <1>1, <1>4, <1>5 DEF TftpTypes
<1>7. \A s \in Transfers : ThreadKeeps(transfer[s], transfer[s]')
  <2>1. ThreadKeeps(transfer[t], transfer[t]')
    BY <1>1, <1>5 DEF ThreadKeeps
  <2> QED BY <1>1, <1>5, <2>1, SameThread DEF TftpTypes
<1>8. Keeps
  BY <1>1, <1>4, <1>7, SameFile, SameClient DEF Keeps
<1>9. ContentInv' /\ GotInv'
  <2>1. ContentInv'
    BY <1>1, <1>5, FileRests DEF TftpInv
  <2> QED BY <1>1, <1>2, <2>1, GotRests
<1>10. troubles' = 0 => Tftp!Left(t)'
  BY <1>1, <1>4, <1>5 DEF Tftp!Left, Tftp!Client
<1>11. ASSUME NEW s \in Transfers PROVE ThreadInv(s)'
  <2>1. CASE s = t
    <3>1. kind = "write" => WriterInv(t)'
      BY <1>1, <1>2, <1>5, <1>10 DEF ThreadInv, WriterInv, Tftp!Left, Tftp!Client, Tftp!ClientOf
    <3>2. kind = "read" => ReaderInv(t)'
      BY <1>1, <1>2, <1>5, <1>10 DEF ThreadInv, ReaderInv
    <3> QED BY <1>2, <1>5, <2>1, <3>1, <3>2 DEF ThreadInv
  <2>2. CASE s # t
    BY <1>1, <1>5, <1>6, <1>8, <2>2, ThreadRests, SameFile
  <2> QED BY <2>1, <2>2
<1>12. UpInv'
  <2>1. CASE up.from = t
    <3>1. (Tftp!IsUploaded' <=> Tftp!IsUploaded) /\ At(up.next)' = At(up.next)
      BY <1>1 DEF Tftp!IsUploaded, Tftp!Overwritten, At
    <3>2. kind = "write" /\ ~Settled
      BY <1>1, <1>2, <2>1 DEF UpInv, Settled
    <3>3. up.pc # "done" /\ ~(up.pc = "failed" /\ troubles' = 0)
      BY <1>2, <1>4, <3>2 DEF UpInv
    <3>4. ~(up.pc = "active" /\ troubles' = 0)
      BY <1>4, <2>1, <3>2 DEF Tftp!Left, Tftp!Client, Tftp!ClientOf
    <3> QED BY <1>1, <1>2, <1>5, <2>1, <3>1, <3>3, <3>4 DEF UpInv
  <2>2. CASE up.from # t
    <3>1. up.from # 0 => transfer[up.from]' = transfer[up.from]
      BY <1>1, <1>5, <2>2 DEF ClientRecords
    <3> QED BY <1>1, <1>2, <1>4, <3>1, UpRests
  <2> QED BY <2>1, <2>2
<1>13. DownInv'
  <2>1. CASE down.from = t
    <3>1. kind = "read"
      BY <1>1, <1>2, <2>1 DEF DownInv
    <3>2. ~(down.pc = "active" /\ troubles' = 0)
      BY <1>4, <2>1, <3>1 DEF Tftp!Left, Tftp!Client, Tftp!ClientOf
    <3> QED BY <1>1, <1>2, <1>4, <1>5, <2>1, <3>2 DEF DownInv
  <2>2. CASE down.from # t
    <3>1. down.from # 0 => transfer[down.from]' = transfer[down.from]
      BY <1>1, <1>5, <2>2 DEF ClientRecords
    <3> QED BY <1>1, <1>2, <1>4, <3>1, DownRests
  <2> QED BY <2>1, <2>2
<1>14. MessagesInv'
  <2>1. m.client = Tftp!ClientOf(kind) /\ m.socket = t
           /\ m = Tftp!Message(m.client, m.socket, "error", 0, <<>>)
    BY <1>3 DEF Tftp!Message
  <2>2. ErrorInv(m)'
    BY <1>5, <1>10, <2>1 DEF ErrorInv, Tftp!ClientOf
  <2>3. MsgInv(m)'
    BY <2>1, <2>2 DEF MsgInv, Tftp!Message
  <2> QED BY <1>4, <1>6, <1>8, <2>3, MessagesAreKept
<1>15. UpCount' /\ DownCount'
  <2>1. \A msg \in datagrams : msg \in datagrams'
    BY <1>4
  <2> QED BY <1>1, <1>4, <1>5, <1>7, <2>1, UpCountRests, DownCountRests DEF TftpTypes
<1> QED BY <1>6, <1>9, <1>11, <1>12, <1>13, <1>14, <1>15 DEF TftpInv

\* What holds of every thread that was started by a request.
LEMMA StartedIs ==
    ASSUME TftpAssumption, TftpInv, NEW t \in Transfers, Tftp!Open(t)
    PROVE  /\ transfer[t] \in ThreadRecords /\ transfer[t].pc = "start"
           /\ transfer[t].kind \in {"read", "write"}
           /\ transfer[t].pos = 0 /\ t \notin {0, up.from, down.from}
           /\ transfer[t].kind = "write" => up.pc # "idle"
           /\ transfer[t].kind = "read" => down.pc # "idle"
           /\ TftpTypes /\ UNCHANGED <<up, down, old, new, unlucky>>
<1>1. transfer[t] \in ThreadRecords /\ transfer[t].pc = "start" /\ ThreadInv(t) /\ t # 0 /\ UpInv /\ DownInv
      /\ TftpTypes /\ UNCHANGED <<up, down, old, new, unlucky>>
  BY DEF Tftp!Open, TftpInv, TftpTypes, TftpAssumption
<1>2. transfer[t].kind \in {"read", "write"} /\ transfer[t].pos = 0
  BY <1>1 DEF ThreadInv, ThreadRecords
<1>3. /\ transfer[t].kind = "write" => up.pc # "idle"
      /\ transfer[t].kind = "read" => down.pc # "idle"
  BY <1>1 DEF ThreadInv, WriterInv, ReaderInv
<1>4. t # up.from /\ t # down.from
  BY <1>1 DEF UpInv, DownInv
<1> QED BY <1>1, <1>2, <1>3, <1>4

\* A file that is written is created when it is not there: it was not, or was uploaded empty.
LEMMA OpenToWriteStep ==
    ASSUME TftpAssumption, TftpInv, NEW t \in Transfers, Tftp!Open(t), transfer[t].kind = "write",
           Tftp!Becomes(IF file = Tftp!Absent THEN <<>> ELSE file),
           transfer' = [transfer EXCEPT ![t] = [@ EXCEPT !.pc = "wait", !.next = 1]],
           datagrams' = datagrams \cup {Tftp!Message("up", t, "ack", 0, <<>>)}, UNCHANGED troubles
    PROVE  TftpInv'
<1>1. /\ transfer[t] \in ThreadRecords /\ transfer[t].pc = "start" /\ transfer[t].kind = "write"
      /\ transfer[t].pos = 0 /\ t \notin {0, up.from, down.from} /\ up.pc # "idle"
      /\ TftpTypes /\ UNCHANGED <<up, down, old, new, unlucky, troubles>>
      /\ old \in Seq(Tftp!Units) /\ new \in Seq(Tftp!Units \ {"absent"}) /\ file \in Seq(Tftp!Units)
      /\ up \in ClientRecords /\ down \in ClientRecords
  BY StartedIs DEF TftpTypes
<1>2. UpInv /\ DownInv /\ GotInv /\ ContentInv /\ up.next \in Nat /\ troubles \in Nat /\ (Excused' <=> Excused)
      /\ Base' = Base
  BY <1>1 DEF TftpInv, TftpTypes, ClientRecords, Excused, Base
<1>3. Tftp!Absent # <<>> /\ <<>> \in Seq(Tftp!Units) /\ Len(<<>>) = 0 /\ Len(file) \in Nat /\ Len(new) \in Nat
  BY <1>1, EmptySeq, LenProperties DEF Tftp!Absent
<1>4. /\ file' = (IF file = Tftp!Absent THEN <<>> ELSE file) /\ file' # Tftp!Absent /\ file' \in Seq(Tftp!Units)
      /\ shown' = IF file # Tftp!Absent THEN shown ELSE IF down.pc = "idle" THEN <<>> ELSE Tftp!Changed
  BY <1>1, <1>3 DEF Tftp!Becomes
<1>5. PICK m : m = Tftp!Message("up", t, "ack", 0, <<>>)
  OBVIOUS
<1>6. /\ transfer[t]'.pc = "wait" /\ transfer[t]'.kind = "write" /\ transfer[t]'.next = 1
      /\ transfer[t]'.pos = 0
      /\ transfer' \in [Transfers -> ThreadRecords] /\ \A s \in Transfers : s # t =>
            transfer[s]' = transfer[s]
  <2>1. transfer[t]' = [pc |-> "wait", kind |-> "write", next |-> 1, pos |-> 0,
                        read |-> transfer[t].read]
    BY <1>1 DEF TftpTypes, ThreadRecords
  <2>2. transfer[t]' \in ThreadRecords
    BY <1>1, <2>1 DEF ThreadRecords
  <2> QED BY <1>1, <2>1, <2>2 DEF TftpTypes
<1>7. TftpTypes'
  BY <1>1, <1>4, <1>6 DEF TftpTypes
<1>8. \A s \in Transfers : ThreadKeeps(transfer[s], transfer[s]')
  <2>1. ThreadKeeps(transfer[t], transfer[t]')
    BY <1>1, <1>6 DEF ThreadKeeps
  <2> QED BY <1>1, <1>6, <2>1, SameThread DEF TftpTypes
<1>9. Tftp!IsUploaded => Tftp!IsUploaded'
  <2>1. CASE file # Tftp!Absent
    BY <1>1, <1>4, <2>1 DEF Tftp!IsUploaded, Tftp!Overwritten
  <2>2. CASE file = Tftp!Absent
    <3>1. Len(new) \in 0 .. Len(new)
      BY <1>3
    <3>2. file # Tftp!Overwritten(Base, 0, new)
      BY <1>1, <2>2, <3>1, UploadedIsMix, MixIsThere
    <3> QED BY <1>1, <1>4, <2>2, <3>2 DEF Tftp!IsUploaded, Base
  <2> QED BY <2>1, <2>2
<1>10. Keeps
  <2>1. ~Excused => file' = file
    BY <1>2, <1>4 DEF ContentInv
  <2>2. shown' # Tftp!Changed => (shown # Tftp!Changed /\ file' = file) \/ down.pc = "idle"
    BY <1>4
  <2> QED BY <1>1, <1>2, <1>3, <1>8, <1>9, <2>1, <2>2, SameClient DEF Keeps
<1>11. ContentInv'
  <2>1. PICK content : content = file'
    OBVIOUS
  <2>2. \A i \in 1 .. Len(content) : Mixed(content[i], i)
    BY <1>2, <1>3, <1>4, <2>1 DEF ContentInv
  <2>3. \A i \in 1 .. Len(content) : Mixed(content[i], i)'
    BY <1>1, <2>2, MixedIsKept
  <2>4. up.from = 0 => file' = Base
    BY <1>1, <1>2, <1>4, BaseIs DEF ContentInv, Base
  <2> QED BY <1>1, <1>2, <1>4, <2>1, <2>3, <2>4 DEF ContentInv
<1>12. ASSUME NEW s \in Transfers PROVE ThreadInv(s)'
  <2>1. CASE s = t
    <3>1. At(transfer[t].next)' = 0
      <4>1. At(transfer[t].next)' = At(1)
        BY <1>6 DEF At
      <4> QED BY <4>1, FirstAt
    <3>2. WriterInv(t)'
      BY <1>1, <1>6, <3>1 DEF WriterInv
    <3> QED BY <1>6, <2>1, <3>2 DEF ThreadInv
  <2>2. CASE s # t
    <3>1. Deleted => Deleted'
      BY <1>1, <1>4 DEF Deleted
    <3> QED BY <1>4, <1>6, <1>7, <1>10, <2>2, <3>1, ThreadRests
  <2> QED BY <2>1, <2>2
<1>13. UpInv'
  <2>1. up.from # 0 => transfer[up.from]' = transfer[up.from]
    BY <1>1, <1>6 DEF ClientRecords
  <2>2. CASE file # Tftp!Absent
    BY <1>1, <1>2, <1>4, <2>1, <2>2, UpRests
  <2>3. CASE file = Tftp!Absent
    <3>1. ASSUME up.from # 0 PROVE transfer[up.from].pc # "wait"
      <4>1. SUFFICES ASSUME transfer[up.from].pc = "wait" PROVE FALSE
        OBVIOUS
      <4>2. PICK k : k = transfer[up.from].pos
        OBVIOUS
      <4>3. transfer[up.from] \in ThreadRecords
        BY <1>1, <3>1 DEF TftpTypes, ClientRecords
      <4>4. k \in 0 .. Len(new) /\ IsMix(file, k)
        BY <1>2, <1>3, <3>1, <4>1, <4>2, <4>3 DEF UpInv, ThreadRecords
      <4> QED BY <1>1, <2>3, <4>4, MixIsThere
    <3>2. Settled => Settled'
      BY <1>1, <1>9, <2>1 DEF Settled
    <3>3. At(up.next)' = At(up.next)
      BY <1>1 DEF At
    <3> QED BY <1>1, <1>2, <1>9, <2>1, <3>1, <3>2, <3>3 DEF UpInv
  <2> QED BY <2>2, <2>3
<1>14. GotInv' /\ DownInv'
  <2>1. DownInv'
    <3>1. down.from # 0 => transfer[down.from]' = transfer[down.from]
      BY <1>1, <1>6 DEF ClientRecords
    <3> QED BY <1>1, <1>2, <3>1, DownRests
  <2>2. CASE file # Tftp!Absent
    BY <1>1, <1>2, <1>4, <2>1, <2>2, GotRests
  <2>3. CASE file = Tftp!Absent
    <3>1. Excused
      BY <1>2, <2>3 DEF ContentInv
    <3>2. down.pc = "idle" => Len(down.got) = 0
      <4>1. down.pc = "idle" => down.next = 1 /\ Len(down.got) = At(1)
        BY <1>2 DEF DownInv, GotInv
      <4> QED BY <4>1, FirstAt
    <3>3. \A i \in 1 .. Len(down.got) : Mixed(down.got[i], i)'
      BY <1>1, <1>2, MixedIsKept DEF GotInv
    <3>4. At(down.next)' = At(down.next)
      BY <1>1 DEF At
    <3> QED BY <1>1, <1>2, <1>3, <1>4, <2>1, <2>3, <3>1, <3>2, <3>3, <3>4 DEF GotInv
  <2> QED BY <2>2, <2>3
<1>15. MessagesInv'
  <2>1. m.socket = t /\ m.block = 0 /\ m = Tftp!Message("up", m.socket, "ack", m.block, <<>>)
    BY <1>5 DEF Tftp!Message
  <2>2. UpAckInv(m)'
    BY <1>1, <1>2, <1>6, <2>1 DEF UpAckInv
  <2>3. MsgInv(m)'
    BY <2>1, <2>2 DEF MsgInv, Tftp!Message
  <2> QED BY <1>5, <1>7, <1>10, <2>3, MessagesAreKept
<1>16. UpCount'
  <2>1. UpLive => UpLive'
    <3>1. Tftp!Last("up")' = Tftp!Last("up") /\ (\A s \in Transfers :
             Tftp!Message("up", s, "ack", up.next, <<>>)' = Tftp!Message("up", s, "ack", up.next, <<>>))
      BY <1>1 DEF Tftp!Last, Tftp!Client, Tftp!Message, Tftp!Block, Tftp!BlockAt
    <3>2. up.from = 0 => up.next = 0
      BY <1>2 DEF UpInv
    <3> QED BY <1>1, <1>5, <1>6, <3>1, <3>2 DEF UpLive
  <2> QED BY <1>1, <1>8, <2>1, UpCountGoesOn DEF TftpTypes
<1>17. DownCount'
  BY <1>1, <1>6, DownCountRests DEF TftpTypes
<1> QED BY <1>7, <1>11, <1>12, <1>13, <1>14, <1>15, <1>16, <1>17 DEF TftpInv

\* It is opened for reading, or ends at once; the file stays as it is.
LEMMA OpenRests ==
    ASSUME TftpAssumption, TftpInv, NEW t \in Transfers, Tftp!Open(t), UNCHANGED <<file, shown>>,
           \A s \in Transfers : s # t => transfer[s]' = transfer[s],
           transfer' \in [Transfers -> ThreadRecords], transfer[t]'.kind = transfer[t].kind,
           transfer[t]'.pc \in {"send", "gone"}, datagrams \subseteq datagrams',
           troubles' \in Nat, troubles <= troubles', unlucky + troubles' <= MaxSetbacks,
           ThreadInv(t)', \A m \in datagrams' : m \in datagrams \/ MsgInv(m)',
           troubles' = 0 => transfer[t].kind = "read" /\ (transfer[t]'.pc = "send" \/ Excused)
    PROVE  TftpInv'
<1>1. /\ transfer[t] \in ThreadRecords /\ transfer[t].pc = "start"
      /\ transfer[t].kind \in {"read", "write"}
      /\ t \notin {0, up.from, down.from}
      /\ TftpTypes /\ UNCHANGED <<file, shown, up, down, old, new, unlucky>> /\ GotInv /\ UpInv
      /\ DownInv
      /\ (Excused' <=> Excused)
  BY StartedIs DEF TftpInv, Excused
<1>2. TftpTypes'
  BY <1>1 DEF TftpTypes
<1>3. \A s \in Transfers : ThreadKeeps(transfer[s], transfer[s]')
  <2>1. ThreadKeeps(transfer[t], transfer[t]')
    BY <1>1 DEF ThreadKeeps
  <2> QED BY <1>1, <2>1, SameThread DEF TftpTypes
<1>4. Keeps
  BY <1>1, <1>3, SameFile, SameClient DEF Keeps, TftpTypes
<1>5. ContentInv'
  BY <1>1, FileRests DEF TftpInv
<1>6. GotInv' /\ UpInv' /\ DownInv'
  BY <1>1, UpRests, GotRests, DownRests DEF TftpTypes, ClientRecords
<1>7. ASSUME NEW s \in Transfers PROVE ThreadInv(s)'
  <2>1. CASE s # t
    BY <1>1, <1>2, <1>4, <2>1, ThreadRests, SameFile DEF TftpTypes
  <2> QED BY <2>1
<1>8. MessagesInv'
  BY <1>2, <1>4, MessagesAreKept
<1>9. UpCount'
  <2>1. CASE troubles' # 0
    BY <2>1 DEF UpCount
  <2>2. CASE troubles' = 0
    BY <1>1, <1>3, <2>2, UpCountRests DEF TftpTypes
  <2> QED BY <2>1, <2>2
<1>10. DownCount'
  <2>1. CASE troubles' # 0 \/ Excused
    BY <1>1, <2>1 DEF DownCount
  <2>2. CASE troubles' = 0 /\ ~Excused
    <3>1. DownLive => DownLive'
      <4>1. Tftp!Last("down")' = Tftp!Last("down")
        BY <1>1 DEF Tftp!Last, Tftp!Client, Tftp!Message
      <4> QED BY <1>1, <2>2, <4>1 DEF DownLive
    <3> QED BY <1>1, <3>1, DownCountGoesOn DEF TftpTypes
  <2> QED BY <2>1, <2>2
<1> QED BY <1>2, <1>5, <1>6, <1>7, <1>8, <1>9, <1>10 DEF TftpInv

LEMMA OpenStep ==
    ASSUME TftpAssumption, TftpInv, NEW t \in Transfers, Tftp!Open(t)
    PROVE  TftpInv'
<1> DEFINE kind == transfer[t].kind
<1>1. /\ transfer[t] \in ThreadRecords /\ transfer[t].pc = "start" /\ kind \in {"read", "write"}
      /\ transfer[t].pos = 0 /\ t \notin {0, up.from, down.from}
      /\ kind = "write" => up.pc # "idle"
      /\ kind = "read" => down.pc # "idle"
      /\ TftpTypes /\ UNCHANGED <<up, down, old, new, unlucky>>
  BY StartedIs
<1>2. /\ UpInv /\ DownInv /\ GotInv /\ ContentInv /\ down.next \in Nat /\ up.next \in Nat
      /\ troubles \in Nat
      /\ unlucky + troubles <= MaxSetbacks /\ file \in Seq(Tftp!Units) /\ Len(file) \in Nat
      /\ MaxSetbacks \in Nat
  <2>1. Len(file) \in Nat
    BY <1>1, LenProperties DEF TftpTypes
  <2> QED BY <1>1, <2>1 DEF TftpInv, TftpTypes, ClientRecords, TftpAssumption
<1>3. PICK m : m = Tftp!Message(Tftp!ClientOf(kind), t, "error", 0, <<>>)
  OBVIOUS
<1>4. CASE /\ kind = "read" /\ file # Tftp!Absent
           /\ transfer' = [transfer EXCEPT ![t] = [@ EXCEPT !.pc = "send", !.next = 1]]
           /\ UNCHANGED <<file, shown, datagrams, troubles>>
  <2>1. transfer[t]' = [pc |-> "send", kind |-> "read", next |-> 1, pos |-> 0,
                        read |-> transfer[t].read]
    BY <1>1, <1>4 DEF TftpTypes, ThreadRecords
  <2>2. transfer[t]' \in ThreadRecords
    BY <1>1, <2>1 DEF ThreadRecords
  <2>3. transfer' \in [Transfers -> ThreadRecords] /\ \A s \in Transfers : s # t =>
              transfer[s]' = transfer[s]
    BY <1>1, <1>4, <2>2 DEF TftpTypes
  <2>4. At(transfer[t].next)' = 0
    <3>1. At(transfer[t].next)' = At(1)
      BY <2>1 DEF At
    <3> QED BY <3>1, FirstAt
  <2>5. ReaderInv(t)'
    BY <1>1, <1>2, <1>4, <2>1, <2>4 DEF ReaderInv, DownInv
  <2>6. ThreadInv(t)'
    BY <2>1, <2>5 DEF ThreadInv
  <2> QED BY <1>1, <1>2, <1>4, <2>1, <2>3, <2>6, OpenRests
<1>5. CASE /\ transfer' = Tftp!Ended(t) /\ datagrams' \in {datagrams, datagrams \cup {m}}
           /\ UNCHANGED <<file, shown>>
           /\ troubles' \in Nat /\ troubles <= troubles' /\ unlucky + troubles' <= MaxSetbacks
           /\ troubles' = 0 => kind = "read" /\ file = Tftp!Absent
  <2>1. transfer[t]'.pc = "gone" /\ transfer[t]'.kind = kind /\ transfer' \in [Transfers -> ThreadRecords]
        /\ \A s \in Transfers : s # t => transfer[s]' = transfer[s]
    <3>1. transfer' = [transfer EXCEPT ![t] = [Tftp!NotStarted EXCEPT !.pc = "gone",
                                               !.kind = transfer[t].kind]]
      BY <1>5 DEF Tftp!Ended
    <3>2. transfer[t]' = [pc |-> "gone", kind |-> kind, next |-> 0, pos |-> 0, read |-> 0]
      BY <1>1, <3>1 DEF TftpTypes, Tftp!NotStarted
    <3>3. transfer[t]' \in ThreadRecords
      BY <1>1, <3>2 DEF ThreadRecords
    <3> QED BY <1>1, <3>1, <3>2, <3>3 DEF TftpTypes
  <2>2. troubles' = 0 => kind = "read" /\ Excused /\ Excused'
    BY <1>1, <1>2, <1>5 DEF ContentInv, Excused
  <2>3. ThreadInv(t)'
    BY <1>1, <2>1, <2>2 DEF ThreadInv, WriterInv, ReaderInv
  <2>4. m.client = Tftp!ClientOf(kind) /\ m.socket = t
           /\ m = Tftp!Message(m.client, m.socket, "error", 0, <<>>)
    BY <1>3 DEF Tftp!Message
  <2>5. ErrorInv(m)'
    BY <2>1, <2>2, <2>4 DEF ErrorInv, Tftp!ClientOf
  <2>6. MsgInv(m)'
    BY <2>4, <2>5 DEF MsgInv, Tftp!Message
  <2> QED BY <1>5, <2>1, <2>2, <2>3, <2>6, OpenRests
<1>6. CASE /\ kind = "write"
           /\ Tftp!Becomes(IF file = Tftp!Absent THEN <<>> ELSE file)
           /\ transfer' = [transfer EXCEPT ![t] = [@ EXCEPT !.pc = "wait", !.next = 1]]
           /\ datagrams' = datagrams \cup {Tftp!Message("up", t, "ack", 0, <<>>)}
           /\ UNCHANGED troubles
  BY <1>6, OpenToWriteStep
<1> QED
  <2>1. Tftp!Trouble =>
              troubles' \in Nat /\ troubles <= troubles' /\ unlucky + troubles' <= MaxSetbacks /\ troubles' # 0
    BY <1>1, <1>2 DEF Tftp!Trouble, TftpTypes
  <2> QED BY <1>2, <1>3, <1>4, <1>5, <1>6, <2>1 DEF Tftp!Open, Tftp!Fail

\* What holds when a block arrives at the thread of the upload.
LEMMA BlockComes ==
    ASSUME TftpAssumption, TftpInv, NEW msg, NEW t \in Transfers, Tftp!HearData(t, msg)
    PROVE  /\ TftpTypes /\ UNCHANGED <<up, down, old, new, unlucky>>
           /\ transfer[t] \in ThreadRecords /\ transfer[t].pc = "wait" /\ transfer[t].kind = "write"
           /\ t # 0
           /\ up.from = t /\ down.from # t /\ msg.block \in 1 .. up.next
           /\ msg = Tftp!Message("up", t, "data", msg.block, Tftp!Block(new, msg.block))
           /\ transfer[t].next \in {up.next, up.next + 1} /\ transfer[t].next \in Nat \ {0}
           /\ transfer[t].pos = At(transfer[t].next) /\ transfer[t].pos \in 0 .. Len(new)
           /\ IsMix(file, transfer[t].pos) /\ file # Tftp!Absent
           /\ up.pc # "idle" /\ up.pc # "done" /\ ~(up.pc = "failed" /\ troubles = 0)
           /\ At(up.next) <= Len(new) /\ up.next \in Nat /\ Len(new) \in Nat
<1> DEFINE x == transfer[t].next
<1>1. /\ TftpTypes /\ UNCHANGED <<up, down, old, new, unlucky>>
      /\ transfer[t] \in ThreadRecords /\ transfer[t].pc = "wait" /\ transfer[t].kind = "write" /\ t # 0
      /\ ThreadInv(t) /\ UpInv /\ DownInv /\ up \in ClientRecords
      /\ Tftp!Arrived(msg) /\ msg.socket = t
  BY DEF Tftp!HearData, TftpInv, TftpTypes, TftpAssumption
<1>2. WriterInv(t)
  BY <1>1 DEF ThreadInv
<1>3. /\ up.from = t /\ msg.block \in 1 .. up.next
      /\ msg = Tftp!Message("up", t, "data", msg.block, Tftp!Block(new, msg.block))
  BY <1>1, ForThread
<1>4. down.from # t
  BY <1>1 DEF DownInv
<1>5. Len(new) \in Nat /\ up.next \in Nat
  BY <1>1, LenProperties DEF TftpTypes, ClientRecords
<1>6. /\ x \in {up.next, up.next + 1} /\ x \in Nat \ {0} /\ transfer[t].pos = At(x)
      /\ transfer[t].pos \in 0 .. Len(new) /\ IsMix(file, transfer[t].pos) /\ At(up.next) <= Len(new)
  BY <1>1, <1>2, <1>3, <1>5 DEF UpInv, WriterInv, ThreadRecords
<1>7. file # Tftp!Absent
  <2>1. PICK k : k = transfer[t].pos
    OBVIOUS
  <2>2. k \in 0 .. Len(new) /\ IsMix(file, k)
    BY <1>6, <2>1
  <2> QED BY <1>1, <2>2, MixIsThere DEF TftpTypes
<1>8. up.pc # "idle" /\ up.pc # "done" /\ ~(up.pc = "failed" /\ troubles = 0)
  BY <1>1, <1>3 DEF UpInv, Settled
<1> QED BY <1>1, <1>3, <1>4, <1>5, <1>6, <1>7, <1>8

\* The block is written.
LEMMA WrittenStep ==
    ASSUME TftpAssumption, TftpInv, NEW msg, NEW t \in Transfers, Tftp!HearData(t, msg),
           NEW content \in Seq(Tftp!Units), NEW m, Tftp!Becomes(content), UNCHANGED troubles,
           m = Tftp!Message("up", t, "ack", up.next, <<>>), datagrams' = (datagrams \ {msg}) \cup {m},
           transfer' \in [Transfers -> ThreadRecords], \A s \in Transfers : s # t =>
                 transfer[s]' = transfer[s],
           transfer[t]'.kind = "write", transfer[t].next = up.next, up.next \in Nat \ {0},
           \/ transfer[t]'.pc = "gone" /\ Tftp!IsUploaded'
           \/ /\ transfer[t]'.pc = "wait" /\ transfer[t]'.next = up.next + 1
              /\ transfer[t]'.pos = At(up.next + 1) /\ At(up.next + 1) <= Len(new)
              /\ IsMix(content, At(up.next + 1)),
           content = Tftp!Absent => new = <<>>, new = <<>> => content = Tftp!Absent,
           content # Tftp!Absent => \A i \in 1 .. Len(content) : Mixed(content[i], i),
           ~Excused => Len(file) <= Len(content)
    PROVE  TftpInv'
<1> DEFINE n == up.next
<1>1. /\ TftpTypes /\ UNCHANGED <<up, down, old, new, unlucky, troubles>>
      /\ transfer[t] \in ThreadRecords /\ transfer[t].pc = "wait" /\ transfer[t].kind = "write" /\ t # 0
      /\ up.from = t /\ down.from # t /\ file # Tftp!Absent
      /\ msg = Tftp!Message("up", t, "data", msg.block, Tftp!Block(new, msg.block))
      /\ up.pc # "idle" /\ up.pc # "done" /\ ~(up.pc = "failed" /\ troubles = 0)
      /\ At(n) <= Len(new) /\ n \in Nat /\ Len(new) \in Nat
  BY BlockComes
<1>2. UpInv /\ DownInv /\ GotInv /\ ContentInv /\ (Excused' <=> Excused) /\ Base' = Base /\ down \in ClientRecords
  BY <1>1 DEF TftpInv, TftpTypes, Excused, Base
<1>3. file' = content
         /\ shown' = IF content = file THEN shown ELSE IF down.pc = "idle" THEN content ELSE Tftp!Changed
  BY DEF Tftp!Becomes
<1>4. TftpTypes'
  BY <1>1, <1>3 DEF TftpTypes
<1>5. \A s \in Transfers : ThreadKeeps(transfer[s], transfer[s]')
  <2>1. ThreadKeeps(transfer[t], transfer[t]')
    BY <1>1 DEF ThreadKeeps
  <2> QED BY <1>1, <2>1, SameThread DEF TftpTypes
<1>6. Keeps
  <2>1. shown' # Tftp!Changed => (shown # Tftp!Changed /\ file' = file) \/ down.pc = "idle"
    BY <1>3
  <2>2. ClientKeeps(up, up') /\ ClientKeeps(down, down') /\ troubles <= troubles'
    BY <1>1, SameClient DEF TftpTypes
  <2> QED BY <1>1, <1>3, <1>5, <2>1, <2>2 DEF Keeps
<1>7. ContentInv'
  <2>1. content # Tftp!Absent => \A i \in 1 .. Len(content) : Mixed(content[i], i)'
    BY <1>1, MixedIsKept
  <2>2. content = Tftp!Absent => Excused
    BY DEF Excused
  <2> QED BY <1>1, <1>2, <1>3, <2>1, <2>2 DEF ContentInv
<1>8. At(up.next + 1)' = At(up.next + 1) /\ At(up.next)' = At(up.next)
  BY <1>1 DEF At
<1>9. ASSUME NEW s \in Transfers PROVE ThreadInv(s)'
  <2>1. CASE s = t
    <3>1. transfer[t]'.pc = "wait" => transfer[t]'.next = n + 1 /\ At(transfer[t].next)' = At(n + 1)
      BY <1>8 DEF At
    <3>2. WriterInv(t)'
      BY <1>1, <3>1 DEF WriterInv
    <3> QED BY <2>1, <3>2 DEF ThreadInv
  <2>2. CASE s # t
    <3>1. Deleted => Deleted'
      BY <1>1, <1>3 DEF Deleted
    <3>2. file' = Tftp!Absent => Deleted' /\ (down.pc = "idle" \/ shown' = Tftp!Changed)
      BY <1>1, <1>3 DEF Deleted
    <3> QED BY <1>4, <1>6, <2>2, <3>1, <3>2, ThreadRests
  <2> QED BY <2>1, <2>2
<1>10. UpInv'
  <2>1. PICK next : next = At(n + 1)
    OBVIOUS
  <2>2. IsMix(content, next)' <=> IsMix(content, next)
    BY <1>1, <1>2 DEF IsMix
  <2>3. transfer[t]'.pc = "wait" =>
              /\ transfer[t]'.next \in {n, n + 1} /\ transfer[t]'.pos = next /\ next <= Len(new)
                                    /\ IsMix(content, next)'
    BY <2>1, <2>2
  <2>4. transfer[t]'.pc = "wait" => IsMix(file, transfer[t].pos)'
    BY <1>3, <2>3
  <2>5. transfer[t]'.pc \in {"wait", "gone"} /\ (transfer[t]'.pc = "gone" => Tftp!IsUploaded')
    OBVIOUS
  <2> QED BY <1>1, <1>2, <1>8, <2>3, <2>4, <2>5 DEF UpInv
<1>11. GotInv'
  <2>1. CASE content = file
    BY <1>1, <1>2, <1>3, <2>1, GotRests
  <2>2. CASE content # file
    <3>1. /\ Len(file) \in Nat /\ Len(content) \in Nat /\ Len(down.got) \in Nat
          /\ Len(down.got) = 0 => down.got = <<>>
      <4>1. file \in Seq(Tftp!Units) /\ down.got \in Seq(Tftp!Units)
        BY <1>1, <1>2 DEF TftpTypes, ClientRecords
      <4> QED BY <4>1, EmptySeq, LenProperties
    <3>2. down.pc = "idle" => Len(down.got) = 0
      <4>1. down.pc = "idle" => down.next = 1 /\ Len(down.got) = At(1)
        BY <1>2 DEF DownInv, GotInv
      <4> QED BY <4>1, FirstAt
    <3>3. \A i \in 1 .. Len(down.got) : Mixed(down.got[i], i)'
      BY <1>1, <1>2, MixedIsKept DEF GotInv
    <3>4. At(down.next)' = At(down.next)
      BY <1>1 DEF At
    <3>5. shown' = (IF down.pc = "idle" THEN file' ELSE Tftp!Changed)
      BY <1>3, <2>2
    <3>6. ~Excused => Len(down.got) <= Len(file')
      BY <1>2, <1>3, <3>1 DEF GotInv
    <3> QED BY <1>1, <1>2, <1>3, <3>1, <3>2, <3>3, <3>4, <3>5, <3>6 DEF GotInv
  <2> QED BY <2>1, <2>2
<1>12. DownInv'
  <2>1. down.from # 0 => transfer[down.from]' = transfer[down.from]
    BY <1>1, <1>2 DEF ClientRecords
  <2> QED BY <1>1, <1>2, <2>1, DownRests DEF TftpTypes
<1>13. MessagesInv'
  <2>1. m.socket = t /\ m.block = n /\ m = Tftp!Message("up", m.socket, "ack", m.block, <<>>)
    BY DEF Tftp!Message
  <2>2. At(m.block + 1)' = At(n + 1)
    BY <2>1 DEF At
  <2>3. At(n + 1) \in Int
    <3>1. n + 1 \in Nat
      BY <1>1
    <3> QED BY <3>1, AtIs
  <2>4. Len(new) < At(n + 1) => Tftp!IsUploaded'
    BY <1>1, <2>3
  <2>5. UpAckInv(m)'
    BY <1>1, <2>1, <2>2, <2>4 DEF UpAckInv
  <2>6. MsgInv(m)'
    BY <2>1, <2>5 DEF MsgInv, Tftp!Message
  <2> QED BY <1>4, <1>6, <2>6, MessagesAreKept
<1>14. UpCount'
  <2>1. m' = m /\ Tftp!Message("up", t, "ack", up.next, <<>>)' = m
    BY <1>1 DEF Tftp!Message
  <2>2. UpLive'
    BY <1>1, <2>1 DEF UpLive
  <2> QED BY <1>1, <1>5, <2>2, UpCountGoesOn DEF TftpTypes
<1>15. DownCount'
  <2>1. \A other \in datagrams : other.client = "down" => other \in datagrams'
    BY <1>1 DEF Tftp!Message
  <2> QED BY <1>1, <2>1, DownCountRests DEF TftpTypes
<1> QED BY <1>4, <1>7, <1>9, <1>10, <1>11, <1>12, <1>13, <1>14, <1>15 DEF TftpInv

\* There is no room for it.
LEMMA NotWrittenStep ==
    ASSUME TftpAssumption, TftpInv, NEW msg, NEW t \in Transfers, Tftp!HearData(t, msg),
           NEW m, m = Tftp!Message("up", t, "error", 0, <<>>),
               datagrams' = (datagrams \ {msg}) \cup {m},
           Tftp!Trouble, transfer' = Tftp!Ended(t), UNCHANGED <<file, shown>>
    PROVE  TftpInv'
<1>1. /\ TftpTypes /\ UNCHANGED <<file, shown, up, down, old, new, unlucky>>
      /\ transfer[t] \in ThreadRecords /\ transfer[t].pc = "wait" /\ transfer[t].kind = "write" /\ t # 0
      /\ up.from = t /\ down.from # t
      /\ msg = Tftp!Message("up", t, "data", msg.block, Tftp!Block(new, msg.block))
      /\ up.pc # "idle" /\ up.pc # "done" /\ At(up.next) <= Len(new)
  BY BlockComes
<1>2. /\ UpInv /\ DownInv /\ GotInv /\ ContentInv /\ (Excused' <=> Excused) /\ down \in ClientRecords
      /\ troubles \in Nat /\ unlucky \in Nat /\ MaxSetbacks \in Nat
  BY <1>1 DEF TftpInv, TftpTypes, Excused, TftpAssumption
<1>3. troubles' \in Nat /\ troubles <= troubles' /\ troubles' # 0 /\ unlucky + troubles' <= MaxSetbacks
  BY <1>2 DEF Tftp!Trouble
<1>4. /\ transfer[t]'.pc = "gone" /\ transfer[t]'.kind = "write"
      /\ \A s \in Transfers : s # t => transfer[s]' = transfer[s]
      /\ transfer' \in [Transfers -> ThreadRecords]
  <2>1. transfer' = [transfer EXCEPT ![t] = [Tftp!NotStarted EXCEPT !.pc = "gone",
                                             !.kind = transfer[t].kind]]
    BY DEF Tftp!Ended
  <2>2. transfer[t]' = [pc |-> "gone", kind |-> "write", next |-> 0, pos |-> 0, read |-> 0]
    BY <1>1, <2>1 DEF TftpTypes, Tftp!NotStarted
  <2>3. transfer[t]' \in ThreadRecords
    BY <2>2 DEF ThreadRecords
  <2> QED BY <1>1, <2>1, <2>2, <2>3 DEF TftpTypes
<1>5. TftpTypes'
  BY <1>1, <1>3, <1>4 DEF TftpTypes
<1>6. \A s \in Transfers : ThreadKeeps(transfer[s], transfer[s]')
  <2>1. ThreadKeeps(transfer[t], transfer[t]')
    BY <1>1, <1>4 DEF ThreadKeeps
  <2> QED BY <1>1, <1>4, <2>1, SameThread DEF TftpTypes
<1>7. Keeps
  BY <1>1, <1>3, <1>6, SameFile, SameClient DEF Keeps, TftpTypes
<1>8. ContentInv' /\ GotInv' /\ DownInv'
  <2>1. down.from # 0 => transfer[down.from]' = transfer[down.from]
    BY <1>1, <1>2, <1>4 DEF ClientRecords
  <2> QED BY <1>1, <1>2, <1>3, <1>4, <2>1, FileRests, GotRests, DownRests
<1>9. ASSUME NEW s \in Transfers PROVE ThreadInv(s)'
  <2>1. CASE s = t
    <3>1. WriterInv(t)'
      BY <1>1, <1>4 DEF WriterInv
    <3> QED BY <1>4, <2>1, <3>1 DEF ThreadInv
  <2>2. CASE s # t
    BY <1>1, <1>4, <1>5, <1>7, <2>2, ThreadRests, SameFile DEF TftpTypes
  <2> QED BY <2>1, <2>2
<1>10. UpInv'
  <2>1. At(up.next)' = At(up.next)
    BY <1>1 DEF At
  <2> QED BY <1>1, <1>2, <1>3, <1>4, <2>1 DEF UpInv
<1>11. MessagesInv'
  <2>1. m.client = "up" /\ m.socket = t /\ m = Tftp!Message(m.client, m.socket, "error", 0, <<>>)
    BY DEF Tftp!Message
  <2>2. ErrorInv(m)'
    BY <1>3, <1>4, <2>1 DEF ErrorInv, Tftp!ClientOf
  <2>3. MsgInv(m)'
    BY <2>1, <2>2 DEF MsgInv, Tftp!Message
  <2> QED BY <1>5, <1>7, <2>3, MessagesAreKept
<1>12. UpCount' /\ DownCount'
  BY <1>3 DEF UpCount, DownCount
<1> QED BY <1>5, <1>8, <1>9, <1>10, <1>11, <1>12 DEF TftpInv

\* It was written before: the last acknowledgment once more.
LEMMA NotNextStep ==
    ASSUME TftpAssumption, TftpInv, NEW msg, NEW t \in Transfers, Tftp!HearData(t, msg),
           NEW m, m = Tftp!Message("up", t, "ack", transfer[t].next - 1, <<>>),
           datagrams' = (datagrams \ {msg}) \cup {m},
           msg.block # transfer[t].next, UNCHANGED <<file, transfer, shown, troubles>>
    PROVE  TftpInv'
<1> DEFINE x == transfer[t].next
<1>1. /\ TftpTypes /\ UNCHANGED <<file, shown, up, down, old, new, unlucky, troubles, transfer>>
      /\ transfer[t].pc = "wait" /\ transfer[t].kind = "write" /\ t # 0 /\ up.from = t
      /\ msg = Tftp!Message("up", t, "data", msg.block, Tftp!Block(new, msg.block))
      /\ x \in {up.next, up.next + 1} /\ x \in Nat \ {0} /\ up.next \in Nat
      /\ transfer[t].pos = At(x) /\ transfer[t].pos \in 0 .. Len(new) /\ Len(new) \in Nat
  BY BlockComes
<1>2. TftpTypes' /\ ClientKeeps(up, up') /\ ClientKeeps(down, down') /\ troubles <= troubles'
  BY <1>1, SameClient DEF TftpTypes
<1>3. Keeps /\ ContentInv' /\ \A s \in Transfers : ThreadInv(s)'
  BY <1>1, <1>2, ThreadsRest
<1>4. UpInv' /\ GotInv' /\ DownInv'
  BY <1>1, UpRests, GotRests, DownRests DEF TftpInv, TftpTypes
<1>5. MessagesInv'
  <2>1. m.socket = t /\ m.block = x - 1 /\ m = Tftp!Message("up", m.socket, "ack", m.block, <<>>)
    BY DEF Tftp!Message
  <2>2. At(m.block + 1) <= Len(new) /\ At(m.block + 1)' = At(m.block + 1)
    <3>1. m.block + 1 = x
      BY <1>1, <2>1
    <3> QED BY <1>1, <3>1 DEF At
  <2>3. At(m.block + 1) \in Int
    <3>1. m.block + 1 \in Nat
      BY <1>1, <2>1
    <3> QED BY <3>1, AtIs
  <2>4. UpAckInv(m)
    BY <1>1, <2>1, <2>2, <2>3 DEF UpAckInv
  <2>5. MsgInv(m)'
    BY <1>2, <1>3, <2>1, <2>4, MessageIsKept DEF MsgInv
  <2> QED BY <1>2, <1>3, <2>5, MessagesAreKept
<1>6. UpCount'
  <2>1. UpLive => UpLive'
    <3> SUFFICES ASSUME UpLive PROVE UpLive'
      OBVIOUS
    <3>1. Tftp!Last("up")' = Tftp!Last("up") /\ (\A s \in Transfers :
             Tftp!Message("up", s, "ack", up.next, <<>>)' = Tftp!Message("up", s, "ack", up.next, <<>>))
      BY <1>1 DEF Tftp!Last, Tftp!Client, Tftp!Message, Tftp!Block, Tftp!BlockAt
    <3>2. CASE Tftp!Last("up") \in datagrams
      <4>1. CASE Tftp!Last("up") = msg
        <5>1. msg.block = up.next
          BY <1>1, <4>1 DEF Tftp!Last, Tftp!Client, Tftp!Message
        <5>2. m = Tftp!Message("up", t, "ack", up.next, <<>>)
          BY <1>1, <5>1
        <5> QED BY <1>1, <3>1, <5>2 DEF UpLive
      <4>2. CASE Tftp!Last("up") # msg
        BY <3>1, <3>2, <4>2 DEF UpLive
      <4> QED BY <4>1, <4>2
    <3>3. CASE \E s \in Transfers : up.from \in {0, s}
                  /\ Tftp!Message("up", s, "ack", up.next, <<>>) \in datagrams
      <4>1. PICK s \in Transfers : up.from \in {0, s}
               /\ Tftp!Message("up", s, "ack", up.next, <<>>) \in datagrams
        BY <3>3
      <4>2. Tftp!Message("up", s, "ack", up.next, <<>>) # msg
        BY <1>1 DEF Tftp!Message
      <4> QED BY <1>1, <3>1, <4>1, <4>2 DEF UpLive
    <3> QED BY <1>1, <3>2, <3>3 DEF UpLive
  <2> QED BY <1>1, <1>3, <2>1, UpCountGoesOn DEF TftpTypes, Keeps
<1>7. DownCount'
  <2>1. \A other \in datagrams : other.client = "down" => other \in datagrams'
    BY <1>1 DEF Tftp!Message
  <2> QED BY <1>1, <2>1, DownCountRests DEF TftpTypes
<1> QED BY <1>2, <1>3, <1>4, <1>5, <1>6, <1>7 DEF TftpInv

LEMMA HearDataStep ==
    ASSUME TftpAssumption, TftpInv, NEW msg, NEW t \in Transfers, Tftp!HearData(t, msg)
    PROVE  TftpInv'
<1> DEFINE x == transfer[t].next
           n == up.next
<1>1. /\ TftpTypes /\ UNCHANGED <<up, down, old, new, unlucky>>
      /\ transfer[t] \in ThreadRecords /\ transfer[t].pc = "wait" /\ transfer[t].kind = "write" /\ t # 0
      /\ up.from = t /\ msg.block \in 1 .. n
      /\ msg = Tftp!Message("up", t, "data", msg.block, Tftp!Block(new, msg.block))
      /\ x \in {n, n + 1} /\ x \in Nat \ {0}
      /\ transfer[t].pos = At(x) /\ transfer[t].pos \in 0 .. Len(new)
      /\ IsMix(file, transfer[t].pos) /\ file # Tftp!Absent
      /\ n \in Nat /\ Len(new) \in Nat
  BY BlockComes
<1>2. /\ old \in Seq(Tftp!Units) /\ new \in Seq(Tftp!Units \ {"absent"}) /\ file \in Seq(Tftp!Units)
      /\ Tftp!Absent \in Seq(Tftp!Units)
      /\ BlockLength \in Nat \ {0}
  BY <1>1 DEF TftpTypes, TftpAssumption, Tftp!Absent, Tftp!Units
<1>3. PICK pos : pos = transfer[t].pos
  OBVIOUS
<1>4. PICK data : data = msg.data
  OBVIOUS
<1>5. PICK content :
         content = IF x = 1 /\ data = <<>> THEN Tftp!Absent ELSE Tftp!Overwritten(file, pos, data)
  OBVIOUS
<1>6. CASE /\ Tftp!IsNext(transfer[t], msg)
           /\ Tftp!Becomes(content)
           /\ datagrams' = (datagrams \ {msg}) \cup {Tftp!Message("up", t, "ack", x, <<>>)}
           /\ transfer' = (IF Len(data) < BlockLength THEN Tftp!Ended(t)
                           ELSE [transfer EXCEPT ![t].next = @ + 1, ![t].pos = @ + Len(data)])
           /\ UNCHANGED troubles
  <2>1. x = n /\ msg.block = n /\ n \in Nat \ {0} /\ pos = At(n) /\ pos \in 0 .. Len(new)
           /\ IsMix(file, pos)
    BY <1>1, <1>3, <1>6 DEF Tftp!IsNext
  <2>2. data = Tftp!BlockAt(new, pos)
    BY <1>1, <1>4, <2>1 DEF Tftp!Message, Tftp!Block, At
  <2>3. /\ Len(data) \in 0 .. BlockLength /\ data \in Seq(Tftp!Units \ {"absent"})
        /\ \A i \in 1 .. Len(data) : pos + i <= Len(new)
        /\ Len(data) < BlockLength => pos + Len(data) = Len(new)
    <3>1. LET d == Tftp!BlockAt(new, pos) IN
          /\ d \in Seq(Tftp!Units \ {"absent"}) /\ Len(d) \in 0 .. BlockLength
          /\ \A i \in 1 .. Len(d) : pos + i <= Len(new)
          /\ Len(d) < BlockLength /\ pos <= Len(new) => pos + Len(d) = Len(new)
      BY <1>2, <2>1, BlockAtIs
    <3> QED BY <2>1, <2>2, <3>1
  <2>4. At(1) = 0 /\ At(n + 1) = At(n) + BlockLength
    BY <2>1, AtIs, FirstAt
  <2>5. Len(data) = 0 <=> data = <<>>
    BY <2>3, EmptySeq
  <2>6. /\ content \in Seq(Tftp!Units)
        /\ content = Tftp!Absent => new = <<>>
        /\ new = <<>> => content = Tftp!Absent
        /\ content # Tftp!Absent => /\ Len(file) <= Len(content) /\ pos + Len(data) \in 0 .. Len(new)
                               /\ IsMix(content, pos + Len(data))
    <3>1. CASE x = 1 /\ data = <<>>
      <4>1. Len(new) = 0
        BY <1>1, <1>2, <2>1, <2>3, <2>4, <2>5, <3>1
      <4>2. new = <<>>
        BY <1>2, <4>1, EmptySeq
      <4> QED BY <1>2, <1>5, <3>1, <4>2
    <3>2. CASE ~(x = 1 /\ data = <<>>)
      <4>1. content = Tftp!Overwritten(file, pos, data)
        BY <1>5, <3>2
      <4>2. LET d == Tftp!BlockAt(new, pos)
                result == Tftp!Overwritten(file, pos, d) IN
            /\ result \in Seq(Tftp!Units) /\ pos + Len(d) \in 0 .. Len(new)
            /\ IsMix(result, pos + Len(d)) /\ Len(file) <= Len(result)
        BY <1>2, <2>1, MixGrows
      <4>3. /\ content \in Seq(Tftp!Units) /\ pos + Len(data) \in 0 .. Len(new)
            /\ IsMix(content, pos + Len(data)) /\ Len(file) <= Len(content)
        BY <2>2, <4>1, <4>2
      <4>4. PICK end : end = pos + Len(data)
        OBVIOUS
      <4>5. content # Tftp!Absent
        BY <1>2, <4>3, <4>4, MixIsThere
      <4>6. new # <<>>
        <5>1. SUFFICES ASSUME Len(new) = 0 PROVE FALSE
          BY EmptySeq
        <5>2. pos = 0 /\ data = <<>>
          <6>1. Len(data) = 0
            BY <1>1, <2>1, <2>3, <4>3, <5>1
          <6> QED BY <2>1, <2>5, <5>1, <6>1
        <5>3. n > 1
          BY <2>1, <3>2, <5>2
        <5>4. At(1 + 1) <= At(n) /\ At(1 + 1) = At(1) + BlockLength
          BY <2>1, <5>3, AtGrows, AtIs
        <5> QED BY <1>2, <2>1, <2>4, <5>2, <5>4
      <4> QED BY <4>3, <4>5, <4>6
    <3> QED BY <3>1, <3>2
  <2>7. ASSUME content # Tftp!Absent, NEW i \in 1 .. Len(content) PROVE Mixed(content[i], i)
    <3>1. PICK end : end = pos + Len(data)
      OBVIOUS
    <3> QED BY <1>2, <2>6, <2>7, <3>1, MixIsMixed
  <2>8. /\ ~Excused => Len(file) <= Len(content)
        /\ content # Tftp!Absent => \A i \in 1 .. Len(content) : Mixed(content[i], i)
        /\ up.next \in Nat \ {0} /\ transfer[t].next = up.next
    BY <2>1, <2>6, <2>7 DEF Excused
  <2>9. PICK m : m = Tftp!Message("up", t, "ack", up.next, <<>>)
    OBVIOUS
  <2>10. datagrams' = (datagrams \ {msg}) \cup {m} /\ Tftp!Becomes(content) /\ UNCHANGED troubles
    BY <1>6, <2>1, <2>9
  <2>11. CASE Len(data) < BlockLength
    <3>1. transfer' = [transfer EXCEPT ![t] = [Tftp!NotStarted EXCEPT !.pc = "gone",
                                               !.kind = transfer[t].kind]]
      BY <1>6, <2>11 DEF Tftp!Ended
    <3>2. transfer[t]' = [pc |-> "gone", kind |-> "write", next |-> 0, pos |-> 0, read |-> 0]
      BY <1>1, <3>1 DEF TftpTypes, Tftp!NotStarted
    <3>3. transfer[t]' \in ThreadRecords
      BY <3>2 DEF ThreadRecords
    <3>4. transfer' \in [Transfers -> ThreadRecords] /\ \A s \in Transfers : s # t =>
                transfer[s]' = transfer[s]
      BY <1>1, <3>1, <3>3 DEF TftpTypes
    <3>5. Tftp!IsUploaded'
      <4>1. file' = content
        BY <1>6 DEF Tftp!Becomes
      <4>2. CASE content = Tftp!Absent
        BY <1>1, <2>6, <4>1, <4>2 DEF Tftp!IsUploaded
      <4>3. CASE content # Tftp!Absent
        <5>1. IsMix(content, Len(new)) /\ new # <<>>
          BY <2>3, <2>6, <2>11, <4>3
        <5>2. content = Tftp!Overwritten(Base, 0, new)
          BY <1>2, <2>6, <5>1, MixIsUploaded
        <5> QED BY <1>1, <4>1, <5>1, <5>2 DEF Tftp!IsUploaded, Base, Tftp!Overwritten
      <4> QED BY <4>2, <4>3
    <3>6. transfer[t]'.kind = "write" /\ transfer[t]'.pc = "gone"
      BY <3>2
    <3> QED BY <2>6, <2>8, <2>9, <2>10, <3>4, <3>5, <3>6, WrittenStep
  <2>12. CASE ~(Len(data) < BlockLength)
    <3>1. transfer' = [transfer EXCEPT ![t].next = @ + 1, ![t].pos = @ + Len(data)]
      BY <1>6, <2>12
    <3>2. transfer[t]' = [pc |-> "wait", kind |-> "write", next |-> n + 1, pos |-> pos + Len(data),
                          read |-> transfer[t].read]
      BY <1>1, <1>3, <2>1, <3>1 DEF TftpTypes, ThreadRecords
    <3>3. Len(data) = BlockLength /\ pos + Len(data) = At(n + 1) /\ pos + Len(data) \in Nat /\ n + 1 \in Nat
      BY <1>2, <2>1, <2>3, <2>4, <2>12
    <3>4. transfer[t]' \in ThreadRecords
      BY <1>1, <3>2, <3>3 DEF ThreadRecords
    <3>5. transfer' \in [Transfers -> ThreadRecords] /\ \A s \in Transfers : s # t =>
                transfer[s]' = transfer[s]
      BY <1>1, <3>1, <3>4 DEF TftpTypes
    <3>6. content # Tftp!Absent
      BY <1>2, <1>5, <2>1, <2>3, <2>6, <3>3
    <3>7. At(n + 1) <= Len(new) /\ IsMix(content, At(n + 1))
      BY <2>6, <3>3, <3>6
    <3>8. /\ transfer[t]'.kind = "write" /\ transfer[t]'.pc = "wait" /\ transfer[t]'.next = up.next + 1
          /\ transfer[t]'.pos = At(up.next + 1)
      BY <3>2, <3>3
    <3> QED BY <2>6, <2>8, <2>9, <2>10, <3>5, <3>7, <3>8, WrittenStep
  <2> QED BY <2>11, <2>12
<1>7. CASE /\ Tftp!IsNext(transfer[t], msg) /\ Tftp!Trouble /\ transfer' = Tftp!Ended(t)
           /\ datagrams' = (datagrams \ {msg}) \cup {Tftp!Message("up", t, "error", 0, <<>>)}
           /\ UNCHANGED <<file, shown>>
  BY <1>7, NotWrittenStep
<1>8. CASE /\ ~Tftp!IsNext(transfer[t], msg)
           /\ datagrams' = (datagrams \ {msg}) \cup {Tftp!Message("up", t, "ack", x - 1, <<>>)}
           /\ UNCHANGED <<file, transfer, shown, troubles>>
  BY <1>8, NotNextStep DEF Tftp!IsNext
<1> QED BY <1>1, <1>3, <1>4, <1>5, <1>6, <1>7, <1>8 DEF Tftp!HearData

-----------------------------------------------------------------------------

LEMMA TftpStep == TftpAssumption /\ TftpInv /\ [Tftp!Next]_tftpVars => TftpInv'
<1> SUFFICES ASSUME TftpAssumption, TftpInv, [Tftp!Next]_tftpVars PROVE TftpInv'
  OBVIOUS
<1>1. ASSUME NEW t \in Transfers, Tftp!TransferThread(t) PROVE TftpInv'
  BY <1>1, OpenStep, SendBlockStep, TimedOutStep DEF Tftp!TransferThread
<1>2. ASSUME NEW c \in Tftp!Clients, Tftp!ClientStep(c) PROVE TftpInv'
  <2>1. CASE Tftp!Resend(c)
    BY <2>1, UpResendStep, DownResendStep DEF Tftp!Clients
  <2> QED BY <1>2, <2>1, BeginStep, RepeatedStep DEF Tftp!ClientStep
<1>3. ASSUME NEW msg \in datagrams, Tftp!Heard(msg) PROVE TftpInv'
  <2>1. CASE \E c \in Tftp!Clients : Tftp!HearOther(c, msg)
    BY <2>1, UpHearOtherStep, DownHearOtherStep DEF Tftp!Clients
  <2>2. CASE \E t \in Transfers : Tftp!Listen(msg, t) \/ Tftp!HearAck(t, msg) \/ Tftp!HearData(t, msg)
                \/ Tftp!Ignored(t, msg)
    BY <2>2, ListenStep, HearAckStep, HearDataStep, IgnoredStep
  <2> QED BY <1>3, <2>1, <2>2, UpHearsStep, DownHearsStep DEF Tftp!Heard
<1>4. CASE UNCHANGED tftpVars
  <2>1. /\ TftpTypes
        /\ UNCHANGED <<file, transfer, up, down, datagrams, old, new, shown, unlucky, troubles>>
    BY <1>4 DEF tftpVars, TftpInv
  <2>2. TftpTypes' /\ ClientKeeps(up, up') /\ ClientKeeps(down, down') /\ troubles <= troubles'
    BY <2>1, SameClient DEF TftpTypes
  <2>3. Keeps /\ ContentInv' /\ \A t \in Transfers : ThreadInv(t)'
    BY <2>1, <2>2, ThreadsRest
  <2>4. UpInv' /\ GotInv' /\ DownInv'
    BY <2>1, UpRests, GotRests, DownRests DEF TftpInv, TftpTypes
  <2>5. MessagesInv'
    BY <2>1, <2>2, <2>3, MessagesAreKept
  <2>6. UpCount' /\ DownCount'
    BY <2>1, <2>3, UpCountRests, DownCountRests DEF TftpTypes, Keeps
  <2> QED BY <2>2, <2>3, <2>4, <2>5, <2>6 DEF TftpInv
<1> QED BY <1>1, <1>2, <1>3, <1>4, LostStep DEF Tftp!Next

LEMMA TransfersAreSound == TftpAssumption /\ TftpInv => Tftp!StorageSound
<1> SUFFICES ASSUME TftpAssumption, TftpInv PROVE Tftp!StorageSound
  OBVIOUS
<1>1. TftpTypes /\ UpInv /\ GotInv /\ DownInv
  BY DEF TftpInv
<1>2. Tftp!TypeOK
  BY <1>1 DEF Tftp!TypeOK, TftpTypes, ThreadRecords, ClientRecords
<1>3. Tftp!UploadSound
  BY <1>1 DEF Tftp!UploadSound, UpInv, Settled
<1>4. ASSUME down.pc = "done", shown # Tftp!Changed PROVE down.got = shown
  <2>1. /\ shown = file /\ Len(down.got) = Len(file)
        /\ \A i \in 1 .. Len(down.got) : down.got[i] = file[i]
    BY <1>1, <1>4 DEF GotInv
  <2>2. down.got \in Seq(Tftp!Units) /\ file \in Seq(Tftp!Units)
    BY <1>1 DEF TftpTypes, ClientRecords
  <2> QED BY <2>1, <2>2, SeqEqual
<1>5. ASSUME NEW i \in 1 .. Len(down.got)
      PROVE  \E content \in {old, new} : i <= Len(content) /\ down.got[i] = content[i]
  <2>1. PICK content \in {Base, new} : i <= Len(content) /\ down.got[i] = content[i]
    BY <1>1 DEF GotInv, Mixed
  <2>2. content # <<>>
    <3>1. content = <<>> => i <= 0 /\ i >= 1 /\ i \in Int
      <4>1. down.got \in Seq(Tftp!Units)
        BY <1>1 DEF TftpTypes, ClientRecords
      <4>2. Len(down.got) \in Nat
        BY <4>1, LenProperties
      <4>3. content = <<>> => Len(content) = 0
        OBVIOUS
      <4> QED BY <2>1, <4>2, <4>3
    <3> QED BY <3>1
  <2> QED BY <2>1, <2>2 DEF Base
<1>6. Tftp!DownloadSound
  BY <1>1, <1>4, <1>5 DEF Tftp!DownloadSound, DownInv, Excused
<1> QED BY <1>2, <1>3, <1>6 DEF Tftp!StorageSound

-----------------------------------------------------------------------------
(* The parts as they are put together *)

LEMMA PartsStep ==
    ASSUME [NodeNext]_nodeVars
    PROVE  /\ [Clock!Next]_clockVars /\ [Config!Next]_configVars
           /\ [Tftp!Next]_tftpVars /\ [KeyValue!Next]_keyValueVars
  BY DEF NodeNext, nodeVars

\* Timers measure what has passed but for one unit at a wrap, timeouts end in time, and the
\* NTP time never goes back between synchronizations, for every word size, period and
\* lateness of the interrupt (timers.c, wcom_time.c 330-420).
THEOREM ClockIsRight == NodeSpec => ClockSound
<1>1. NodeInit => ClockInv
  BY NodeAssumption, ClockStarts DEF NodeInit
<1>2. ClockInv /\ [NodeNext]_nodeVars => ClockInv'
  BY NodeAssumption, ClockStep, PartsStep
<1>3. ClockInv => Clock!TypeOK /\ Clock!ElapsedWithinOne /\ Clock!TimeoutsInTime
  BY NodeAssumption, ClockBounds, TimerIsRight, TimeoutsAreRight DEF ClockInv, Clock!TypeOK
<1>4. ClockInv /\ ClockInv' =>
        [start' = start /\ base' = base /\ since <= since' /\ Clock!MsSince' < WordSize
           => Clock!NtpElapsed' >= Clock!NtpElapsed]_clockVars
  BY NodeAssumption, NtpGrows
<1> QED
  BY <1>1, <1>2, <1>3, <1>4, PTL DEF NodeSpec, ClockSound, Clock!ClockSound, Clock!NtpNeverGoesBack,
     clockVars, Clock!clockVars

\* Each part of a parameter is read as it was last set or as it was before the power failed
\* meanwhile, and there is always a block to write to, for any parameters, versions of the
\* firmware, resets, power failures and failed writes (config.c 195-446, 727-783).  Left out,
\* until the next start, is the first part of a parameter with an old entry in the index; and
\* a block that was erased because of such an entry is read as zeroes.
THEOREM SettingsAreKept == NodeSpec => [](Config!StorageSound)
<1>1. NodeInit => ConfigInv
  BY NodeAssumption, ConfigStarts DEF NodeInit
<1>2. ConfigInv /\ [NodeNext]_nodeVars => ConfigInv'
  BY NodeAssumption, ConfigStep, PartsStep
<1>3. ConfigInv => Config!StorageSound
  BY NodeAssumption, SettingsAreSound
<1> QED
  BY <1>1, <1>2, <1>3, PTL DEF NodeSpec

\* A restart gives each parameter the value that was last written, or the one before when the
\* power failed meanwhile, in one record each; and notifications go out in order.  For any
\* parameters, page size and power failures (keyvalue.c 172-275, 741-948).  Left out are the
\* two parameters of a record that a power failure cut and of the one added behind it.
THEOREM KeyValuesAreKept == NodeSpec => [](KeyValue!StorageSound)
<1>1. NodeInit => KeyValueInv
  BY NodeAssumption, KeyValueStarts DEF NodeInit
<1>2. KeyValueInv /\ [NodeNext]_nodeVars => KeyValueInv'
  BY NodeAssumption, KeyValueStep, PartsStep
<1>3. KeyValueInv => KeyValue!StorageSound
  BY NodeAssumption, KeyValuesAreSound
<1> QED
  BY <1>1, <1>2, <1>3, PTL DEF NodeSpec

\* When a client has uploaded a file, it is on the node as a whole, or the whole of the old file
\* behind it; a download gives the file as it was, each block once and in order; and a transfer
\* in which messages were lost or came twice, but no timer ended too early, does not fail
\* otherwise.  For any files, number of sockets and repetitions (tftp.c 120-578).
THEOREM TransfersAreWhole == NodeSpec => [](Tftp!StorageSound)
<1>1. NodeInit => TftpInv
  BY NodeAssumption, TftpStarts DEF NodeInit
<1>2. TftpInv /\ [NodeNext]_nodeVars => TftpInv'
  BY NodeAssumption, TftpStep, PartsStep
<1>3. TftpInv => Tftp!StorageSound
  BY NodeAssumption, TransfersAreSound
<1> QED
  BY <1>1, <1>2, <1>3, PTL DEF NodeSpec

\* Whatever a node stores is sound, but for what the three before leave out: its settings, its
\* files and its key values.
THEOREM StorageIsSound == NodeSpec => []StorageSound
<1>1. Config!StorageSound /\ Tftp!StorageSound /\ KeyValue!StorageSound => StorageSound
  BY DEF StorageSound
<1> QED
  BY <1>1, SettingsAreKept, TransfersAreWhole, KeyValuesAreKept, PTL
=============================================================================
