---------------------------- MODULE PwTimerProofs ----------------------------
(* What the system clock and a system timer promise for a native counter of *)
(* any width, any deadlines and any number of calls.                        *)
EXTENDS PwTimer, TLAPS

Histories ==
    [read : Nat, missed : BOOLEAN, wrong : BOOLEAN, wanted : {None} \cup Deadlines,
     stray : BOOLEAN, early : BOOLEAN, raced : BOOLEAN, long : BOOLEAN]
Typed == TypeOK /\ history \in Histories

\* The two halves of the 64-bit clock hold the time of the last reading, unless a
\* whole period of the native counter went by without one.
ClockInv ==
    /\ history.read <= now
    /\ ~history.missed => tick_count_high * NativeTicks + tick_count_low = history.read
    /\ ClockRight

\* A timer that is set waits for the deadline that the application wants, and a
\* callback that is about to run is due.
CallbackInv ==
    /\ ~aborted /\ _set => history.wanted = _deadline
    /\ callback # None => callback <= now \/ history.missed
    /\ CalledOnceWhenDue

\* FreeRTOS restarts a timer that expires, so one that is set is always running.
PeriodicInv ==
    ~rtx => /\ native.left > 0 => native.period > 0
            /\ ~aborted /\ _set => native.left > 0

\* A deadline that the RTOS timer can count to is not behind the timer's expiry:
\* when the one-shot timer of RTX has expired, its deadline has come.
ExpiryInv ==
    ~aborted /\ _set /\ ~history.missed /\ ~history.long =>
        /\ _deadline <= now + native.left
        /\ _deadline <= now + TicksHi

TimerInv == Typed /\ ClockInv /\ CallbackInv /\ PeriodicInv /\ ExpiryInv /\ AbortsOnlyRacedOrLong

-----------------------------------------------------------------------------
(* The clock.                                                               *)

\* An integer whose multiple of n lies strictly between 0 and 2n, or between -n
\* and n, is 1, or 0.
LEMMA Multiples ==
  ASSUME NEW n \in Nat \ {0}, NEW k \in Int
  PROVE  /\ 0 < k * n /\ k * n < 2 * n => k = 1
         /\ -n < k * n /\ k * n < n => k = 0
<1>1. CASE k <= -1
  <2>1. k * n <= -n
    BY <1>1
  <2> QED
    BY <1>1, <2>1
<1>2. CASE k = 0
  BY <1>2
<1>3. CASE k = 1
  BY <1>3
<1>4. CASE k >= 2
  <2>1. k * n >= 2 * n
    BY <1>4
  <2> QED
    BY <1>4, <2>1
<1> QED
  BY <1>1, <1>2, <1>3, <1>4

\* The clock's arithmetic: from a reading less than one period ago, the native
\* counter and whether it has gone back tell the time.
LEMMA ClockArithmetic ==
  ASSUME NEW n \in Nat \ {0}, NEW high \in Nat, NEW low \in 0..(n - 1), NEW t \in Nat,
         high * n + low <= t, t < high * n + low + n
  PROVE  /\ t % n \in 0..(n - 1)
         /\ t % n < low => (high + 1) * n + (t % n) = t
         /\ ~(t % n < low) => high * n + (t % n) = t
<1> DEFINE r == t % n
           q == t \div n
           k == q - high
<1>1. q \in Nat /\ r \in 0..(n - 1) /\ t = q * n + r
  BY SMT
<1> HIDE DEF r, q
<1>2. k \in Int /\ k * n = q * n - high * n
  BY <1>1
<1>3. high * n \in Nat /\ q * n \in Nat
  BY <1>1
<1> HIDE DEF k
<1>4. ASSUME r < low PROVE (high + 1) * n + r = t
  <2>1. 0 < k * n /\ k * n < 2 * n
    BY <1>1, <1>2, <1>3, <1>4
  <2>2. k = 1
    BY <2>1, <1>2, Multiples
  <2>3. q = high + 1
    BY <2>2, <1>1 DEF k
  <2> QED
    BY <2>3, <1>1
<1>5. ASSUME ~(r < low) PROVE high * n + r = t
  <2>1. -n < k * n /\ k * n < n
    BY <1>1, <1>2, <1>3, <1>5
  <2>2. k = 0
    BY <2>1, <1>2, Multiples
  <2>3. q = high
    BY <2>2, <1>1 DEF k
  <2> QED
    BY <2>3, <1>1
<1> QED
  BY <1>1, <1>4, <1>5 DEF r

\* The reading is the time unless a wrap was missed.
LEMMA ReadingIsNow ==
  ASSUME Typed, ClockInv
  PROVE  /\ NewTickCount \in 0..(NativeTicks - 1) /\ NewHigh \in Nat /\ Reading \in Nat
         /\ ~history.missed /\ now - history.read < NativeTicks => Reading = now
<1>1. NativeTicks \in Nat \ {0} /\ now \in Nat /\ tick_count_high \in Nat
      /\ tick_count_low \in 0..(NativeTicks - 1)
  BY PwTimerAssumption DEF Typed, TypeOK
<1>2. NewTickCount \in 0..(NativeTicks - 1)
  BY <1>1 DEF NewTickCount
<1>3. NewHigh \in Nat
  BY <1>1 DEF NewHigh
<1>4. Reading \in Nat
  BY <1>1, <1>2, <1>3 DEF Reading
<1>5. ASSUME ~history.missed, now - history.read < NativeTicks PROVE Reading = now
  <2>1. tick_count_high * NativeTicks + tick_count_low = history.read /\ history.read \in Nat
    BY <1>5 DEF ClockInv, Typed, Histories
  <2>2. /\ tick_count_high * NativeTicks + tick_count_low <= now
        /\ now < tick_count_high * NativeTicks + tick_count_low + NativeTicks
    BY <2>1, <1>1, <1>5 DEF ClockInv
  <2>3. /\ now % NativeTicks < tick_count_low => (tick_count_high + 1) * NativeTicks + (now % NativeTicks) = now
        /\ ~(now % NativeTicks < tick_count_low) => tick_count_high * NativeTicks + (now % NativeTicks) = now
    BY <2>2, <1>1, ClockArithmetic
  <2> QED
    BY <2>3 DEF Reading, NewHigh, Wrapped, NewTickCount
<1> QED
  BY <1>2, <1>3, <1>4, <1>5

\* What a reading adds to the history.
LEMMA AfterReadingIs ==
  ASSUME Typed, ClockInv
  PROVE  /\ AfterReading(history) \in Histories
         /\ AfterReading(history).read = now
         /\ history.missed => AfterReading(history).missed
         /\ AfterReading(history).wrong => AfterReading(history).missed
         /\ ~AfterReading(history).missed => ~history.missed /\ Reading = now
         /\ AfterReading(history).wanted = history.wanted
         /\ AfterReading(history).stray = history.stray
         /\ AfterReading(history).early = history.early
         /\ AfterReading(history).raced = history.raced
         /\ AfterReading(history).long = history.long
<1>1. now \in Nat /\ NativeTicks \in Nat /\ history \in Histories /\ history.read \in Nat
  BY PwTimerAssumption DEF Typed, TypeOK, Histories
<1> DEFINE late == now - history.read >= NativeTicks
           off == Reading # now
<1>2. AfterReading(history) = [history EXCEPT !.read = now, !.missed = @ \/ late, !.wrong = @ \/ off]
  BY DEF AfterReading
<1>3. late \in BOOLEAN /\ off \in BOOLEAN
  OBVIOUS
<1>4. ~history.missed /\ ~late => ~off
  BY <1>1, ReadingIsNow
<1>5. history.wrong => history.missed
  BY DEF ClockInv, ClockRight
<1> HIDE DEF late, off
<1>6. /\ AfterReading(history).missed <=> history.missed \/ late
      /\ AfterReading(history).wrong <=> history.wrong \/ off
      /\ AfterReading(history) \in Histories
      /\ AfterReading(history).read = now
      /\ AfterReading(history).wanted = history.wanted
      /\ AfterReading(history).stray = history.stray
      /\ AfterReading(history).early = history.early
      /\ AfterReading(history).raced = history.raced
      /\ AfterReading(history).long = history.long
  BY <1>1, <1>2, <1>3 DEF Histories
<1> QED
  BY <1>4, <1>5, <1>6 DEF off

\* A step that reads the clock keeps the clock's invariant.
LEMMA ClockRead ==
  ASSUME Typed, ClockInv, ReadsClock, now' = now,
         history'.read = now, history'.missed = AfterReading(history).missed,
         history'.wrong = AfterReading(history).wrong
  PROVE  ClockInv' /\ tick_count_high' \in Nat /\ tick_count_low' \in 0..(NativeTicks - 1)
<1>1. now \in Nat /\ NewHigh \in Nat /\ NewTickCount \in 0..(NativeTicks - 1)
  BY ReadingIsNow DEF Typed, TypeOK
<1>2. ~history'.missed => NewHigh * NativeTicks + NewTickCount = now
  BY AfterReadingIs DEF Reading
<1>3. history'.wrong => history'.missed
  BY AfterReadingIs
<1> QED
  BY <1>1, <1>2, <1>3 DEF ClockInv, ClockRight, ReadsClock

\* A timer that is started runs for between one tick and TicksHi, and, if the
\* deadline is not further away than that, until the deadline.
LEMMA Clamped ==
  ASSUME NEW ticks \in Int
  PROVE  /\ Clamp(ticks) \in 1..TicksHi
         /\ ticks <= TicksHi => ticks <= Clamp(ticks)
BY PwTimerAssumption DEF Clamp, TicksHi

-----------------------------------------------------------------------------
(* The steps.                                                               *)

\* Set, by the application, also when it fails to stop the timer.
LEMMA SetStep == ASSUME TimerInv, NEW d \in Deadlines, Set(d) PROVE TimerInv'
<1> USE DEF Set
<1>1. /\ Typed /\ ClockInv /\ CallbackInv /\ PeriodicInv /\ ExpiryInv /\ AbortsOnlyRacedOrLong
      /\ ~aborted /\ now \in Nat /\ now' = now /\ rtx' = rtx /\ queued' = queued /\ callback' = callback
      /\ calls' \in 0..MaxCalls /\ _deadline' = d /\ d \in Nat /\ MaxTime \in Nat
  BY PwTimerAssumption DEF TimerInv, Typed, TypeOK, Aborts, Starts
<1>2. CASE /\ StopFails /\ Aborts /\ UNCHANGED clock
           /\ history' = [history EXCEPT !.raced = TRUE]
  <2>1. /\ history' \in Histories /\ history'.raced
        /\ history'.read = history.read /\ history'.missed = history.missed
        /\ history'.wrong = history.wrong /\ history'.stray = history.stray
        /\ history'.early = history.early
    BY <1>1, <1>2 DEF Typed, Histories
  <2>2. rtx
    BY <1>1, <1>2 DEF StopFails, PeriodicInv, Typed, TypeOK
  <2>3. Typed'
    BY <1>1, <1>2, <2>1 DEF Typed, TypeOK, Aborts, clock
  <2>4. ClockInv'
    BY <1>1, <1>2, <2>1 DEF ClockInv, ClockRight, clock
  <2>5. CallbackInv'
    BY <1>1, <1>2, <2>1 DEF CallbackInv, CalledOnceWhenDue, Aborts
  <2> QED
    BY <1>1, <1>2, <2>1, <2>2, <2>3, <2>4, <2>5
       DEF TimerInv, PeriodicInv, ExpiryInv, AbortsOnlyRacedOrLong, Aborts
<1>3. CASE /\ ~StopFails /\ Starts(d)
           /\ history' = [AfterReading(history) EXCEPT
                             !.wanted = d, !.long = @ \/ d - Reading > TicksHi]
  <2> DEFINE far == d - Reading > TicksHi
             a == AfterReading(history)
  <2>1. a \in Histories /\ far \in BOOLEAN /\ history' = [a EXCEPT !.wanted = d, !.long = @ \/ far]
    BY <1>1, <1>3, AfterReadingIs
  <2> HIDE DEF far, a
  <2>2. /\ history' \in Histories /\ history'.wanted = d
        /\ history'.long <=> a.long \/ far
        /\ history'.read = a.read /\ history'.missed = a.missed /\ history'.wrong = a.wrong
        /\ history'.stray = a.stray /\ history'.early = a.early
    BY <2>1 DEF Histories
  <2>3. Reading \in Nat /\ d - Reading \in Int /\ TicksHi \in Nat /\ NativeTicks \in Nat /\ TicksHi <= NativeTicks
    BY <1>1, ReadingIsNow, PwTimerAssumption DEF TicksHi
  <2>4. /\ native' = [left |-> Clamp(d - Reading), period |-> Clamp(d - Reading)]
        /\ _set' = TRUE /\ aborted' = FALSE
    BY <1>1, <1>3 DEF Starts, Typed, TypeOK
  <2>5. Clamp(d - Reading) \in 1..TicksHi /\ (d - Reading <= TicksHi => d - Reading <= Clamp(d - Reading))
    BY <2>3, Clamped
  <2>6. ClockInv' /\ tick_count_high' \in Nat /\ tick_count_low' \in 0..(NativeTicks - 1)
    BY <1>1, <1>3, <2>2, ClockRead, AfterReadingIs DEF a, Starts
  <2>7. Typed'
    <3>1. native' \in [left : 0..NativeTicks, period : 0..NativeTicks]
      BY <2>3, <2>4, <2>5
    <3> QED
      BY <1>1, <2>2, <2>4, <2>6, <3>1 DEF Typed, TypeOK
  <2>8. CallbackInv'
    BY <1>1, <2>2, AfterReadingIs DEF a, CallbackInv, CalledOnceWhenDue
  <2>9. PeriodicInv'
    BY <2>3, <2>4, <2>5 DEF PeriodicInv
  <2>10. ExpiryInv'
    <3> SUFFICES ASSUME ~history'.missed, ~history'.long
                 PROVE  d <= now + Clamp(d - Reading) /\ d <= now + TicksHi
      BY <1>1, <2>4 DEF ExpiryInv, TicksHi
    <3>1. ~far /\ Reading = now
      BY <1>1, <2>2, AfterReadingIs DEF a
    <3> QED
      BY <1>1, <2>3, <2>5, <3>1 DEF far
  <2> QED
    BY <2>4, <2>6, <2>7, <2>8, <2>9, <2>10 DEF TimerInv, AbortsOnlyRacedOrLong
<1> QED
  BY <1>2, <1>3

\* Unset, by the application.
LEMMA UnsetStep == ASSUME TimerInv, Unset PROVE TimerInv'
<1> USE DEF Unset
<1>1. /\ Typed /\ ClockInv /\ CallbackInv /\ PeriodicInv /\ ExpiryInv /\ AbortsOnlyRacedOrLong
      /\ ~aborted /\ now' = now /\ rtx' = rtx /\ queued' = queued /\ callback' = callback
      /\ calls' \in 0..MaxCalls /\ _deadline' = _deadline
      /\ clock' = clock
  BY PwTimerAssumption DEF TimerInv, Typed, TypeOK, Aborts
<1>2. CASE StopFails /\ Aborts /\ history' = [history EXCEPT !.raced = TRUE]
  <2>1. /\ history' \in Histories /\ history'.raced
        /\ history'.read = history.read /\ history'.missed = history.missed
        /\ history'.wrong = history.wrong /\ history'.stray = history.stray
        /\ history'.early = history.early
    BY <1>1, <1>2 DEF Typed, Histories
  <2>2. rtx
    BY <1>1, <1>2 DEF StopFails, PeriodicInv, Typed, TypeOK
  <2>3. Typed'
    BY <1>1, <1>2, <2>1 DEF Typed, TypeOK, Aborts, clock
  <2>4. ClockInv'
    BY <1>1, <1>2, <2>1 DEF ClockInv, ClockRight, clock
  <2>5. CallbackInv'
    BY <1>1, <1>2, <2>1 DEF CallbackInv, CalledOnceWhenDue, Aborts
  <2> QED
    BY <1>1, <1>2, <2>1, <2>2, <2>3, <2>4, <2>5
       DEF TimerInv, PeriodicInv, ExpiryInv, AbortsOnlyRacedOrLong, Aborts
<1>3. CASE /\ _set' = FALSE /\ aborted' = aborted
           /\ native' = IF _set THEN [native EXCEPT !.left = 0] ELSE native
           /\ history' = [history EXCEPT !.wanted = None]
  <2>1. /\ history' \in Histories
        /\ history'.read = history.read /\ history'.missed = history.missed
        /\ history'.wrong = history.wrong /\ history'.stray = history.stray
        /\ history'.early = history.early
    BY <1>1, <1>3 DEF Typed, Histories
  <2>2. /\ native' \in [left : 0..NativeTicks, period : 0..NativeTicks]
        /\ native'.left > 0 => native'.left = native.left /\ native'.period = native.period
    BY <1>1, <1>3, PwTimerAssumption DEF Typed, TypeOK
  <2>3. Typed'
    BY <1>1, <1>3, <2>1, <2>2 DEF Typed, TypeOK, clock
  <2>4. ClockInv'
    BY <1>1, <1>3, <2>1 DEF ClockInv, ClockRight, clock
  <2>5. CallbackInv'
    BY <1>1, <1>3, <2>1 DEF CallbackInv, CalledOnceWhenDue
  <2> QED
    BY <1>1, <1>3, <2>2, <2>3, <2>4, <2>5 DEF TimerInv, PeriodicInv, ExpiryInv, AbortsOnlyRacedOrLong
<1> QED
  BY <1>2, <1>3

\* The application reads the clock.
LEMMA NowStep == ASSUME TimerInv, SystemClock_now PROVE TimerInv'
<1> USE DEF SystemClock_now
<1>1. /\ Typed /\ ClockInv /\ CallbackInv /\ PeriodicInv /\ ExpiryInv /\ AbortsOnlyRacedOrLong
      /\ UNCHANGED <<now, rtx, timer, queued, callback, aborted, calls>>
      /\ ReadsClock /\ history' = AfterReading(history)
  BY DEF TimerInv
<1>2. ClockInv' /\ tick_count_high' \in Nat /\ tick_count_low' \in 0..(NativeTicks - 1)
  BY <1>1, ClockRead, AfterReadingIs
<1>3. Typed'
  BY <1>1, <1>2, AfterReadingIs DEF Typed, TypeOK, timer
<1>4. CallbackInv'
  BY <1>1, AfterReadingIs DEF CallbackInv, CalledOnceWhenDue, timer
<1>5. ExpiryInv'
  BY <1>1, AfterReadingIs DEF ExpiryInv, TicksHi, timer
<1> QED
  BY <1>1, <1>2, <1>3, <1>4, <1>5, AfterReadingIs
     DEF TimerInv, PeriodicInv, AbortsOnlyRacedOrLong, timer

\* A tick of the kernel, at which the RTOS timer may expire.
LEMMA TickStep == ASSUME TimerInv, Tick PROVE TimerInv'
<1> USE DEF Tick
<1>1. /\ Typed /\ ClockInv /\ CallbackInv /\ PeriodicInv /\ ExpiryInv /\ AbortsOnlyRacedOrLong
      /\ UNCHANGED <<clock, rtx, _set, _deadline, callback, aborted, calls, history>>
      /\ now \in Nat /\ now' = now + 1 /\ now' \in 0..MaxTime
      /\ native \in [left : 0..NativeTicks, period : 0..NativeTicks]
      /\ NativeTicks \in Nat /\ TicksHi \in Nat /\ ~aborted
  BY PwTimerAssumption DEF TimerInv, Typed, TypeOK, TicksHi
<1>2. /\ native' \in [left : 0..NativeTicks, period : 0..NativeTicks]
      /\ native'.period = native.period
      /\ native.left = 0 => native'.left = 0
      /\ native.left > 1 => native'.left = native.left - 1
      /\ native.left = 1 => native'.left = IF rtx THEN 0 ELSE native.period
  BY <1>1
<1>3. Typed'
  BY <1>1, <1>2 DEF Typed, TypeOK, clock
<1>4. ClockInv'
  BY <1>1 DEF ClockInv, ClockRight, clock, Typed, Histories
<1>5. CallbackInv'
  BY <1>1, PwTimerAssumption DEF CallbackInv, CalledOnceWhenDue, Typed, TypeOK, None
<1>6. PeriodicInv'
  BY <1>1, <1>2 DEF PeriodicInv
<1>7. ExpiryInv'
  <2>1. _deadline \in Int
    BY <1>1, PwTimerAssumption DEF Typed, TypeOK, None
  <2> QED
    BY <1>1, <1>2, <2>1 DEF ExpiryInv, TicksHi
<1> QED
  BY <1>1, <1>3, <1>4, <1>5, <1>6, <1>7 DEF TimerInv, AbortsOnlyRacedOrLong

\* The timer thread runs the expiry of a timer: it was cancelled, it came early and
\* is started again, or the callback is due.
LEMMA InvokeStep == ASSUME TimerInv, Invoke PROVE TimerInv'
<1> USE DEF Invoke
<1>1. /\ Typed /\ ClockInv /\ CallbackInv /\ PeriodicInv /\ ExpiryInv /\ AbortsOnlyRacedOrLong
      /\ UNCHANGED <<now, rtx, _deadline, calls>>
      /\ now \in Nat /\ queued' \in Nat /\ ~aborted
      /\ native \in [left : 0..NativeTicks, period : 0..NativeTicks]
      /\ NativeTicks \in Nat /\ TicksHi \in Nat /\ TicksHi <= NativeTicks
      /\ _deadline \in Int /\ Reading \in Nat
  BY PwTimerAssumption, ReadingIsNow DEF TimerInv, Typed, TypeOK, TicksHi, None
<1>2. CASE Cancelled /\ UNCHANGED <<clock, _set, native, callback, aborted, history>>
  <2>1. Typed'
    BY <1>1, <1>2 DEF Typed, TypeOK, clock
  <2> QED
    BY <1>1, <1>2, <2>1 DEF TimerInv, ClockInv, ClockRight, clock, CallbackInv,
       CalledOnceWhenDue, PeriodicInv, ExpiryInv, TicksHi, AbortsOnlyRacedOrLong
<1>3. CASE ~Cancelled /\ IsEarly /\ Rearms /\ history' = AfterReading(history)
  <2>1. ReadsClock /\ callback' = callback /\ _set' /\ _set' \in BOOLEAN
    BY <1>1, <1>3 DEF Rearms, Aborts, Starts, Cancelled, Typed, TypeOK
  <2>2. ClockInv' /\ tick_count_high' \in Nat /\ tick_count_low' \in 0..(NativeTicks - 1)
    BY <1>1, <1>3, <2>1, ClockRead, AfterReadingIs
  <2>3. CallbackInv'
    BY <1>1, <1>3, <2>1, AfterReadingIs DEF CallbackInv, CalledOnceWhenDue, Cancelled
  <2>4. CASE StopFails
    <3>1. native' = native /\ aborted' = TRUE
      BY <1>3, <2>4 DEF Rearms, Aborts
    <3>2. rtx
      BY <1>1, <2>4 DEF PeriodicInv, StopFails, Typed, TypeOK
    <3>3. history'.long \/ history'.missed
      <4> SUFFICES ASSUME ~history'.long, ~history'.missed PROVE FALSE
        OBVIOUS
      <4>1. ~history.long /\ ~history.missed /\ Reading = now
        BY <1>1, <1>3, AfterReadingIs
      <4>2. _deadline <= now + native.left
        BY <1>1, <1>3, <4>1 DEF ExpiryInv, Cancelled
      <4> QED
        BY <1>1, <1>3, <2>4, <4>1, <4>2 DEF IsEarly, StopFails
    <3>4. Typed'
      BY <1>1, <1>3, <2>1, <2>2, <3>1, AfterReadingIs DEF Typed, TypeOK
    <3> QED
      BY <1>1, <2>2, <2>3, <3>1, <3>2, <3>3, <3>4
         DEF TimerInv, PeriodicInv, ExpiryInv, AbortsOnlyRacedOrLong
  <2>5. CASE ~StopFails
    <3> DEFINE ticks == _deadline - Reading
    <3>1. native' = [left |-> Clamp(ticks), period |-> Clamp(ticks)] /\ aborted' = aborted
      BY <1>3, <2>5 DEF Rearms, Starts
    <3>2. Clamp(ticks) \in 1..TicksHi /\ (ticks <= TicksHi => ticks <= Clamp(ticks))
      BY <1>1, Clamped
    <3>3. /\ native' \in [left : 0..NativeTicks, period : 0..NativeTicks]
          /\ native'.left > 0 /\ native'.period > 0
      BY <1>1, <3>1, <3>2
    <3>4. Typed'
      BY <1>1, <1>3, <2>1, <2>2, <3>1, <3>3, AfterReadingIs DEF Typed, TypeOK
    <3>5. ExpiryInv'
      <4> SUFFICES ASSUME ~history'.missed, ~history'.long
                   PROVE  _deadline <= now + Clamp(ticks) /\ _deadline <= now + TicksHi
        BY <1>1, <3>1 DEF ExpiryInv, TicksHi
      <4>1. ~history.long /\ ~history.missed /\ Reading = now
        BY <1>1, <1>3, AfterReadingIs
      <4>2. _deadline <= now + TicksHi
        BY <1>1, <1>3, <4>1 DEF ExpiryInv, Cancelled
      <4> QED
        BY <1>1, <3>2, <4>1, <4>2
    <3> QED
      BY <1>1, <2>2, <2>3, <3>1, <3>3, <3>4, <3>5 DEF TimerInv, PeriodicInv, AbortsOnlyRacedOrLong
  <2> QED
    BY <2>4, <2>5
<1>4. CASE /\ ~Cancelled /\ ~IsEarly /\ ReadsClock /\ UnsetAfterInvoke /\ callback' = _deadline
           /\ history' = [AfterReading(history) EXCEPT
                             !.stray = @ \/ history.wanted # _deadline, !.wanted = None]
  <2> DEFINE a == AfterReading(history)
  <2>1. history.wanted = _deadline
    BY <1>1, <1>4 DEF CallbackInv, Cancelled
  <2>2. a \in Histories /\ history' = [a EXCEPT !.stray = @ \/ FALSE, !.wanted = None]
    BY <1>1, <1>4, <2>1, AfterReadingIs
  <2> HIDE DEF a
  <2>3. /\ history' \in Histories
        /\ history'.read = a.read /\ history'.missed = a.missed /\ history'.wrong = a.wrong
        /\ history'.stray <=> a.stray
        /\ history'.early = a.early /\ history'.raced = a.raced /\ history'.long = a.long
    BY <2>2 DEF Histories, None
  <2>4. ClockInv' /\ tick_count_high' \in Nat /\ tick_count_low' \in 0..(NativeTicks - 1)
    BY <1>1, <1>4, <2>3, ClockRead, AfterReadingIs DEF a
  <2>5. _set' = FALSE /\ aborted' = FALSE
    BY <1>1, <1>4 DEF UnsetAfterInvoke, StopFails, PeriodicInv, Typed, TypeOK
  <2>6. /\ native' \in [left : 0..NativeTicks, period : 0..NativeTicks]
        /\ native'.left > 0 => native'.left = native.left /\ native'.period = native.period
    BY <1>1, <1>4 DEF UnsetAfterInvoke
  <2>7. Typed'
    BY <1>1, <1>4, <2>3, <2>4, <2>5, <2>6 DEF Typed, TypeOK
  <2>8. CallbackInv'
    <3>1. callback' <= now \/ history'.missed
      BY <1>1, <1>4, <2>3, AfterReadingIs DEF a, IsEarly
    <3> QED
      BY <1>1, <2>3, <2>5, <3>1, AfterReadingIs DEF a, CallbackInv, CalledOnceWhenDue
  <2> QED
    BY <1>1, <2>4, <2>5, <2>6, <2>7, <2>8 DEF TimerInv, PeriodicInv, ExpiryInv, AbortsOnlyRacedOrLong
<1> QED
  BY <1>1, <1>2, <1>3, <1>4

\* The callback runs, outside the section.
LEMMA CallbackStep == ASSUME TimerInv, _callback PROVE TimerInv'
<1> USE DEF _callback
<1>1. /\ Typed /\ ClockInv /\ CallbackInv /\ PeriodicInv /\ ExpiryInv /\ AbortsOnlyRacedOrLong
      /\ UNCHANGED <<now, clock, rtx, timer, queued, aborted, calls>>
      /\ now \in Int /\ callback \in Int /\ history \in Histories
  BY PwTimerAssumption DEF TimerInv, Typed, TypeOK, None
<1> DEFINE before == now < callback
<1>2. before \in BOOLEAN /\ (before => history.missed)
  BY <1>1 DEF CallbackInv
<1>3. history' = [history EXCEPT !.early = @ \/ before]
  OBVIOUS
<1> HIDE DEF before
<1>4. /\ history' \in Histories
      /\ history'.early <=> history.early \/ before
      /\ history'.read = history.read /\ history'.missed = history.missed
      /\ history'.wrong = history.wrong /\ history'.stray = history.stray
      /\ history'.wanted = history.wanted /\ history'.raced = history.raced
      /\ history'.long = history.long
  BY <1>1, <1>2, <1>3 DEF Histories
<1>5. Typed'
  BY <1>1, <1>4 DEF Typed, TypeOK, clock, timer
<1>6. ClockInv'
  BY <1>1, <1>4 DEF ClockInv, ClockRight, clock
<1>7. CallbackInv'
  BY <1>1, <1>2, <1>4 DEF CallbackInv, CalledOnceWhenDue, timer
<1> QED
  BY <1>1, <1>4, <1>5, <1>6, <1>7 DEF TimerInv, PeriodicInv, ExpiryInv, TicksHi, AbortsOnlyRacedOrLong, timer

\* A timer nobody has set yet, on a clock nobody has read.
LEMMA TimerInit == Init => TimerInv
<1> SUFFICES ASSUME Init PROVE TimerInv
  OBVIOUS
<1>1. NativeTicks \in Nat /\ NativeTicks > 2 /\ MaxTime \in Nat /\ MaxCalls \in Nat
  BY PwTimerAssumption
<1>2. NoHistory \in Histories
  BY DEF NoHistory, Histories, None
<1>3. Typed
  <2>1. native \in [left : 0..NativeTicks, period : 0..NativeTicks]
    BY <1>1 DEF Init
  <2>2. _set \in BOOLEAN /\ aborted \in BOOLEAN /\ rtx \in BOOLEAN
    BY DEF Init
  <2> QED
    BY <1>1, <1>2, <2>1, <2>2 DEF Init, Typed, TypeOK
<1>4. ClockInv
  <2>1. 0 * NativeTicks + 0 = 0
    BY <1>1
  <2> QED
    BY <2>1 DEF Init, ClockInv, ClockRight, NoHistory
<1> QED
  BY <1>3, <1>4 DEF Init, TimerInv, NoHistory, CallbackInv, CalledOnceWhenDue, PeriodicInv,
     ExpiryInv, AbortsOnlyRacedOrLong

\* Every step of the application, of the kernel and of the timer thread.
LEMMA TimerStep == TimerInv /\ [Next]_vars => TimerInv'
<1> SUFFICES ASSUME TimerInv, [Next]_vars PROVE TimerInv'
  OBVIOUS
<1>1. CASE UNCHANGED vars
  <2>1. UNCHANGED <<now, tick_count_high, tick_count_low, rtx, _set, _deadline, native, queued,
                    callback, aborted, calls, history>>
    BY <1>1 DEF vars, clock, timer
  <2> QED
    BY <2>1 DEF TimerInv, Typed, TypeOK, ClockInv, ClockRight, CallbackInv, CalledOnceWhenDue,
       PeriodicInv, ExpiryInv, TicksHi, AbortsOnlyRacedOrLong
<1> QED
  BY <1>1, SetStep, UnsetStep, NowStep, TickStep, InvokeStep, CallbackStep DEF Next

\* The whole invariant of the clock and the timer.
THEOREM TimerSafe == Spec => []TimerInv
BY TimerInit, TimerStep, PTL DEF Spec

\* GetSystemClockTickCount gives the time to every caller in whatever order they
\* read it, for a native counter of any width, unless a whole period of the counter
\* went by between two readings.
THEOREM ClockSafe == Spec => []ClockRight
<1>1. TimerInv => ClockRight
  BY DEF TimerInv, ClockInv
<1> QED
  BY <1>1, TimerSafe, PTL

\* A callback is the one the application waits for, comes once, and is not early.
THEOREM CallbackSafe == Spec => []CalledOnceWhenDue
<1>1. TimerInv => CalledOnceWhenDue
  BY DEF TimerInv, CallbackInv
<1> QED
  BY <1>1, TimerSafe, PTL

\* The checks of Set, Unset and Invoke abort only on RTX, and only for an expiry
\* that the application raced, a deadline out of the timer's range, or a missed wrap.
THEOREM AbortsSafe == Spec => []AbortsOnlyRacedOrLong
<1>1. TimerInv => AbortsOnlyRacedOrLong
  BY DEF TimerInv
<1> QED
  BY <1>1, TimerSafe, PTL
=============================================================================
