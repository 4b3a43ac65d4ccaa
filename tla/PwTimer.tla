------------------------------- MODULE PwTimer -------------------------------
(***************************************************************************)
(* pw::chrono on CMSIS-RTOS: the system clock (system_clock.cc), which     *)
(* extends the kernel's tick count, NativeTicks ticks before it wraps, to  *)
(* 64 bits, and a system timer (system_timer.cc) on top of an RTOS timer.  *)
(* The sections under the kernel lock are single steps (see KernelLock);   *)
(* the RTOS timer expires at a tick and its callback runs later, in the    *)
(* timer thread, so the application's calls come between.                  *)
(*                                                                         *)
(* On RTX the RTOS timer is one-shot and cannot be stopped once it has     *)
(* expired; on FreeRTOS it is periodic and can.                            *)
(***************************************************************************)
EXTENDS Integers

CONSTANTS NativeTicks,    \* 2^32 in the code
          MaxTime,        \* ticks in a behaviour
          Deadlines,      \* deadlines given to Set
          MaxCalls,       \* calls of Set and Unset by the application
          MaxQueued       \* expirations the timer thread may be behind

ASSUME PwTimerAssumption ==
    /\ NativeTicks \in Nat /\ NativeTicks > 2
    /\ MaxTime \in Nat /\ MaxCalls \in Nat /\ MaxQueued \in Nat \ {0}
    /\ Deadlines \subseteq 0..(MaxTime - 1)

VARIABLES
    now,              \* ticks since the kernel started
    tick_count_high, tick_count_low,
    rtx,              \* RTX, else FreeRTOS
    _set, _deadline,
    native,           \* the RTOS timer: ticks left, 0 if stopped; its period
    queued,           \* expirations whose callback has not run yet
    callback,         \* the deadline of the _callback about to be called, or None
    aborted,          \* a PW_CHECK failed
    calls,
    history

clock == <<tick_count_high, tick_count_low>>
timer == <<_set, _deadline, native>>
vars == <<now, clock, rtx, timer, queued, callback, aborted, calls, history>>

None == -1
\* What has happened, for the properties: read, the tick of the last reading;
\* missed, the tick count went all the way round between two readings; wrong, a
\* reading was not the time; wanted, the deadline the application waits for;
\* stray, a callback was not the one it waits for; early, a callback ran before
\* its deadline; raced, the application stopped an expired timer; long, a timer
\* was set for longer than the RTOS can count.
NoHistory == [read |-> 0, missed |-> FALSE, wrong |-> FALSE, wanted |-> None,
              stray |-> FALSE, early |-> FALSE, raced |-> FALSE, long |-> FALSE]

TypeOK ==
    /\ now \in 0..MaxTime
    /\ tick_count_high \in Nat /\ tick_count_low \in 0..(NativeTicks - 1)
    /\ rtx \in BOOLEAN /\ _set \in BOOLEAN /\ aborted \in BOOLEAN
    /\ _deadline \in {None} \cup Deadlines
    /\ native \in [left : 0..NativeTicks, period : 0..NativeTicks]
    /\ queued \in Nat
    /\ callback \in {None} \cup Deadlines
    /\ calls \in 0..MaxCalls

Init ==
    /\ now = 0
    /\ tick_count_high = 0 /\ tick_count_low = 0
    /\ rtx \in BOOLEAN
    /\ _set = FALSE /\ _deadline = None
    /\ native = [left |-> 0, period |-> 0]
    /\ queued = 0
    /\ callback = None
    /\ aborted = FALSE
    /\ calls = 0
    /\ history = NoHistory

-----------------------------------------------------------------------------
(* A definition Name_Slip, just above Name, is a plausible slip in the code *)
(* of Name: with it in Name's place the run must report a violation.        *)

\* GetSystemClockTickCount().
NewTickCount == now % NativeTicks
Wrapped_OrSame == NewTickCount <= tick_count_low
Wrapped == NewTickCount < tick_count_low
NewHigh == IF Wrapped THEN tick_count_high + 1 ELSE tick_count_high
Reading == NewHigh * NativeTicks + NewTickCount
ReadsClock == tick_count_high' = NewHigh /\ tick_count_low' = NewTickCount
AfterReading(h) ==
    [h EXCEPT !.read = now,
              !.missed = @ \/ now - h.read >= NativeTicks,
              !.wrong = @ \/ Reading # now]

\* osTimerStop fails on a timer that is not running, and PW_CHECK aborts.
StopFails == _set /\ native.left = 0
Aborts == aborted' = TRUE /\ UNCHANGED <<_set, native, callback>>

\* The end of Set: the ticks left, clamped to what osTimerStart takes.
TicksHi == NativeTicks - 2
Clamp(ticks) == IF ticks < 1 THEN 1 ELSE IF ticks > TicksHi THEN TicksHi ELSE ticks
Starts(deadline) ==
    /\ ReadsClock
    /\ _set' = TRUE
    /\ native' = [left |-> Clamp(deadline - Reading), period |-> Clamp(deadline - Reading)]
    /\ UNCHANGED <<callback, aborted>>

\* Set(deadline), by the application: InvokeAt.
Set(deadline) ==
    /\ calls < MaxCalls /\ now < MaxTime /\ ~aborted
    /\ calls' = calls + 1
    /\ _deadline' = deadline
    /\ \/ /\ StopFails /\ Aborts /\ UNCHANGED clock
          /\ history' = [history EXCEPT !.raced = TRUE]
       \/ /\ ~StopFails /\ Starts(deadline)
          /\ history' = [AfterReading(history) EXCEPT
                            !.wanted = deadline,
                            !.long = @ \/ deadline - Reading > TicksHi]
    /\ UNCHANGED <<now, rtx, queued>>

\* Unset(), by the application: Cancel.
Unset ==
    /\ calls < MaxCalls /\ ~aborted
    /\ calls' = calls + 1
    /\ \/ /\ StopFails /\ Aborts /\ UNCHANGED clock
          /\ history' = [history EXCEPT !.raced = TRUE]
       \/ /\ ~StopFails
          /\ _set' = FALSE
          /\ native' = IF _set THEN [native EXCEPT !.left = 0] ELSE native
          /\ history' = [history EXCEPT !.wanted = None]
          /\ UNCHANGED <<clock, callback, aborted>>
    /\ UNCHANGED <<now, rtx, _deadline, queued>>

\* The application reads the clock.
SystemClock_now ==
    /\ ~aborted
    /\ ReadsClock
    /\ history' = AfterReading(history)
    /\ UNCHANGED <<now, rtx, timer, queued, callback, aborted, calls>>

\* A tick; the RTOS timer counts down and expires.
Tick ==
    /\ now < MaxTime /\ ~aborted /\ queued < MaxQueued
    /\ now' = now + 1
    /\ native' = IF native.left = 0 THEN native
                 ELSE IF native.left > 1 THEN [native EXCEPT !.left = @ - 1]
                 ELSE [native EXCEPT !.left = IF rtx THEN 0 ELSE native.period]
    /\ queued' = IF native.left = 1 THEN queued + 1 ELSE queued
    /\ UNCHANGED <<clock, rtx, _set, _deadline, callback, aborted, calls, history>>

\* Invoke(), in the timer thread, up to the end of its section.
Cancelled_Unread == FALSE
Cancelled == ~_set
IsEarly == Reading < _deadline
UnsetAfterInvoke_Stop ==
    /\ _set' = FALSE
    /\ native' = [native EXCEPT !.left = 0]
    /\ aborted' = StopFails
UnsetAfterInvoke ==
    /\ _set' = FALSE
    /\ native' = IF rtx THEN native ELSE [native EXCEPT !.left = 0]
    /\ aborted' = (~rtx /\ StopFails)
Rearms_Not == ReadsClock /\ UNCHANGED <<_set, native, callback, aborted>>
Rearms == IF StopFails THEN Aborts /\ ReadsClock ELSE Starts(_deadline)
Invoke ==
    /\ queued > 0 /\ callback = None /\ ~aborted
    /\ queued' = queued - 1
    /\ \/ /\ Cancelled
          /\ UNCHANGED <<clock, _set, native, callback, aborted, history>>
       \/ /\ ~Cancelled /\ IsEarly
          /\ Rearms
          /\ history' = AfterReading(history)
       \/ /\ ~Cancelled /\ ~IsEarly
          /\ ReadsClock
          /\ UnsetAfterInvoke
          /\ callback' = _deadline
          /\ history' = [AfterReading(history) EXCEPT
                            !.stray = @ \/ history.wanted # _deadline,
                            !.wanted = None]
    /\ UNCHANGED <<now, rtx, _deadline, calls>>

\* Invoke(): _callback(deadline), outside the section.
_callback ==
    /\ callback # None /\ ~aborted
    /\ callback' = None
    /\ history' = [history EXCEPT !.early = @ \/ now < callback]
    /\ UNCHANGED <<now, clock, rtx, timer, queued, aborted, calls>>

Next ==
    \/ \E d \in Deadlines : Set(d)
    \/ Unset \/ SystemClock_now \/ Tick \/ Invoke \/ _callback

\* Time passes and the timer thread runs.
Fairness == WF_vars(Tick) /\ WF_vars(Invoke) /\ WF_vars(_callback)
Spec == Init /\ [][Next]_vars /\ Fairness

-----------------------------------------------------------------------------
(* Properties.                                                              *)

\* A reading of the clock is the time, whatever the order of readings by the
\* application, by Set and by Invoke, unless the tick count went all the way
\* round between two of them (system_clock.cc:24-28).
ClockRight == history.wrong => history.missed

\* The callback runs for a deadline that was set and neither cancelled nor
\* replaced before Invoke's section, at most once, and not before that
\* deadline, also when the RTOS timer had to be started several times
\* (system_timer.cc:119-131).
CalledOnceWhenDue == ~history.stray /\ (history.early => history.missed)

\* A check aborts the program only on RTX, and only when the application stopped
\* a timer that had expired and not yet been invoked, or when the deadline is
\* further away than the RTOS timer can count (system_timer.cc:105-106, reached
\* from Set in Invoke, :126, with the one-shot timer expired), or seems so to a
\* clock that missed a wrap.
AbortsOnlyRacedOrLong ==
    aborted => rtx /\ (history.raced \/ history.long \/ history.missed)

\* A timer that is set fires, unless it is cancelled or set again, the program
\* aborts, or the clock missed a wrap.
TimerFires ==
    \A d \in Deadlines :
        (_set /\ _deadline = d) ~> (~_set \/ _deadline # d \/ aborted \/ history.missed)
=============================================================================
