------------------------------- MODULE PwMutex ------------------------------
(***************************************************************************)
(* Pigweed's mutex backend, pw::sync::cmsis_rtos::InternalMutex            *)
(* (pw_sync_cmsis_rtos/internal_mutex.cc), and TimedMutex::try_lock_for.   *)
(* A stretch of code between _mutex.lock() and _mutex.unlock() is one step *)
(* here: the inner CMSIS-RTOS mutex serialises those stretches.            *)
(***************************************************************************)
EXTENDS Integers, FiniteSets

CONSTANTS Thread, NoThread,
          LockCallers,       \* threads that call the blocking lock()
          SpuriousTimeouts,  \* may osThreadFlagsWait(osWaitForever) time out?
          MaxTicks           \* longest timeout given to try_lock_for

ASSUME PwMutexAssumption ==
    /\ NoThread \notin Thread
    /\ LockCallers \subseteq Thread
    /\ SpuriousTimeouts \in BOOLEAN
    /\ MaxTicks \in Nat

VARIABLES owner,      \* _owner
          flag,       \* PW_SYNC_CMSIS_RTOS_MUTEX_WAIT_FLAG of each thread
          pc,         \* where each thread is
          ticks,      \* what is left of its try_lock_for
          aborted,    \* a PW_CHECK has failed
          \* history: threads that began to wait in lock() with the flag of their
          \* own unlock() still up, and threads whose mutex was taken over from
          \* them while they were inside
          relocked, robbed

mutexvars == <<owner, flag, pc, ticks, aborted, relocked, robbed>>

Places == {"outside", "trying", "waiting", "woken", "inside", "waking"}

MutexTypeOK ==
    /\ owner \in Thread \cup {NoThread}
    /\ flag \in [Thread -> BOOLEAN]
    /\ pc \in [Thread -> Places]
    /\ ticks \in [Thread -> 0..MaxTicks]
    /\ aborted \in BOOLEAN
    /\ relocked \in SUBSET Thread
    /\ robbed \in SUBSET Thread

MutexInit ==
    /\ owner = NoThread
    /\ flag = [t \in Thread |-> FALSE]
    /\ pc = [t \in Thread |-> "outside"]
    /\ ticks = [t \in Thread |-> 0]
    /\ aborted = FALSE
    /\ relocked = {}
    /\ robbed = {}

Move(t, place) == pc' = [pc EXCEPT ![t] = place]

\* _owner = this_thread; osThreadFlagsClear.
TakeOwnership(t) ==
    /\ owner' = t
    /\ flag' = [flag EXCEPT ![t] = FALSE]
    /\ Move(t, "inside")
    /\ relocked' = relocked \ {t}
    /\ robbed' = robbed \cup ({owner} \ {NoThread})

-----------------------------------------------------------------------------
(* A definition Name_Slip, just above Name, is a plausible slip in the code *)
(* of Name: with it in Name's place the runs must report a violation.       *)

Free_Unchecked == TRUE
Free == owner = NoThread

\* try_lock: an owned mutex is left alone and FALSE returned.
try_lock(t) ==
    /\ pc[t] = "outside"
    /\ Free
    /\ TakeOwnership(t)
    /\ UNCHANGED <<ticks, aborted>>

\* TimedMutex::try_lock_for: try_lock, and osDelay(1) while it fails, until
\* the ticks are used up.
try_lock_for(t) ==
    /\ pc[t] = "outside"
    /\ \E n \in 1..MaxTicks : ticks' = [ticks EXCEPT ![t] = n]
    /\ Move(t, "trying")
    /\ UNCHANGED <<owner, flag, aborted, relocked, robbed>>

DelayOne(t) == ticks' = [ticks EXCEPT ![t] = @ - 1]

repeat_with_delay(t) ==
    /\ pc[t] = "trying"
    /\ \/ /\ ticks[t] > 0
          /\ owner = NoThread
          /\ TakeOwnership(t)
          /\ ticks' = [ticks EXCEPT ![t] = 0]
       \/ /\ ticks[t] > 0
          /\ owner # NoThread
          /\ DelayOne(t)
          /\ UNCHANGED <<owner, flag, pc, relocked, robbed>>
       \/ /\ ticks[t] = 0
          /\ Move(t, "outside")
          /\ UNCHANGED <<owner, flag, ticks, relocked, robbed>>
    /\ UNCHANGED aborted

\* lock(): take a free mutex, otherwise wait for this thread's flag.
lock(t) ==
    /\ pc[t] = "outside"
    /\ t \in LockCallers
    /\ \/ owner = NoThread /\ TakeOwnership(t)
       \/ /\ owner # NoThread
          /\ Move(t, "waiting")
          /\ relocked' = IF flag[t] THEN relocked \cup {t} ELSE relocked
          /\ UNCHANGED <<owner, flag, robbed>>
    /\ UNCHANGED <<ticks, aborted>>

\* osThreadFlagsWait returns with the flag set (and leaves it set) ...
FlagsWait(t) ==
    /\ pc[t] = "waiting"
    /\ flag[t]
    /\ Move(t, "woken")
    /\ UNCHANGED <<owner, flag, ticks, aborted, relocked, robbed>>

\* ... after which the loop is left without another look at _owner.
LockAfterWait(t) ==
    /\ pc[t] = "woken"
    /\ TakeOwnership(t)
    /\ UNCHANGED <<ticks, aborted>>

\* osThreadFlagsWait times out: "continue" looks at _owner again.
RecheckOwner == owner = NoThread

WaitTimesOut(t) ==
    /\ SpuriousTimeouts
    /\ pc[t] = "waiting"
    /\ RecheckOwner
    /\ TakeOwnership(t)
    /\ UNCHANGED <<ticks, aborted>>

Checked_Dropped(t) == TRUE
Checked(t) == owner = t

\* unlock(): PW_CHECK that the caller is the owner, then release.
unlock(t) ==
    /\ pc[t] = "inside"
    /\ \/ /\ Checked(t)
          /\ owner' = NoThread
          /\ Move(t, "waking")
          /\ UNCHANGED <<flag, ticks, aborted>>
       \/ /\ ~Checked(t)
          /\ aborted' = TRUE
          /\ UNCHANGED <<owner, flag, pc, ticks>>
    /\ UNCHANGED <<relocked, robbed>>

\* osThreadFlagsSet(blocked_thread, ...), where blocked_thread is the thread
\* that has just released the mutex.
WakeBlocked(t) ==
    /\ pc[t] = "waking"
    /\ flag' = [flag EXCEPT ![t] = TRUE]
    /\ Move(t, "outside")
    /\ UNCHANGED <<owner, ticks, aborted, relocked, robbed>>

Step(t) ==
    \/ repeat_with_delay(t)
    \/ FlagsWait(t)
    \/ LockAfterWait(t)
    \/ WaitTimesOut(t)
    \/ unlock(t)
    \/ WakeBlocked(t)

MutexNext ==
    /\ ~aborted
    /\ \E t \in Thread : try_lock(t) \/ try_lock_for(t) \/ lock(t) \/ Step(t)

MutexSpec == MutexInit /\ [][MutexNext]_mutexvars

-----------------------------------------------------------------------------
\* unlock(): PW_CHECK_PTR_EQ(_owner, this_thread, "released by non-owning thread"):
\* every thread that unlocks has locked, so the check never fails.
ReleasedByOwner == ~aborted

\* A thread between lock and unlock owns the mutex, through any mix of try_lock,
\* timed and blocking locks and of timed-out waits, exactly unless the mutex was
\* taken over from it; unlock's check fails only for such a thread.
OwnershipAccounted ==
    /\ \A t \in Thread : pc[t] = "inside" => (owner = t <=> t \notin robbed)
    /\ aborted => \E t \in robbed : pc[t] = "inside"

\* The mutex is taken over from its owner only by a thread that is waiting in
\* lock() and has come there with the flag of its own earlier unlock() up: no
\* try_lock or timed lock, no timed-out wait and no first lock() of a thread does
\* so, and whoever unlocks leaves it to nobody.
TakenOverOnlyByRelocker ==
    [][\A t, u \in Thread : owner = u /\ owner' = t /\ t # u
         => t \in relocked /\ pc[t] = "woken"]_mutexvars

\* "Wake the thread if it is waiting" (internal_mutex.cc:152): when unlock() is done
\* and threads are waiting in lock(), one of them has its flag up.
UnlockWakesWaiter ==
    [][\A t \in Thread : WakeBlocked(t) /\ (\E u \in Thread : pc[u] = "waiting")
         => \E u \in Thread : pc[u] = "waiting" /\ flag'[u]]_mutexvars

\* The inductive invariant: a waiter is woken only by the flag it came with, the
\* owner is inside, and a thread is robbed while it is.
WokenRelocked ==
    \A t \in Thread : pc[t] = "woken" \/ (pc[t] = "waiting" /\ flag[t]) => t \in relocked
OwnerInside == owner # NoThread => pc[owner] = "inside"
RobbedInside == \A t \in robbed : pc[t] = "inside" /\ owner # t
MutexInv ==
    MutexTypeOK /\ OwnershipAccounted /\ WokenRelocked /\ OwnerInside /\ RobbedInside
=============================================================================
