------------------------- MODULE ThreadNotification -------------------------
(***************************************************************************)
(* pw::sync::backend::NativeThreadNotification                             *)
(* (pw_sync_cmsis_rtos/native_thread_notification.cc): one thread acquires,*)
(* any thread or interrupt releases.  Threads exclude each other with      *)
(* KernelLock (module KernelLock); an interrupt does not take it and may   *)
(* fall between any two steps.                                             *)
(***************************************************************************)
EXTENDS Naturals

CONSTANT Releaser   \* threads that call release(); interrupts do as well

VARIABLES blocked_thread_id_,  \* set (the one acquiring thread) or nullptr
          notified_,
          wait_flag,           \* the acquiring thread's wait flag
          apc, timed,          \* of the acquiring thread
          rpc,                 \* of each releasing thread
          stopped,             \* a PW_CHECK has failed
          \* history: a release no acquire has used yet; has an interrupt's
          \* release fallen into acquire's locked section; has an acquire timed out
          owed, crossed, gave_up

faults == <<crossed, gave_up>>
notification == <<blocked_thread_id_, notified_, wait_flag, apc, timed, rpc, stopped, owed, faults>>

NotificationTypeOK ==
    /\ blocked_thread_id_ \in BOOLEAN
    /\ notified_ \in BOOLEAN
    /\ wait_flag \in BOOLEAN
    /\ apc \in {"idle", "subscribe", "blocked", "clear", "wait", "awake", "unblocked"}
    /\ timed \in BOOLEAN
    /\ rpc \in [Releaser -> {"idle", "calling", "locked", "notified"}]
    /\ owed \in BOOLEAN /\ crossed \in BOOLEAN /\ gave_up \in BOOLEAN
    /\ stopped \in BOOLEAN

NotificationInit ==
    /\ blocked_thread_id_ = FALSE
    /\ notified_ = FALSE
    /\ wait_flag = FALSE
    /\ apc = "idle"
    /\ timed = FALSE
    /\ rpc = [r \in Releaser |-> "idle"]
    /\ owed = FALSE /\ crossed = FALSE /\ gave_up = FALSE
    /\ stopped = FALSE

\* KernelLock: who is in a locked section.
AcquirerLocks == apc \in {"blocked", "clear"}
ReleaserLocks == \E r \in Releaser : rpc[r] \in {"locked", "notified"}

-----------------------------------------------------------------------------
(* The acquiring thread: acquire(), try_acquire() and try_acquire_for().    *)
(* A definition Name_Slip, just above Name, is a plausible slip in the code *)
(* of Name: with it in Name's place the runs must report a violation.       *)

Use == notified_' = FALSE /\ owed' = FALSE

\* PW_CHECK_PTR_EQ(blocked_thread_id_, nullptr): "cannot block multiple threads".
Begin(t) ==
    /\ apc = "idle"
    /\ ~ReleaserLocks
    /\ IF blocked_thread_id_
         THEN stopped' = TRUE /\ UNCHANGED <<apc, timed>>
         ELSE apc' = "subscribe" /\ timed' = t /\ UNCHANGED stopped
    /\ UNCHANGED <<blocked_thread_id_, notified_, wait_flag, rpc, owed, faults>>

try_acquire ==
    /\ apc = "idle"
    /\ ~ReleaserLocks
    /\ \/ blocked_thread_id_ /\ stopped' = TRUE /\ UNCHANGED <<notified_, owed>>
       \/ ~blocked_thread_id_ /\ notified_ /\ Use /\ UNCHANGED stopped
    /\ UNCHANGED <<blocked_thread_id_, wait_flag, apc, timed, rpc, faults>>

\* Kernel locked: "First check if the thread was already notified before it
\* subscribed."
AlreadyNotified_Ignored == FALSE
AlreadyNotified == notified_
Subscribe ==
    /\ apc = "subscribe"
    /\ ~ReleaserLocks
    /\ \/ AlreadyNotified /\ Use /\ apc' = "idle"
       \/ ~AlreadyNotified /\ apc' = "blocked" /\ UNCHANGED <<notified_, owed>>
    /\ UNCHANGED <<blocked_thread_id_, wait_flag, timed, rpc, stopped, faults>>

SetBlocked ==
    /\ apc = "blocked"
    /\ blocked_thread_id_' = TRUE
    /\ apc' = "clear"
    /\ UNCHANGED <<notified_, wait_flag, timed, rpc, owed, stopped, faults>>

\* osThreadFlagsClear, the end of the locked section.
ClearFlag ==
    /\ apc = "clear"
    /\ wait_flag' = FALSE
    /\ apc' = "wait"
    /\ UNCHANGED <<blocked_thread_id_, notified_, timed, rpc, owed, stopped, faults>>

FlagSeen == wait_flag
LeaveWait_Loops == "wait"
LeaveWait == "awake"
osThreadFlagsWait ==
    /\ apc = "wait"
    /\ ~ReleaserLocks
    /\ FlagSeen
    /\ apc' = LeaveWait
    /\ UNCHANGED <<blocked_thread_id_, notified_, wait_flag, timed, rpc, owed, stopped, faults>>

\* A timed acquire gives up: the error status is returned at once.
TimesOut ==
    /\ apc = "wait"
    /\ ~ReleaserLocks
    /\ timed
    /\ ~wait_flag
    /\ apc' = "idle"
    /\ gave_up' = TRUE
    /\ UNCHANGED <<blocked_thread_id_, notified_, wait_flag, timed, rpc, owed, stopped, crossed>>

\* "Awaken the thread", without the kernel lock.
Unblock == blocked_thread_id_' = FALSE
Awake ==
    /\ apc = "awake"
    /\ ~ReleaserLocks
    /\ Unblock
    /\ apc' = "unblocked"
    /\ UNCHANGED <<notified_, wait_flag, timed, rpc, owed, stopped, faults>>

Finish ==
    /\ apc = "unblocked"
    /\ ~ReleaserLocks
    /\ Use
    /\ wait_flag' = FALSE
    /\ apc' = "idle"
    /\ UNCHANGED <<blocked_thread_id_, timed, rpc, stopped, faults>>

-----------------------------------------------------------------------------
(* release().                                                               *)

Notify == notified_' = TRUE /\ owed' = TRUE

\* Outside interrupt context the kernel is locked first; the thread may be
\* pre-empted before that.
Release(r) ==
    /\ rpc[r] = "idle"
    /\ ~AcquirerLocks
    /\ ~ReleaserLocks
    /\ rpc' = [rpc EXCEPT ![r] = "calling"]
    /\ UNCHANGED <<blocked_thread_id_, notified_, wait_flag, apc, timed, owed, stopped, faults>>

ReleaseLock(r) ==
    /\ rpc[r] = "calling"
    /\ ~AcquirerLocks
    /\ ~ReleaserLocks
    /\ rpc' = [rpc EXCEPT ![r] = "locked"]
    /\ UNCHANGED <<blocked_thread_id_, notified_, wait_flag, apc, timed, owed, stopped, faults>>

ReleaseNotify(r) ==
    /\ rpc[r] = "locked"
    /\ Notify
    /\ rpc' = [rpc EXCEPT ![r] = "notified"]
    /\ UNCHANGED <<blocked_thread_id_, wait_flag, apc, timed, stopped, faults>>

WakesBlocked == blocked_thread_id_
ReleaseWake(r) ==
    /\ rpc[r] = "notified"
    /\ wait_flag' = (wait_flag \/ WakesBlocked)
    /\ rpc' = [rpc EXCEPT ![r] = "idle"]
    /\ UNCHANGED <<blocked_thread_id_, notified_, apc, timed, owed, stopped, faults>>

\* In interrupt context the whole of release() runs, lock or no lock.
InterruptRelease ==
    /\ Notify
    /\ wait_flag' = (wait_flag \/ WakesBlocked)
    /\ crossed' = (crossed \/ AcquirerLocks)
    /\ UNCHANGED <<blocked_thread_id_, apc, timed, rpc, stopped, gave_up>>

-----------------------------------------------------------------------------
Acquiring == Subscribe \/ SetBlocked \/ ClearFlag \/ osThreadFlagsWait
             \/ TimesOut \/ Awake \/ Finish
Releasing(r) == ReleaseLock(r) \/ ReleaseNotify(r) \/ ReleaseWake(r)

NotificationNext ==
    /\ ~stopped
    /\ \/ \E t \in BOOLEAN : Begin(t)
       \/ try_acquire
       \/ Acquiring
       \/ \E r \in Releaser : Release(r) \/ Releasing(r)
       \/ InterruptRelease

NotificationSpec == NotificationInit /\ [][NotificationNext]_notification

\* Threads that can run do; the acquiring thread gets its turn between the
\* locked sections of the releasing ones.
FairNotification ==
    /\ NotificationSpec
    /\ SF_notification(~stopped /\ Acquiring)
    /\ \A r \in Releaser : WF_notification(~stopped /\ Releasing(r))

-----------------------------------------------------------------------------
\* The comment in try_acquire_for_with_status, "First check if the thread was
\* already notified before it subscribed": a notified thread is never left
\* waiting without its flag.
NoLostWakeup == apc = "wait" /\ notified_ /\ ~ReleaserLocks => wait_flag

\* A wakeup is lost only to an interrupt inside acquire's locked section: never
\* between threads, and never to an interrupt that comes before or after it.
LostOnlyToInterrupt == crossed \/ NoLostWakeup

\* "cannot block multiple threads": with a single acquiring thread the PW_CHECK
\* never fails.
OnlyOneBlocked == ~stopped

\* The check fails only once an acquire has timed out.
AbortedOnlyAfterTimeout == gave_up \/ OnlyOneBlocked

\* An acquire that is about to succeed has a release of its own to show for it,
\* however releases, interrupts and earlier acquires were interleaved.
SuccessMeansReleased == apc \in {"awake", "unblocked"} => owed

\* However a release, from a thread or an interrupt, falls into an acquire, the
\* acquire neither misses it, nor succeeds without it, nor stops the program, but
\* for the interrupt and the timeout named above.
WakeupsAccounted == LostOnlyToInterrupt /\ AbortedOnlyAfterTimeout /\ SuccessMeansReleased

\* Liveness: a release reaches an acquiring thread, but for the lost wakeup above.
ReleaseReachesWaiter == (apc = "wait" /\ owed) ~> (apc = "idle" \/ crossed)
=============================================================================
