----------------------------- MODULE KernelLock -----------------------------
(***************************************************************************)
(* pw_cmsis_rtos_util::KernelLock (kernel_lock.cc): a nestable kernel lock *)
(* kept in two static variables that every instance shares.  Any thread    *)
(* may be pre-empted between two steps unless the kernel is locked, in     *)
(* which case only the thread that locked it runs.  The application may    *)
(* also lock the kernel itself, around its uses of KernelLock.             *)
(***************************************************************************)
EXTENDS Integers

CONSTANTS Thread, NoThread, MaxDepth   \* deepest nesting in one thread

ASSUME KernelLockAssumption == NoThread \notin Thread /\ MaxDepth \in Nat

VARIABLES counter_, prev_lock_,   \* the static members
          locked, runner,         \* the kernel: locked, and by which thread
          pc, depth,              \* of each thread
          app                     \* threads that locked the kernel directly

vars == <<counter_, prev_lock_, locked, runner, pc, depth, app>>

TypeOK ==
    /\ counter_ \in Int
    /\ prev_lock_ \in BOOLEAN
    /\ locked \in BOOLEAN
    /\ runner \in Thread \cup {NoThread}
    /\ pc \in [Thread -> {"ready", "lock", "count", "restore"}]
    /\ depth \in [Thread -> Nat]
    /\ app \in SUBSET Thread

Init ==
    /\ counter_ = 0
    /\ prev_lock_ = TRUE          \* -1 in the code: any value, never restored
    /\ locked = FALSE
    /\ runner = NoThread
    /\ pc = [t \in Thread |-> "ready"]
    /\ depth = [t \in Thread |-> 0]
    /\ app = {}

Runs(t) == locked => runner = t
Move(t, place) == pc' = [pc EXCEPT ![t] = place]

\* counter_++ and the section is entered.
Enter(t) ==
    /\ counter_' = counter_ + 1
    /\ depth' = [depth EXCEPT ![t] = @ + 1]
    /\ Move(t, "ready")

(* A definition Name_Slip, just above Name, is a plausible slip in the code *)
(* of Name: with it in Name's place the runs must report a violation.       *)

\* lock(): the test of counter_.
lock(t) ==
    /\ Runs(t)
    /\ pc[t] = "ready"
    /\ depth[t] < MaxDepth
    /\ \/ counter_ = 0 /\ Move(t, "lock") /\ UNCHANGED <<counter_, depth>>
       \/ counter_ # 0 /\ Enter(t)
    /\ UNCHANGED <<prev_lock_, locked, runner, app>>

\* lock(): prev_lock_ = osKernelLock().
SavePrevious_Lost == prev_lock_' = FALSE
SavePrevious == prev_lock_' = locked
osKernelLock(t) ==
    /\ Runs(t)
    /\ pc[t] = "lock"
    /\ SavePrevious
    /\ locked' = TRUE
    /\ runner' = t
    /\ Move(t, "count")
    /\ UNCHANGED <<counter_, depth, app>>

LockCounts(t) ==
    /\ Runs(t)
    /\ pc[t] = "count"
    /\ Enter(t)
    /\ UNCHANGED <<prev_lock_, locked, runner, app>>

\* unlock(): counter_-- and the test for the outermost section.
Outermost_Any == TRUE
Outermost == counter_ = 1
unlock(t) ==
    /\ Runs(t)
    /\ pc[t] = "ready"
    /\ depth[t] > 0
    /\ counter_' = counter_ - 1
    /\ depth' = [depth EXCEPT ![t] = @ - 1]
    /\ IF Outermost THEN Move(t, "restore") ELSE UNCHANGED pc
    /\ UNCHANGED <<prev_lock_, locked, runner, app>>

\* unlock(): osKernelRestoreLock(prev_lock_).
osKernelRestoreLock(t) ==
    /\ Runs(t)
    /\ pc[t] = "restore"
    /\ locked' = prev_lock_
    /\ runner' = IF prev_lock_ THEN runner ELSE NoThread
    /\ Move(t, "ready")
    /\ UNCHANGED <<counter_, prev_lock_, depth, app>>

\* The application's own osKernelLock and osKernelUnlock.
AppLocks(t) ==
    /\ Runs(t)
    /\ pc[t] = "ready"
    /\ depth[t] = 0
    /\ t \notin app
    /\ app' = app \cup {t}
    /\ locked' = TRUE
    /\ runner' = t
    /\ UNCHANGED <<counter_, prev_lock_, pc, depth>>

AppUnlocks(t) ==
    /\ Runs(t)
    /\ pc[t] = "ready"
    /\ depth[t] = 0
    /\ t \in app
    /\ app' = app \ {t}
    /\ locked' = FALSE
    /\ runner' = NoThread
    /\ UNCHANGED <<counter_, prev_lock_, pc, depth>>

Next ==
    \E t \in Thread :
        \/ lock(t) \/ osKernelLock(t) \/ LockCounts(t)
        \/ unlock(t) \/ osKernelRestoreLock(t)
        \/ AppLocks(t) \/ AppUnlocks(t)

Spec == Init /\ [][Next]_vars

-----------------------------------------------------------------------------
\* The comment in lock(): wherever a thread is pre-empted, "the lock/unlock
\* cycle will complete before we get back here".  A thread inside a section has
\* the kernel to itself, and counter_ counts its nesting alone.
SectionsExclude ==
    \A t \in Thread : depth[t] > 0 => /\ locked /\ runner = t
                                      /\ counter_ = depth[t]

\* Leaving the outermost section restores what was there before: the kernel
\* stays locked for a thread that locked it directly, and is never left locked
\* by anybody else.
LockStateRestored ==
    /\ \A t \in app : locked /\ runner = t
    /\ locked => \E t \in Thread : t \in app \/ depth[t] > 0 \/ pc[t] \in {"count", "restore"}

\* The inductive invariant: what the running thread knows at each step.
Sections ==
    \A t \in Thread :
        /\ depth[t] > 0 => locked /\ runner = t /\ counter_ = depth[t] /\ pc[t] = "ready"
        /\ pc[t] \in {"count", "restore"} => locked /\ runner = t /\ counter_ = 0
Saved ==
    \A t \in Thread :
        depth[t] > 0 \/ pc[t] \in {"count", "restore"} => prev_lock_ = (t \in app)
Counted == (\A t \in Thread : depth[t] = 0) => counter_ = 0
Runner == (locked => runner \in Thread) /\ (\A t \in app : locked /\ runner = t)
NoLeak == locked => runner \in app \/ depth[runner] > 0 \/ pc[runner] \in {"count", "restore"}
LockInv == TypeOK /\ Sections /\ Saved /\ Counted /\ Runner /\ NoLeak
=============================================================================
