------------------------------ MODULE PwThread ------------------------------
(***************************************************************************)
(* pw::thread::Thread (pw_thread_cmsis_rtos/thread.cc) as a client of the  *)
(* kernel lock.  Creator makes, joins and detaches threads; every worker   *)
(* runs once and cleans up in thread_entry_point; whichever of the two     *)
(* comes last deletes the Context they share.  Other is the rest of the    *)
(* program: it takes the kernel lock, nested, or locks the kernel itself.  *)
(* Each KernelLockGuard is the steps of KernelLock, so a thread may be     *)
(* pre-empted wherever the kernel is not locked.                           *)
(***************************************************************************)
EXTENDS KernelLock

CONSTANTS Creator, Worker, Other

ASSUME PwThreadAssumption ==
    /\ Thread = {Creator, Other} \cup Worker
    /\ Creator # Other /\ Creator \notin Worker /\ Other \notin Worker

VARIABLES
    rtx,        \* PW_THREAD_CMSIS_RTOS_HAVE_JOIN_DETACH: RTX, else FreeRTOS
    context,    \* of each worker: its Context
    native,     \* of each Thread object: does native_type_ point to it?
    rtos,       \* of each worker: what the RTOS keeps of it
    op,         \* what Creator is doing, with which worker, and where
    entry,      \* of each worker: where it is in thread_entry_point
    misused,    \* the operations that used a deleted Context
    late        \* the workers detached on RTX after they had completed

threadvars == <<rtx, context, native, rtos, op, entry, misused, late>>
allvars == <<vars, threadvars>>

NoOp == [name |-> "none", w |-> NoThread, at |-> "none"]
NoContext == [state |-> "none", detached |-> FALSE, completed |-> FALSE, notified |-> FALSE]

Creating == {"new_joinable", "new_detached"}
Contexts == [state : {"none", "alive", "deleted"}, detached : BOOLEAN,
             completed : BOOLEAN, notified : BOOLEAN]
Ops == [name : Creating \cup {"join", "detach"}, w : Worker, at : {"wait", "section", "leave"}]

ThreadTypeOK ==
    /\ TypeOK
    /\ rtx \in BOOLEAN
    /\ context \in [Worker -> Contexts]
    /\ native \in [Worker -> BOOLEAN]
    /\ rtos \in [Worker -> {"none", "joinable", "detached", "terminated", "gone"}]
    /\ op = NoOp \/ op \in Ops
    /\ entry \in [Worker -> {"none", "invoke", "section", "leave", "done"}]
    /\ misused \subseteq {"Thread", "join", "detach", "thread_entry_point"}
    /\ late \subseteq Worker

ThreadInit ==
    /\ Init
    /\ rtx \in BOOLEAN
    /\ context = [w \in Worker |-> NoContext]
    /\ native = [w \in Worker |-> FALSE]
    /\ rtos = [w \in Worker |-> "none"]
    /\ op = NoOp
    /\ entry = [w \in Worker |-> "none"]
    /\ misused = {} /\ late = {}

-----------------------------------------------------------------------------
(* The kernel lock, as its clients use it.  A definition Name_Slip, just    *)
(* above Name, is a plausible slip in the code of Name: with it in Name's   *)
(* place the run must report a violation.                                   *)

Wants(t) == (t = Creator /\ op.at = "section") \/ (t \in Worker /\ entry[t] = "section")
Leaves(t) == (t = Creator /\ op.at = "leave") \/ (t \in Worker /\ entry[t] = "leave")
Inside(t) == Wants(t) /\ depth[t] > 0 /\ pc[t] = "ready" /\ Runs(t) /\ UNCHANGED vars
Outside(t) == depth[t] = 0 /\ pc[t] = "ready" /\ Runs(t) /\ UNCHANGED vars

KernelLockStep(t) ==
    /\ \/ Wants(t) /\ depth[t] = 0 /\ (lock(t) \/ osKernelLock(t) \/ LockCounts(t))
       \/ Leaves(t) /\ (unlock(t) \/ osKernelRestoreLock(t))
    /\ UNCHANGED threadvars
OtherStep ==
    /\ \/ lock(Other) \/ osKernelLock(Other) \/ LockCounts(Other)
       \/ unlock(Other) \/ osKernelRestoreLock(Other)
       \/ AppLocks(Other) \/ AppUnlocks(Other)
    /\ UNCHANGED threadvars

-----------------------------------------------------------------------------
(* A Context is used, deleted.  Reading a deleted one gives either answer.  *)
Deleted(w) == context[w].state = "deleted"
Uses(w, who) == misused' = IF Deleted(w) THEN misused \cup {who} ELSE misused
Delete(w) == context' = [context EXCEPT ![w].state = "deleted"]
MayRead(w, bit) == IF Deleted(w) THEN BOOLEAN ELSE {context[w][bit]}
GoOn(at) == op' = [op EXCEPT !.at = at]
Finish == op' = NoOp

(* Thread::Thread: the Context is made, and the thread started, under the   *)
(* kernel lock; detached() is read after it.                                *)
Thread_new(w) ==
    /\ Outside(Creator) /\ op = NoOp /\ context[w].state = "none"
    /\ \E name \in Creating : op' = [name |-> name, w |-> w, at |-> "section"]
    /\ UNCHANGED <<rtx, context, native, rtos, entry, misused, late>>
Context_new ==
    /\ Inside(Creator) /\ op.name \in Creating
    /\ LET detached == op.name = "new_detached"
       IN  /\ context' = [context EXCEPT ![op.w] =
                  [state |-> "alive", detached |-> detached, completed |-> FALSE, notified |-> FALSE]]
           /\ rtos' = [rtos EXCEPT ![op.w] = IF rtx /\ ~detached THEN "joinable" ELSE "detached"]
    /\ entry' = [entry EXCEPT ![op.w] = "invoke"]
    /\ GoOn("leave")
    /\ UNCHANGED <<rtx, native, misused, late>>
Thread_created ==
    /\ Outside(Creator) /\ op.at = "leave" /\ op.name \in Creating
    /\ \E detached \in MayRead(op.w, "detached") : native' = [native EXCEPT ![op.w] = ~detached]
    /\ Uses(op.w, "Thread")
    /\ Finish
    /\ UNCHANGED <<rtx, context, rtos, entry, late>>

ClearNative_Not(w) == UNCHANGED native
ClearNative(w) == native' = [native EXCEPT ![w] = FALSE]

(* join(): wait for the thread's end, then delete its Context.              *)
join(w) ==
    /\ Outside(Creator) /\ op = NoOp /\ native[w]
    /\ op' = [name |-> "join", w |-> w, at |-> "wait"]
    /\ Uses(w, "join")
    /\ UNCHANGED <<rtx, context, native, rtos, entry, late>>
Joined ==
    /\ Outside(Creator) /\ op.at = "wait"
    /\ \/ /\ rtx /\ rtos[op.w] = "terminated"
          /\ rtos' = [rtos EXCEPT ![op.w] = "gone"]
          /\ UNCHANGED context
       \/ /\ ~rtx /\ context[op.w].notified
          /\ context' = [context EXCEPT ![op.w].notified = FALSE]
          /\ UNCHANGED rtos
    /\ GoOn("section")
    /\ UNCHANGED <<rtx, native, entry, misused, late>>
JoinedDelete ==
    /\ Inside(Creator) /\ op.name = "join"
    /\ Uses(op.w, "join")
    /\ Delete(op.w)
    /\ ClearNative(op.w)
    /\ GoOn("leave")
    /\ UNCHANGED <<rtx, rtos, entry, late>>

(* detach(): a thread that has completed is cleaned up here, without        *)
(* osThreadDetach; one that has not will do it itself.                      *)
detach(w) ==
    /\ Outside(Creator) /\ op = NoOp /\ native[w]
    /\ op' = [name |-> "detach", w |-> w, at |-> "section"]
    /\ Uses(w, "detach")
    /\ UNCHANGED <<rtx, context, native, rtos, entry, late>>
completed_Unread(w) == FALSE
completed(w) == context[w].completed
RtosDetach(w) == rtos' = IF rtx THEN [rtos EXCEPT ![w] = "detached"] ELSE rtos
DetachCompleted(w) ==
    /\ completed(w)
    /\ Delete(w)
    /\ late' = IF rtx THEN late \cup {w} ELSE late
    /\ UNCHANGED rtos
DetachRunning(w) ==
    /\ ~completed(w)
    /\ RtosDetach(w)
    /\ context' = [context EXCEPT ![w].detached = TRUE]
    /\ UNCHANGED late
Detached ==
    /\ Inside(Creator) /\ op.name = "detach"
    /\ Uses(op.w, "detach")
    /\ DetachCompleted(op.w) \/ DetachRunning(op.w)
    /\ ClearNative(op.w)
    /\ GoOn("leave")
    /\ UNCHANGED <<rtx, entry>>
Returned ==
    /\ Outside(Creator) /\ op.at = "leave" /\ op.name \in {"join", "detach"}
    /\ Finish
    /\ UNCHANGED <<rtx, context, native, rtos, entry, misused, late>>

(* thread_entry_point.                                                      *)
invoke(w) ==
    /\ Outside(w) /\ entry[w] = "invoke"
    /\ Uses(w, "thread_entry_point")
    /\ entry' = [entry EXCEPT ![w] = "section"]
    /\ UNCHANGED <<rtx, context, native, rtos, op, late>>
set_completed_Silent(w) == context' = [context EXCEPT ![w].completed = TRUE]
set_completed(w) ==
    context' = [context EXCEPT ![w].completed = TRUE, ![w].notified = ~rtx]
CleanUp(w) ==
    /\ Inside(w)
    /\ Uses(w, "thread_entry_point")
    /\ IF context[w].detached THEN Delete(w) ELSE set_completed(w)
    /\ entry' = [entry EXCEPT ![w] = "leave"]
    /\ UNCHANGED <<rtx, native, rtos, op, late>>
osThreadExit(w) ==
    /\ Outside(w) /\ entry[w] = "leave"
    /\ entry' = [entry EXCEPT ![w] = "done"]
    /\ rtos' = [rtos EXCEPT ![w] = IF @ = "joinable" THEN "terminated" ELSE "gone"]
    /\ UNCHANGED <<rtx, context, native, op, misused, late>>

CreatorStep ==
    \/ KernelLockStep(Creator) \/ Context_new \/ Thread_created \/ Joined \/ JoinedDelete
    \/ Detached \/ Returned
WorkerStep(w) == KernelLockStep(w) \/ invoke(w) \/ CleanUp(w) \/ osThreadExit(w)
ThreadNext ==
    \/ \E w \in Worker : Thread_new(w) \/ join(w) \/ detach(w) \/ WorkerStep(w)
    \/ CreatorStep \/ OtherStep

\* A fair scheduler: a thread that is ready again and again, between the times
\* the kernel is locked, runs; the rest of the program leaves its sections.
OtherGoesOn ==
    /\ osKernelLock(Other) \/ LockCounts(Other) \/ unlock(Other) \/ osKernelRestoreLock(Other)
    /\ UNCHANGED threadvars
OtherLeaves == depth[Other] = 1 /\ unlock(Other) /\ UNCHANGED threadvars
OtherUnlocks == AppUnlocks(Other) /\ UNCHANGED threadvars
ThreadFairness ==
    /\ SF_allvars(CreatorStep)
    /\ \A w \in Worker : SF_allvars(WorkerStep(w))
    /\ WF_allvars(OtherGoesOn) /\ SF_allvars(OtherLeaves) /\ SF_allvars(OtherUnlocks)
ThreadSpec == ThreadInit /\ [][ThreadNext]_allvars /\ ThreadFairness

-----------------------------------------------------------------------------
(* Properties.                                                              *)

\* A deleted Context is used, by join, detach or the thread itself, only once
\* the constructor has: thread.cc:159 reads detached() after the kernel lock was
\* released, when a detached thread may have deleted the Context (:138), and
\* may so keep a pointer to it.
MisusedOnlyAfterConstructor == misused # {} => "Thread" \in misused

\* As long as no deleted Context was used: when a thread has ended and its object
\* was joined or detached, the Context is deleted, whichever of the two came
\* last, and the RTOS keeps nothing of the thread, except on RTX for a thread
\* detached after it had completed: thread.cc:193-197 return before osThreadDetach.
ResourcesFreed ==
    \A w \in Worker :
        misused = {} /\ entry[w] = "done" /\ ~native[w] /\ op.w # w =>
            /\ Deleted(w)
            /\ rtos[w] = "gone" \/ w \in late

\* join() returns, on both RTOSes, as long as no deleted Context was used.
JoinReturns == (op.name = "join" /\ misused = {}) ~> (op = NoOp)
=============================================================================
