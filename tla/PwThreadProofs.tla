--------------------------- MODULE PwThreadProofs --------------------------
(***************************************************************************)
(* Proofs about KernelLock and about PwThread, its client, for every set   *)
(* of threads and every depth.                                             *)
(***************************************************************************)
EXTENDS PwThread, TLAPS

\* Typing is preserved by every step.
LEMMA TypeStep == TypeOK /\ [Next]_vars => TypeOK'
<1> SUFFICES ASSUME TypeOK, [Next]_vars PROVE TypeOK'
  OBVIOUS
<1> USE KernelLockAssumption DEF TypeOK, Move, Enter
<1>1. ASSUME NEW t \in Thread, lock(t) PROVE TypeOK'
  BY <1>1 DEF lock
<1>2. ASSUME NEW t \in Thread, osKernelLock(t) PROVE TypeOK'
  BY <1>2 DEF osKernelLock, SavePrevious
<1>3. ASSUME NEW t \in Thread, LockCounts(t) PROVE TypeOK'
  BY <1>3 DEF LockCounts
<1>4. ASSUME NEW t \in Thread, unlock(t) PROVE TypeOK'
  BY <1>4 DEF unlock
<1>5. ASSUME NEW t \in Thread, osKernelRestoreLock(t) PROVE TypeOK'
  BY <1>5 DEF osKernelRestoreLock
<1>6. ASSUME NEW t \in Thread, AppLocks(t) PROVE TypeOK'
  BY <1>6 DEF AppLocks
<1>7. ASSUME NEW t \in Thread, AppUnlocks(t) PROVE TypeOK'
  BY <1>7 DEF AppUnlocks
<1>8. CASE UNCHANGED vars
  BY <1>8 DEF vars
<1> QED
  BY <1>1, <1>2, <1>3, <1>4, <1>5, <1>6, <1>7, <1>8 DEF Next

\* The running thread's knowledge is preserved by every step: at most one thread
\* is past its osKernelLock, and the others can only wait.
LEMMA LockStep == LockInv /\ [Next]_vars => LockInv'
<1> SUFFICES ASSUME LockInv, [Next]_vars PROVE LockInv'
  OBVIOUS
<1>t. TypeOK'
  BY TypeStep DEF LockInv
<1> USE <1>t, KernelLockAssumption
<1> USE DEF LockInv, TypeOK, Sections, Saved, Counted, Runner, NoLeak, Runs, Move, Enter
<1>1. ASSUME NEW t \in Thread, lock(t) PROVE LockInv'
  BY <1>1 DEF lock
<1>2. ASSUME NEW t \in Thread, osKernelLock(t) PROVE LockInv'
  BY <1>2 DEF osKernelLock, SavePrevious
<1>3. ASSUME NEW t \in Thread, LockCounts(t) PROVE LockInv'
  BY <1>3 DEF LockCounts
<1>4. ASSUME NEW t \in Thread, unlock(t) PROVE LockInv'
  BY <1>4 DEF unlock, Outermost
<1>5. ASSUME NEW t \in Thread, osKernelRestoreLock(t) PROVE LockInv'
  BY <1>5 DEF osKernelRestoreLock
<1>6. ASSUME NEW t \in Thread, AppLocks(t) PROVE LockInv'
  BY <1>6 DEF AppLocks
<1>7. ASSUME NEW t \in Thread, AppUnlocks(t) PROVE LockInv'
  BY <1>7 DEF AppUnlocks
<1>8. CASE UNCHANGED vars
  BY <1>8 DEF vars
<1> QED
  BY <1>1, <1>2, <1>3, <1>4, <1>5, <1>6, <1>7, <1>8 DEF Next

\* The initial state satisfies the invariant.
LEMMA LockInit == Init => LockInv
<1> SUFFICES ASSUME Init PROVE LockInv
  OBVIOUS
<1> USE KernelLockAssumption DEF Init
<1>1. depth \in [Thread -> Nat] /\ pc \in [Thread -> {"ready", "lock", "count", "restore"}]
  OBVIOUS
<1>2. counter_ \in Int
  OBVIOUS
<1>3. TypeOK
  BY <1>1, <1>2 DEF TypeOK
<1> QED
  BY <1>3 DEF LockInv, Sections, Saved, Counted, Runner, NoLeak

\* The pre-emption argument in lock()'s comment, for any number of threads.
THEOREM Exclusive == Spec => []SectionsExclude
<1>1. LockInv => SectionsExclude
  BY DEF LockInv, Sections, SectionsExclude
<1> QED
  BY <1>1, LockInit, LockStep, PTL DEF Spec

\* The kernel's lock state before a section is its state after it.
THEOREM Restores == Spec => []LockStateRestored
<1>1. LockInv => LockStateRestored
  BY DEF LockInv, Runner, NoLeak, LockStateRestored
<1> QED
  BY <1>1, LockInit, LockStep, PTL DEF Spec
-----------------------------------------------------------------------------
(* Threads.  The invariant says who still holds a Context; it is stated for *)
(* as long as the constructor has not used a deleted one.                   *)

\* The life of a worker and of its Context go together.
Life ==
    \A w \in Worker :
        /\ entry[w] = "none" <=> context[w].state = "none"
        /\ entry[w] = "none" => ~native[w]
        /\ entry[w] \in {"invoke", "section"} =>
              context[w].state = "alive" /\ ~context[w].completed /\ ~context[w].notified
        /\ entry[w] \in {"leave", "done"} /\ context[w].state = "alive" =>
              context[w].completed /\ ~context[w].detached

\* Where the operation under way stands.
Operation ==
    /\ op.name \in Creating => ~native[op.w]
    /\ op.name \in Creating /\ op.at = "section" => entry[op.w] = "none"
    /\ op.name \in Creating /\ op.at = "leave" => entry[op.w] # "none"
    /\ op.name \in {"join", "detach"} /\ op.at # "leave" => native[op.w]
    /\ op.name \in {"join", "detach"} /\ op.at = "leave" => ~native[op.w]
    /\ op.name = "join" /\ op.at = "section" => entry[op.w] \in {"leave", "done"}
    /\ op.at = "wait" => op.name = "join"

\* A Context that is alive has an owner: the Thread object, the constructor on its
\* way to make it so, or else the thread itself.
Held(w) == native[w] \/ (op.w = w /\ op.name = "new_joinable" /\ op.at = "leave")
Owner ==
    \A w \in Worker :
        /\ Held(w) => context[w].state = "alive" /\ ~context[w].detached
        /\ context[w].state = "alive" /\ ~Held(w) => context[w].detached

\* What the RTOS keeps of a thread.
Kept ==
    \A w \in Worker :
        /\ entry[w] \in {"invoke", "section", "leave"} => rtos[w] \in {"joinable", "detached"}
        /\ entry[w] = "done" => rtos[w] \in {"terminated", "gone"}
        /\ entry[w] = "none" => rtos[w] = "none"
        /\ rtos[w] \in {"joinable", "terminated"} =>
              /\ rtx
              /\ w \in late \/ (Held(w) /\ ~(op.name = "join" /\ op.w = w /\ op.at = "section"))

ContextInv == misused = {} /\ Life /\ Operation /\ Owner /\ Kept
ThreadInv == ThreadTypeOK /\ LockInv /\ ("Thread" \in misused \/ ContextInv)

\* Its clients use the kernel lock by its own steps alone.
LEMMA LockClient == [ThreadNext]_allvars => [Next]_vars
BY PwThreadAssumption
   DEF ThreadNext, CreatorStep, WorkerStep, OtherStep, KernelLockStep, Inside, Outside,
       Thread_new, Context_new, Thread_created, join, Joined, JoinedDelete, detach, Detached,
       Returned, invoke, CleanUp, osThreadExit, Next, allvars

\* Setting flags of a Context keeps it typed.
LEMMA ContextTyped ==
  ASSUME NEW c \in [Worker -> Contexts], NEW w \in Worker, NEW b \in BOOLEAN
  PROVE  /\ [c EXCEPT ![w].completed = b] \in [Worker -> Contexts]
         /\ [c EXCEPT ![w].notified = b] \in [Worker -> Contexts]
         /\ [c EXCEPT ![w].detached = b] \in [Worker -> Contexts]
         /\ [c EXCEPT ![w].state = "deleted"] \in [Worker -> Contexts]
BY DEF Contexts
\* So does set_completed.
LEMMA CompletedTyped ==
  ASSUME NEW c \in [Worker -> Contexts], NEW w \in Worker, NEW b \in BOOLEAN
  PROVE  [c EXCEPT ![w].completed = TRUE, ![w].notified = b] \in [Worker -> Contexts]
<1> DEFINE d == [c EXCEPT ![w].completed = TRUE]
<1>1. d \in [Worker -> Contexts]
  BY ContextTyped
<1>2. [d EXCEPT ![w].notified = b] \in [Worker -> Contexts]
  BY <1>1, ContextTyped
<1> QED
  BY <1>2

\* Typing is preserved by every step.
LEMMA ThreadTypeStep == ThreadTypeOK /\ [ThreadNext]_allvars => ThreadTypeOK'
<1> SUFFICES ASSUME ThreadTypeOK, [ThreadNext]_allvars PROVE ThreadTypeOK'
  OBVIOUS
<1>t. TypeOK'
  BY LockClient, TypeStep DEF ThreadTypeOK
<1> USE <1>t, PwThreadAssumption, KernelLockAssumption
    DEF ThreadTypeOK, Inside, Outside, threadvars, Creating
<1>1. ASSUME NEW w \in Worker, Thread_new(w) PROVE ThreadTypeOK'
  BY <1>1 DEF Thread_new, Ops
<1>2. ASSUME NEW w \in Worker, join(w) PROVE ThreadTypeOK'
  BY <1>2 DEF join, Uses, Ops
<1>3. ASSUME NEW w \in Worker, detach(w) PROVE ThreadTypeOK'
  BY <1>3 DEF detach, Uses, Ops
<1>4. ASSUME NEW t \in Thread, KernelLockStep(t) PROVE ThreadTypeOK'
  BY <1>4 DEF KernelLockStep
<1>5. ASSUME NEW w \in Worker, invoke(w) PROVE ThreadTypeOK'
  BY <1>5 DEF invoke, Uses
<1>6. ASSUME NEW w \in Worker, CleanUp(w) PROVE ThreadTypeOK'
  <2>1. context' \in [Worker -> Contexts]
    <3>1. /\ [context EXCEPT ![w].state = "deleted"] \in [Worker -> Contexts]
          /\ [context EXCEPT ![w].completed = TRUE, ![w].notified = ~rtx] \in [Worker -> Contexts]
      BY ContextTyped, CompletedTyped
    <3> QED
      BY <1>6, <3>1 DEF CleanUp, Delete, set_completed
  <2> QED
    BY <1>6, <2>1 DEF CleanUp, Uses
<1>7. ASSUME NEW w \in Worker, osThreadExit(w) PROVE ThreadTypeOK'
  BY <1>7 DEF osThreadExit
<1>8. CASE Context_new
  <2>1. op \in Ops /\ op' \in Ops
    BY <1>8 DEF Context_new, GoOn, NoOp, Ops
  <2>2. context' \in [Worker -> Contexts]
    BY <1>8 DEF Context_new, Contexts
  <2> QED
    BY <1>8, <2>1, <2>2 DEF Context_new
<1>9. CASE Thread_created
  BY <1>9 DEF Thread_created, Uses, MayRead, Finish
<1>10. CASE Joined
  <2>1. op \in Ops /\ op' \in Ops
    BY <1>10 DEF Joined, GoOn, NoOp, Ops
  <2>2. context' \in [Worker -> Contexts]
    <3>1. op.w \in Worker
      BY <2>1 DEF Ops
    <3>2. [context EXCEPT ![op.w].notified = FALSE] \in [Worker -> Contexts]
      BY <3>1, ContextTyped
    <3> QED
      BY <1>10, <3>2 DEF Joined
  <2> QED
    BY <1>10, <2>1, <2>2 DEF Joined
<1>11. CASE JoinedDelete
  <2>1. op \in Ops /\ op' \in Ops
    BY <1>11 DEF JoinedDelete, GoOn, NoOp, Ops
  <2>2. context' \in [Worker -> Contexts]
    BY <1>11, <2>1, ContextTyped DEF JoinedDelete, Delete, Ops
  <2> QED
    BY <1>11, <2>1, <2>2 DEF JoinedDelete, ClearNative, Uses
<1>12. CASE Detached
  <2>1. op \in Ops /\ op' \in Ops
    BY <1>12 DEF Detached, GoOn, NoOp, Ops
  <2>2. context' \in [Worker -> Contexts]
    <3>1. op.w \in Worker
      BY <2>1 DEF Ops
    <3>2. /\ [context EXCEPT ![op.w].state = "deleted"] \in [Worker -> Contexts]
          /\ [context EXCEPT ![op.w].detached = TRUE] \in [Worker -> Contexts]
      BY <3>1, ContextTyped
    <3> QED
      BY <1>12, <3>2 DEF Detached, DetachCompleted, DetachRunning, Delete
  <2>3. rtos' \in [Worker -> {"none", "joinable", "detached", "terminated", "gone"}]
        /\ late' \subseteq Worker
    BY <1>12, <2>1 DEF Detached, DetachCompleted, DetachRunning, RtosDetach, Ops
  <2> QED
    BY <1>12, <2>1, <2>2, <2>3 DEF Detached, ClearNative, Uses
<1>13. CASE Returned
  BY <1>13 DEF Returned, Finish
<1>14. CASE OtherStep
  BY <1>14 DEF OtherStep
<1>15. CASE UNCHANGED allvars
  BY <1>15 DEF allvars, vars
<1> QED
  BY <1>1, <1>2, <1>3, <1>4, <1>5, <1>6, <1>7, <1>8, <1>9, <1>10, <1>11, <1>12, <1>13, <1>14, <1>15, PwThreadAssumption
     DEF ThreadNext, CreatorStep, WorkerStep

\* Until the constructor uses a deleted Context, nobody does, and a Context that is
\* alive has one owner.
LEMMA ContextStep ==
    ThreadTypeOK /\ ContextInv /\ [ThreadNext]_allvars => "Thread" \in misused' \/ ContextInv'
<1> SUFFICES ASSUME ThreadTypeOK, ContextInv, [ThreadNext]_allvars
             PROVE  "Thread" \in misused' \/ ContextInv'
  OBVIOUS
<1> USE PwThreadAssumption, KernelLockAssumption
    DEF ThreadTypeOK, Contexts, Ops, ContextInv, Life, Operation, Held, Owner, Kept, Deleted,
        Inside, Outside, Wants, threadvars, NoOp, Creating
<1>1. ASSUME NEW w \in Worker, Thread_new(w) PROVE "Thread" \in misused' \/ ContextInv'
  BY <1>1 DEF Thread_new
<1>2. ASSUME NEW w \in Worker, join(w) PROVE "Thread" \in misused' \/ ContextInv'
  BY <1>2 DEF join, Uses
<1>3. ASSUME NEW w \in Worker, detach(w) PROVE "Thread" \in misused' \/ ContextInv'
  BY <1>3 DEF detach, Uses
<1>4. ASSUME NEW t \in Thread, KernelLockStep(t) PROVE "Thread" \in misused' \/ ContextInv'
  BY <1>4 DEF KernelLockStep
<1>5. ASSUME NEW w \in Worker, invoke(w) PROVE "Thread" \in misused' \/ ContextInv'
  BY <1>5 DEF invoke, Uses
<1>6. ASSUME NEW w \in Worker, CleanUp(w) PROVE "Thread" \in misused' \/ ContextInv'
  <2>1. entry[w] = "section" /\ context[w].state = "alive" /\ misused' = {}
    BY <1>6 DEF CleanUp, Uses
  <2>2. entry' = [entry EXCEPT ![w] = "leave"] /\ UNCHANGED <<rtx, native, rtos, op, late>>
    BY <1>6 DEF CleanUp
  <2>3. ASSUME NEW v \in Worker PROVE Held(v)' <=> Held(v)
    BY <2>2
  <2>4. Operation' /\ Kept'
    BY <2>1, <2>2
  <2>5. ASSUME NEW v \in Worker, v # w PROVE context'[v] = context[v]
    BY <1>6, <2>5 DEF CleanUp, Delete, set_completed
  <2>6. CASE context[w].detached
    <3>1. context'[w].state = "deleted"
      BY <1>6, <2>6 DEF CleanUp, Delete
    <3>2. ~Held(w)
      BY <2>6
    <3>3. Life'
      BY <2>1, <2>2, <2>5, <3>1
    <3>4. Owner'
      <4> HIDE DEF Held
      <4> QED
        BY <2>3, <2>5, <3>1, <3>2
    <3> QED
      BY <2>1, <2>4, <3>3, <3>4
  <2>7. CASE ~context[w].detached
    <3>1. context'[w].state = "alive" /\ context'[w].completed /\ ~context'[w].detached
      BY <1>6, <2>1, <2>7 DEF CleanUp, set_completed
    <3>2. Held(w)
      BY <2>1, <2>7
    <3>3. Life'
      BY <2>1, <2>2, <2>5, <3>1
    <3>4. Owner'
      <4> HIDE DEF Held
      <4> QED
        BY <2>3, <2>5, <3>1, <3>2
    <3> QED
      BY <2>1, <2>4, <3>3, <3>4
  <2> QED
    BY <2>6, <2>7
<1>7. ASSUME NEW w \in Worker, osThreadExit(w) PROVE "Thread" \in misused' \/ ContextInv'
  BY <1>7 DEF osThreadExit
<1>8. CASE Context_new
  <2> DEFINE d == op.name = "new_detached"
  <2>1. op \in Ops /\ op.name \in Creating /\ op.at = "section" /\ op.w \in Worker
    BY <1>8 DEF Context_new
  <2>2. op' \in Ops /\ op'.name = op.name /\ op'.w = op.w /\ op'.at = "leave"
    BY <1>8, <2>1 DEF Context_new, GoOn
  <2>3. context' = [context EXCEPT ![op.w] = [state |-> "alive", detached |-> d, completed |-> FALSE, notified |-> FALSE]]
    BY <1>8 DEF Context_new
  <2>4. /\ rtos' = [rtos EXCEPT ![op.w] = IF rtx /\ ~d THEN "joinable" ELSE "detached"]
        /\ entry' = [entry EXCEPT ![op.w] = "invoke"]
        /\ UNCHANGED <<rtx, native, misused, late>>
    BY <1>8 DEF Context_new
  <2>5. Life'
    BY <2>1, <2>3, <2>4
  <2>6. Operation'
    BY <2>1, <2>2, <2>4
  <2>7. Owner'
    <3>1. ASSUME NEW w \in Worker, w # op.w
          PROVE  context'[w] = context[w] /\ (Held(w)' <=> Held(w))
      BY <3>1, <2>1, <2>2, <2>3, <2>4
    <3>2. ASSUME NEW w \in Worker, w = op.w
          PROVE  /\ Held(w)' <=> ~d
                 /\ context'[w].state = "alive" /\ (context'[w].detached <=> d)
      <4>1. context'[w].state = "alive" /\ context'[w].detached = d
        BY <3>2, <2>3
      <4>2. ~native'[w] /\ op'.w = w /\ op'.at = "leave" /\ op'.name = op.name
        BY <3>2, <2>1, <2>2, <2>4
      <4>3. Held(w)' <=> op.name = "new_joinable"
        BY <4>2
      <4> QED
        BY <2>1, <4>1, <4>3
    <3>3. ASSUME NEW w \in Worker
          PROVE  /\ Held(w)' => context'[w].state = "alive" /\ ~context'[w].detached
                 /\ context'[w].state = "alive" /\ ~Held(w)' => context'[w].detached
      <4> HIDE DEF Held, d
      <4> QED
        BY <3>1, <3>2
    <3> QED
      BY <3>3
  <2>8. Kept'
    BY <2>1, <2>2, <2>4
  <2> QED
    BY <2>4, <2>5, <2>6, <2>7, <2>8
<1>9. CASE Thread_created
  <2>1. op \in Ops /\ op.name \in Creating /\ op.at = "leave" /\ op.w \in Worker
    BY <1>9 DEF Thread_created
  <2>2. CASE Deleted(op.w)
    BY <1>9, <2>2 DEF Thread_created, Uses
  <2>3. CASE ~Deleted(op.w)
    <3>1. misused' = {}
      BY <1>9, <2>3 DEF Thread_created, Uses
    <3>2. native' = [native EXCEPT ![op.w] = ~context[op.w].detached]
      BY <1>9, <2>3, <2>1 DEF Thread_created, MayRead
    <3>3. op' = NoOp /\ UNCHANGED <<rtx, context, rtos, entry, late>>
      BY <1>9 DEF Thread_created, Finish
    <3>4. context[op.w].state = "alive" /\ (context[op.w].detached = (op.name = "new_detached"))
      BY <2>1, <2>3
    <3>5. Life' /\ Operation' /\ Kept'
      BY <2>1, <3>2, <3>3, <3>4
    <3>6. Owner'
      <4>1. ASSUME NEW w \in Worker, w # op.w
            PROVE  context'[w] = context[w] /\ (Held(w)' <=> Held(w))
        BY <4>1, <2>1, <3>2, <3>3
      <4>2. ASSUME NEW w \in Worker, w = op.w
            PROVE  context'[w] = context[w] /\ (Held(w)' <=> ~context[w].detached)
        <5>1. op'.w # w
          BY <4>2, <3>3
        <5>2. Held(w)' <=> native'[w]
          BY <5>1
        <5>3. native'[w] = ~context[w].detached
          BY <4>2, <3>2
        <5> QED
          BY <3>3, <5>2, <5>3
      <4>3. ASSUME NEW w \in Worker
            PROVE  /\ Held(w)' => context'[w].state = "alive" /\ ~context'[w].detached
                   /\ context'[w].state = "alive" /\ ~Held(w)' => context'[w].detached
        <5> HIDE DEF Held
        <5> QED
          BY <3>4, <4>1, <4>2
      <4> QED
        BY <4>3
    <3> QED
      BY <3>1, <3>5, <3>6
  <2> QED
    BY <2>2, <2>3
<1>10. CASE Joined
  <2>1. op \in Ops /\ op.name = "join" /\ op.at = "wait" /\ op.w \in Worker
    BY <1>10 DEF Joined
  <2>2. op' \in Ops /\ op'.name = "join" /\ op'.w = op.w /\ op'.at = "section"
    BY <1>10, <2>1 DEF Joined, GoOn
  <2>3. UNCHANGED <<rtx, native, entry, misused, late>>
    BY <1>10 DEF Joined
  <2>4. CASE rtx /\ rtos[op.w] = "terminated" /\ rtos' = [rtos EXCEPT ![op.w] = "gone"]
             /\ UNCHANGED context
    BY <2>1, <2>2, <2>3, <2>4
  <2>5. CASE ~rtx /\ context[op.w].notified /\ UNCHANGED rtos
             /\ context' = [context EXCEPT ![op.w].notified = FALSE]
    BY <2>1, <2>2, <2>3, <2>5
  <2> QED
    BY <1>10, <2>4, <2>5 DEF Joined
<1>11. CASE JoinedDelete
  BY <1>11 DEF JoinedDelete, Uses, Delete, ClearNative, GoOn
<1>12. CASE Detached
  BY <1>12 DEF Detached, Uses, DetachCompleted, DetachRunning, completed, RtosDetach, Delete, ClearNative, GoOn
<1>13. CASE Returned
  BY <1>13 DEF Returned, Finish
<1>14. CASE OtherStep
  BY <1>14 DEF OtherStep
<1>15. CASE UNCHANGED allvars
  BY <1>15 DEF allvars, vars
<1> QED
  BY <1>1, <1>2, <1>3, <1>4, <1>5, <1>6, <1>7, <1>8, <1>9, <1>10, <1>11, <1>12, <1>13, <1>14, <1>15, PwThreadAssumption
     DEF ThreadNext, CreatorStep, WorkerStep

\* Initially there is no thread, and nobody is in a section.
LEMMA ThreadInitial == ThreadInit => ThreadInv
<1> SUFFICES ASSUME ThreadInit PROVE ThreadInv
  OBVIOUS
<1>1. LockInv
  BY LockInit DEF ThreadInit
<1>2. ThreadTypeOK
  BY <1>1 DEF LockInv, ThreadInit, ThreadTypeOK, NoContext, Contexts
<1>3. ContextInv
  BY PwThreadAssumption DEF ThreadInit, ContextInv, Life, Operation, Owner, Kept, Held,
                            NoContext, NoOp, Creating
<1> QED
  BY <1>1, <1>2, <1>3 DEF ThreadInv

\* misused only grows, so that once the constructor has used a deleted Context
\* nothing more is claimed.
LEMMA ThreadStep == ThreadInv /\ [ThreadNext]_allvars => ThreadInv'
<1> SUFFICES ASSUME ThreadInv, [ThreadNext]_allvars PROVE ThreadInv'
  OBVIOUS
<1>1. LockInv'
  BY LockClient, LockStep DEF ThreadInv
<1>2. ThreadTypeOK'
  BY ThreadTypeStep DEF ThreadInv
<1>3. "Thread" \in misused => "Thread" \in misused'
  BY DEF ThreadNext, CreatorStep, WorkerStep, OtherStep, KernelLockStep, Thread_new,
         Context_new, Thread_created, join, Joined, JoinedDelete, detach, Detached, Returned,
         invoke, CleanUp, osThreadExit, Uses, threadvars, allvars
<1> QED
  BY <1>1, <1>2, <1>3, ContextStep DEF ThreadInv

\* The inductive invariant holds: until thread.cc:159 reads a deleted Context,
\* every Context that is alive belongs to the Thread object or to the thread.
THEOREM ContextsOwned == ThreadSpec => []ThreadInv
BY ThreadInitial, ThreadStep, PTL DEF ThreadSpec

\* join, detach and the thread itself never use a deleted Context, unless the
\* constructor has, whatever the number of threads and however they are
\* pre-empted (thread.cc:109-217).
THEOREM Misuse == ThreadSpec => []MisusedOnlyAfterConstructor
<1>1. ThreadInv => MisusedOnlyAfterConstructor
  BY DEF ThreadInv, ContextInv, MisusedOnlyAfterConstructor
<1> QED
  BY <1>1, ContextsOwned, PTL

\* A thread that has ended and was joined or detached leaves nothing behind, on
\* both RTOSes, but for the thread that RTX keeps when it was detached too late
\* (thread.cc:193).
THEOREM Freed == ThreadSpec => []ResourcesFreed
<1>1. ThreadInv => ResourcesFreed
  BY DEF ThreadInv, ThreadTypeOK, ContextInv, Life, Owner, Kept, Held, Deleted, ResourcesFreed,
         Contexts
<1> QED
  BY <1>1, ContextsOwned, PTL

\* The kernel lock keeps its promises to these clients.
THEOREM ThreadsExcluded == ThreadSpec => [](SectionsExclude /\ LockStateRestored)
<1>1. ThreadInv => SectionsExclude /\ LockStateRestored
  BY DEF ThreadInv, LockInv, Sections, SectionsExclude, Runner, NoLeak, LockStateRestored
<1> QED
  BY <1>1, ContextsOwned, PTL
=============================================================================
