--------------------------- MODULE PwSyncIoProofs ---------------------------
(***************************************************************************)
(* Proofs about the pw_sync and pw_sys_io backends.  PwMutex, for every set*)
(* of threads: who takes an owned mutex from whom, and that nobody else is *)
(* inside without owning it.  ThreadNotification, for every set of         *)
(* releasing threads.  SysIo, for every set of writers and readers and all *)
(* sizes: RingBuffer's puts and gets are those of a queue, by induction on *)
(* the spans of a received block.                                          *)
(***************************************************************************)
EXTENDS PwMutex, ThreadNotification, SysIo,
        WellFoundedInduction, FiniteSetTheorems, SequenceTheorems, TLAPS

\* Taking a free mutex, or taking it over as a woken waiter, keeps the invariant:
\* the thread it is taken from becomes one of those that were robbed.
LEMMA TakingStep ==
  ASSUME MutexInv, NEW t \in Thread, TakeOwnership(t),
         owner = NoThread \/ pc[t] = "woken", pc[t] # "inside",
         ticks' \in [Thread -> 0..MaxTicks], ~aborted, aborted' = aborted
  PROVE  MutexInv'
<1> USE PwMutexAssumption DEF MutexInv, MutexTypeOK, TakeOwnership, Move, Places
<1>a. owner # t /\ t \notin robbed
  BY DEF OwnerInside, RobbedInside
<1>1. MutexTypeOK'
  OBVIOUS
<1>2. OwnershipAccounted'
  <2>1. ASSUME NEW u \in Thread, pc'[u] = "inside" PROVE owner' = u <=> u \notin robbed'
    BY <1>a, <2>1 DEF OwnershipAccounted
  <2> QED
    BY <2>1 DEF OwnershipAccounted
<1>3. WokenRelocked'
  BY DEF WokenRelocked
<1>4. OwnerInside' /\ RobbedInside'
  BY <1>a DEF OwnerInside, RobbedInside
<1> QED
  BY <1>1, <1>2, <1>3, <1>4

\* MutexInv is inductive: the flag a thread waits with can only be the one its own
\* unlock() left, and only with it is an owned mutex taken.
LEMMA MutexStep == MutexInv /\ [MutexNext]_mutexvars => MutexInv'
<1> SUFFICES ASSUME MutexInv, [MutexNext]_mutexvars PROVE MutexInv'
  OBVIOUS
<1> USE PwMutexAssumption
<1>0. CASE UNCHANGED mutexvars
  BY <1>0 DEF mutexvars, MutexInv, MutexTypeOK, OwnershipAccounted, WokenRelocked, OwnerInside,
              RobbedInside
<1>a. CASE MutexNext
  <2>a. ~aborted /\ ticks \in [Thread -> 0..MaxTicks] /\ pc \in [Thread -> Places]
    BY <1>a DEF MutexNext, MutexInv, MutexTypeOK
  <2> USE <2>a
  <2> DEFINE Parts == MutexTypeOK /\ OwnershipAccounted /\ WokenRelocked /\ OwnerInside
                      /\ RobbedInside
  <2>p. Parts /\ (Parts' => MutexInv')
    BY DEF MutexInv
  <2>1. ASSUME NEW t \in Thread, try_lock(t) PROVE MutexInv'
    BY <2>1, TakingStep DEF try_lock, Free
  <2>2. ASSUME NEW t \in Thread, try_lock_for(t) PROVE MutexInv'
    BY <2>2, <2>p DEF try_lock_for, Move, MutexTypeOK, Places, OwnershipAccounted, WokenRelocked,
                      OwnerInside, RobbedInside
  <2>3. ASSUME NEW t \in Thread, lock(t) PROVE MutexInv'
    <3>1. CASE owner = NoThread
      BY <2>3, <3>1, TakingStep DEF lock
    <3>2. CASE owner # NoThread
      <4>1. /\ pc' = [pc EXCEPT ![t] = "waiting"] /\ pc[t] = "outside"
            /\ relocked' = IF flag[t] THEN relocked \cup {t} ELSE relocked
            /\ UNCHANGED <<owner, flag, ticks, aborted, robbed>>
        BY <2>3, <3>2 DEF lock, Move
      <4> QED
        BY <4>1, <2>p DEF MutexTypeOK, Places, OwnershipAccounted, WokenRelocked,
                          OwnerInside, RobbedInside
    <3> QED
      BY <3>1, <3>2
  <2>4. ASSUME NEW t \in Thread, repeat_with_delay(t) PROVE MutexInv'
    <3>1. ticks' \in [Thread -> 0..MaxTicks] /\ pc[t] = "trying" /\ aborted' = aborted
      BY <2>4 DEF repeat_with_delay, DelayOne
    <3>2. CASE owner = NoThread /\ TakeOwnership(t)
      BY <3>1, <3>2, TakingStep
    <3>3. CASE UNCHANGED <<owner, flag, relocked, robbed>>
               /\ (pc' = pc \/ pc' = [pc EXCEPT ![t] = "outside"])
      BY <3>1, <3>3, <2>p DEF MutexTypeOK, Places, OwnershipAccounted, WokenRelocked,
                              OwnerInside, RobbedInside
    <3> QED
      BY <2>4, <3>2, <3>3 DEF repeat_with_delay, Move
  <2>5. ASSUME NEW t \in Thread, FlagsWait(t) PROVE MutexInv'
    BY <2>5, <2>p DEF FlagsWait, Move, MutexTypeOK, Places, OwnershipAccounted, WokenRelocked,
                      OwnerInside, RobbedInside
  <2>6. ASSUME NEW t \in Thread, LockAfterWait(t) PROVE MutexInv'
    BY <2>6, TakingStep DEF LockAfterWait
  <2>7. ASSUME NEW t \in Thread, WaitTimesOut(t) PROVE MutexInv'
    BY <2>7, TakingStep DEF WaitTimesOut, RecheckOwner
  <2>8. ASSUME NEW t \in Thread, unlock(t) PROVE MutexInv'
    <3>1. CASE owner = t
      <4>1. /\ pc' = [pc EXCEPT ![t] = "waking"] /\ owner' = NoThread /\ pc[t] = "inside"
            /\ UNCHANGED <<flag, ticks, aborted, relocked, robbed>>
        BY <2>8, <3>1 DEF unlock, Checked, Move
      <4>2. t \notin robbed
        BY <2>p, <3>1 DEF RobbedInside
      <4> QED
        BY <4>1, <4>2, <3>1, <2>p DEF MutexTypeOK, Places, OwnershipAccounted, WokenRelocked,
                                      OwnerInside, RobbedInside
    <3>2. CASE owner # t
      <4>1. aborted' = TRUE /\ pc[t] = "inside"
            /\ UNCHANGED <<owner, flag, pc, ticks, relocked, robbed>>
        BY <2>8, <3>2 DEF unlock, Checked
      <4>2. t \in robbed
        BY <4>1, <3>2, <2>p DEF OwnershipAccounted
      <4> QED
        BY <4>1, <4>2, <2>p DEF MutexTypeOK, OwnershipAccounted, WokenRelocked, OwnerInside,
                                RobbedInside
    <3> QED
      BY <3>1, <3>2
  <2>9. ASSUME NEW t \in Thread, WakeBlocked(t) PROVE MutexInv'
    BY <2>9, <2>p DEF WakeBlocked, Move, MutexTypeOK, Places, OwnershipAccounted, WokenRelocked,
                      OwnerInside, RobbedInside
  <2> QED
    BY <1>a, <2>1, <2>2, <2>3, <2>4, <2>5, <2>6, <2>7, <2>8, <2>9 DEF MutexNext, Step
<1> QED
  BY <1>0, <1>a

\* The initial state satisfies the invariant.
LEMMA MutexStarts == MutexInit => MutexInv
<1> SUFFICES ASSUME MutexInit PROVE MutexInv
  OBVIOUS
<1> USE PwMutexAssumption DEF MutexInit
<1>1. ticks \in [Thread -> 0..MaxTicks]
  OBVIOUS
<1>2. flag \in [Thread -> BOOLEAN] /\ pc \in [Thread -> Places]
  BY DEF Places
<1>3. MutexTypeOK
  BY <1>1, <1>2 DEF MutexTypeOK
<1> QED
  BY <1>3 DEF MutexInv, OwnershipAccounted, WokenRelocked, OwnerInside, RobbedInside

\* For any set of threads and any mix of their calls, a thread inside owns the mutex
\* exactly unless it was taken over from it, and the PW_CHECK of unlock()
\* (internal_mutex.cc:143) fails only in such a thread.
THEOREM Excludes == MutexSpec => []OwnershipAccounted
<1>1. MutexInv => OwnershipAccounted
  BY DEF MutexInv
<1> QED
  BY <1>1, MutexStarts, MutexStep, PTL DEF MutexSpec

\* Whatever is called in whatever order, an owned mutex changes hands only to a thread
\* that came to wait in lock() with the flag of its own unlock() up
\* (internal_mutex.cc:122): try_lock, timed locks, timed-out waits and first locks
\* take it from nobody.
THEOREM TakenOver == MutexSpec => TakenOverOnlyByRelocker
<1> DEFINE A == \A t, u \in Thread : owner = u /\ owner' = t /\ t # u
                   => t \in relocked /\ pc[t] = "woken"
<1>1. MutexInv /\ [MutexNext]_mutexvars => [A]_mutexvars
  <2> SUFFICES ASSUME MutexInv, MutexNext, NEW t \in Thread, NEW u \in Thread,
                      owner = u, owner' = t, t # u
               PROVE  t \in relocked /\ pc[t] = "woken"
    OBVIOUS
  <2>a. owner # NoThread /\ owner' # NoThread /\ owner' # owner
    BY PwMutexAssumption
  <2>1. ASSUME NEW w \in Thread, try_lock(w) \/ lock(w) \/ WaitTimesOut(w) PROVE FALSE
    BY <2>1, <2>a DEF try_lock, lock, WaitTimesOut, Free, RecheckOwner
  <2>2. ASSUME NEW w \in Thread, try_lock_for(w) \/ FlagsWait(w) \/ WakeBlocked(w) PROVE FALSE
    BY <2>2, <2>a DEF try_lock_for, FlagsWait, WakeBlocked
  <2>3. ASSUME NEW w \in Thread, repeat_with_delay(w) \/ unlock(w) PROVE FALSE
    BY <2>3, <2>a DEF repeat_with_delay, unlock
  <2>4. ASSUME NEW w \in Thread, LockAfterWait(w) PROVE w = t /\ pc[t] = "woken"
    BY <2>4 DEF LockAfterWait, TakeOwnership
  <2>5. pc[t] = "woken"
    BY <2>1, <2>2, <2>3, <2>4 DEF MutexNext, Step
  <2> QED
    BY <2>5 DEF MutexInv, WokenRelocked
<1> QED
  BY <1>1, MutexStarts, MutexStep, PTL DEF MutexSpec, TakenOverOnlyByRelocker

-----------------------------------------------------------------------------
(* The thread notification.                                                 *)

\* At most one releasing thread is in its locked section, and none while the
\* acquiring thread is in its own: KernelLock's promise.
Locks(r) == rpc[r] \in {"locked", "notified"}
Excluded ==
    /\ \A r, q \in Releaser : Locks(r) /\ Locks(q) => r = q
    /\ AcquirerLocks => ~ReleaserLocks

\* A notification not yet used is in notified_, and one is owed whenever the
\* acquiring thread has been woken: by its flag, which nothing but a release
\* raises while the thread waits.
Owed ==
    /\ notified_ => owed
    /\ \A r \in Releaser : rpc[r] = "notified" => notified_
    /\ wait_flag /\ apc \in {"wait", "awake"} => notified_ /\ owed
    /\ apc \in {"awake", "unblocked"} => owed

\* The thread is registered from SetBlocked to Awake, and afterwards only if it
\* gave up.
Registered ==
    /\ apc \in {"clear", "wait", "awake"} => blocked_thread_id_
    /\ blocked_thread_id_ => gave_up \/ apc \in {"clear", "wait", "awake"}

\* Up to the end of the locked section nobody but an interrupt notifies.
Quiet == apc \in {"blocked", "clear"} => crossed \/ ~notified_

NotificationInv ==
    NotificationTypeOK /\ Excluded /\ Owed /\ Registered /\ Quiet /\ WakeupsAccounted

-----------------------------------------------------------------------------
\* The initial state: nobody waits, nothing is owed.
LEMMA NotificationInitial == NotificationInit => NotificationInv
BY DEF NotificationInit, NotificationInv, NotificationTypeOK, Locks, Excluded, AcquirerLocks, ReleaserLocks,
       Owed, Registered, Quiet, WakeupsAccounted, LostOnlyToInterrupt, NoLostWakeup,
       AbortedOnlyAfterTimeout, OnlyOneBlocked, SuccessMeansReleased

\* Every step of the acquiring thread, of the releasing ones and of an interrupt
\* keeps the invariant.
LEMMA NotificationStep == NotificationInv /\ [NotificationNext]_notification => NotificationInv'
<1> SUFFICES ASSUME NotificationInv, [NotificationNext]_notification PROVE NotificationInv'
  OBVIOUS
<1> USE DEF NotificationInv, NotificationTypeOK, Locks, Excluded, AcquirerLocks, ReleaserLocks, Owed,
            Registered, Quiet, WakeupsAccounted, LostOnlyToInterrupt, NoLostWakeup,
            AbortedOnlyAfterTimeout, OnlyOneBlocked, SuccessMeansReleased, faults
<1>1. ASSUME NEW t \in BOOLEAN, Begin(t) PROVE NotificationInv'
  BY <1>1 DEF Begin
<1>2. CASE try_acquire
  <2>1. CASE stopped' = TRUE /\ UNCHANGED <<notified_, owed>>
    BY <1>2, <2>1 DEF try_acquire
  <2>2. CASE Use /\ UNCHANGED stopped
    BY <1>2, <2>2 DEF try_acquire, Use
  <2> QED
    BY <1>2, <2>1, <2>2 DEF try_acquire
<1>3. CASE Subscribe
  <2>1. CASE Use /\ apc' = "idle"
    BY <1>3, <2>1 DEF Subscribe, Use
  <2>2. CASE ~notified_ /\ apc' = "blocked" /\ UNCHANGED <<notified_, owed>>
    BY <1>3, <2>2 DEF Subscribe
  <2> QED
    BY <1>3, <2>1, <2>2 DEF Subscribe, AlreadyNotified
<1>4. CASE SetBlocked
  BY <1>4 DEF SetBlocked
<1>5. CASE ClearFlag
  BY <1>5 DEF ClearFlag
<1>6. CASE osThreadFlagsWait
  BY <1>6 DEF osThreadFlagsWait, FlagSeen, LeaveWait
<1>7. CASE TimesOut
  BY <1>7 DEF TimesOut
<1>8. CASE Awake
  BY <1>8 DEF Awake, Unblock
<1>9. CASE Finish
  BY <1>9 DEF Finish, Use
<1>10. ASSUME NEW r \in Releaser, Release(r) PROVE NotificationInv'
  BY <1>10 DEF Release
<1>11. ASSUME NEW r \in Releaser, ReleaseLock(r) PROVE NotificationInv'
  BY <1>11 DEF ReleaseLock
<1>12. ASSUME NEW r \in Releaser, ReleaseNotify(r) PROVE NotificationInv'
  BY <1>12 DEF ReleaseNotify, Notify
<1>13. ASSUME NEW r \in Releaser, ReleaseWake(r) PROVE NotificationInv'
  BY <1>13 DEF ReleaseWake, WakesBlocked
<1>14. CASE InterruptRelease
  BY <1>14 DEF InterruptRelease, Notify, WakesBlocked
<1>15. CASE UNCHANGED notification
  BY <1>15 DEF notification
<1> QED
  BY <1>1, <1>2, <1>3, <1>4, <1>5, <1>6, <1>7, <1>8, <1>9, <1>10, <1>11, <1>12, <1>13, <1>14, <1>15
     DEF NotificationNext, Acquiring, Releasing

\* However releases, interrupts and timeouts fall into an acquire, it neither
\* misses a release nor succeeds without one nor stops the program, but for the
\* lost interrupt and the timed-out acquire (native_thread_notification.cc:85-171).
THEOREM Accounted == NotificationSpec => []WakeupsAccounted
<1>1. NotificationInv => WakeupsAccounted
  BY DEF NotificationInv
<1> QED
  BY <1>1, NotificationInitial, NotificationStep, PTL DEF NotificationSpec

-----------------------------------------------------------------------------
(* SysIo and RingBuffer.                                                    *)

\* Every nonempty set of naturals has a least element, so that a set that holds 0 and
\* the successors of its members is all of Nat.
LEMMA SetInduction ==
  ASSUME NEW S \in SUBSET Nat, 0 \in S, \A n \in S : n + 1 \in S
  PROVE  S = Nat
<1> DEFINE R == OpToRel(<, Nat)
<1>1. IsWellFoundedOn(R, Nat)
  BY NatLessThanWellFounded
<1>2. \A x, y \in Nat : x < y => <<x, y>> \in R
  BY DEF OpToRel
<1> HIDE DEF R
<1> SUFFICES ASSUME Nat \ S # {} PROVE FALSE
  OBVIOUS
<1>3. PICK n \in Nat \ S : \A y \in Nat \ S : ~(<<y, n>> \in R)
  BY <1>1, WFMin
<1>4. n # 0 /\ n - 1 \in Nat /\ n - 1 < n /\ (n - 1) + 1 = n
  BY <1>3
<1>5. n - 1 \in S
  BY <1>2, <1>3, <1>4
<1>6. (n - 1) + 1 \in S
  BY <1>5
<1> QED
  BY <1>3, <1>4, <1>6

\* Sequences joined in either order.
Joined(a, b, c) == (a \o b) \o c = a \o (b \o c)

\* Joining sequences is associative.
LEMMA Joins ==
  ASSUME NEW S, NEW a \in Seq(S), NEW b \in Seq(S), NEW c \in Seq(S)
  PROVE  Joined(a, b, c)
BY ConcatAssociative DEF Joined

-----------------------------------------------------------------------------
(* Ring buffers.                                                            *)

\* The cell x places after cell 0, x less than two rounds.
At(N, x) == IF x < N THEN x ELSE x - N

\* A ring buffer of N cells as its operations leave it.
Ring(b, N, T) == b \in Rings(N, T) /\ (b.full_ => b.head_ = b.tail_)

\* The last N items of a sequence.
Newest(N, s) == SubSeq(s, IF Len(s) > N THEN Len(s) - N + 1 ELSE 1, Len(s))

\* Within two turns of the buffer, the remainder takes off at most one.
LEMMA Wraps == ASSUME NEW N \in Nat \ {0}, NEW x \in 0..2*N-1 PROVE x % N = At(N, x)
<1>1. CASE x < N
  BY <1>1 DEF At
<1>2. CASE x >= N
  BY <1>2 DEF At
<1> QED BY <1>1, <1>2

\* Its items, counted from its tail_ and from its head_.
View(b, N, T) ==
    /\ Size(b) = N /\ size_(b) \in 0..N /\ capacity(b) = N - size_(b)
    /\ b.head_ \in 0..N-1 /\ b.tail_ \in 0..N-1 /\ b.full_ \in BOOLEAN
    /\ b.buffer_ \in [0..N-1 -> T \cup {Stale}]
    /\ b.tail_ = At(N, b.head_ + N - size_(b)) /\ (b.full_ <=> size_(b) = N)
    /\ empty_(b) <=> size_(b) = 0
    /\ Content(b) \in Seq(T \cup {Stale}) /\ Len(Content(b)) = size_(b)
    /\ \A i \in 1..size_(b) : Content(b)[i] = b.buffer_[At(N, b.tail_ + i - 1)]
    /\ \A i \in 1..size_(b) : Content(b)[i] = b.buffer_[At(N, b.head_ + N - size_(b) + i - 1)]

\* A ring is seen the same from both of its ends.
LEMMA RingView ==
  ASSUME NEW T, NEW N \in Nat \ {0}, NEW b, Ring(b, N, T)
  PROVE  View(b, N, T)
<1>1. Size(b) = N
  <2>1. DOMAIN b.buffer_ = 0..N-1
    BY DEF Rings, Ring
  <2>2. Cardinality(0..N-1) = N
    BY FS_Interval
  <2> QED
    BY <2>1, <2>2 DEF Size
<1> DEFINE h == b.head_  t == b.tail_  f == b.full_  n == size_(b)  s == b.buffer_
<1>2. /\ h \in 0..N-1 /\ t \in 0..N-1 /\ f \in BOOLEAN /\ (f => h = t)
      /\ s \in [0..N-1 -> T \cup {Stale}]
  BY DEF Ring, Rings
<1>3. n = IF f THEN N ELSE IF h < t THEN N - (t - h) ELSE h - t
  BY <1>1 DEF size_
<1>4. capacity(b) = N - n
  BY <1>1 DEF capacity
<1>5. empty_(b) <=> h = t /\ ~f
  BY DEF empty_
<1>6. Content(b) = [i \in 1..n |-> s[(t + i - 1) % N]]
  BY <1>1 DEF Content
<1> HIDE DEF h, t, f, n, s
<1>7. n \in 0..N /\ (f <=> n = N) /\ (empty_(b) <=> n = 0)
  BY <1>2, <1>3, <1>5
<1>8. t = At(N, h + N - n)
  BY <1>2, <1>3, <1>7 DEF At
<1>9. ASSUME NEW i \in 1..n
      PROVE  /\ (t + i - 1) % N = At(N, t + i - 1) /\ At(N, t + i - 1) \in 0..N-1
             /\ At(N, t + i - 1) = At(N, h + N - n + i - 1)
  <2>1. t + i - 1 \in 0..2*N-1
    BY <1>2, <1>7
  <2>2. (t + i - 1) % N = At(N, t + i - 1)
    BY <2>1, Wraps
  <2>3. At(N, t + i - 1) \in 0..N-1 /\ At(N, t + i - 1) = At(N, h + N - n + i - 1)
    BY <1>2, <1>7, <1>8 DEF At
  <2> QED
    BY <2>2, <2>3
<1>10. \A i \in 1..n : /\ Content(b)[i] = s[At(N, t + i - 1)] /\ Content(b)[i] \in T \cup {Stale}
                       /\ Content(b)[i] = s[At(N, h + N - n + i - 1)]
  BY <1>2, <1>6, <1>9
<1>11. Content(b) \in Seq(T \cup {Stale}) /\ Len(Content(b)) = n
  <2>1. Content(b) \in [1..n -> T \cup {Stale}]
    BY <1>6, <1>10
  <2> QED
    BY <1>7, <2>1, IsASeq, LenProperties
<1> QED
  BY <1>1, <1>2, <1>4, <1>7, <1>8, <1>10, <1>11 DEF h, t, f, n, s, View

\* The converse: what tail_ and full_ are for n items before head_.
Before(N, s, h, n) == [buffer_ |-> s, head_ |-> h, tail_ |-> At(N, h + N - n), full_ |-> n = N]

\* Cells, a head and a number of items make a ring.
LEMMA RingOf ==
  ASSUME NEW T, NEW N \in Nat \ {0}, NEW n \in 0..N,
         NEW s \in [0..N-1 -> T \cup {Stale}], NEW h \in 0..N-1
  PROVE  Ring(Before(N, s, h, n), N, T) /\ size_(Before(N, s, h, n)) = n
<1> DEFINE r == Before(N, s, h, n)
<1>1. At(N, h + N - n) \in 0..N-1 /\ (n = N => At(N, h + N - n) = h)
  BY DEF At
<1>2. Ring(r, N, T)
  BY <1>1 DEF Ring, Rings, Before
<1> HIDE DEF r
<1>3. View(r, N, T)
  BY <1>2, RingView
<1> DEFINE a == At(N, h + N - n)
<1>4. size_(r) = IF n = N THEN N ELSE IF h < a THEN N - (a - h) ELSE h - a
  BY <1>3 DEF View, size_, r, Before
<1>5. size_(r) = n
  BY <1>4 DEF At
<1> QED
  BY <1>2, <1>5 DEF r

\* k gets take the k oldest items.
Takes(b, N, T, k) ==
    /\ Ring(GetEach(b, k).ring, N, T)
    /\ Content(GetEach(b, k).ring) = SubSeq(Content(b), k + 1, size_(b))
    /\ GetEach(b, k).dest = SubSeq(Content(b), 1, k)
    /\ Len(GetEach(b, k).dest) = k

\* What get(data) of the ring buffer takes, called k times.
LEMMA GetsOldest ==
  ASSUME NEW T, NEW N \in Nat \ {0}, NEW b, Ring(b, N, T), NEW k \in 0..size_(b)
  PROVE  Takes(b, N, T, k)
<1> DEFINE h == b.head_  t == b.tail_  n == size_(b)  s == b.buffer_
           r == GetEach(b, k).ring  c == Content(b)  dest == GetEach(b, k).dest
<1>0. View(b, N, T)
  BY RingView
<1>1. /\ Size(b) = N /\ n \in 0..N /\ k \in 0..n /\ h \in 0..N-1 /\ t \in 0..N-1
      /\ b.full_ \in BOOLEAN /\ s \in [0..N-1 -> T \cup {Stale}]
      /\ t = At(N, h + N - n) /\ (b.full_ <=> n = N)
      /\ c \in Seq(T \cup {Stale}) /\ Len(c) = n
      /\ \A i \in 1..n : c[i] = s[At(N, t + i - 1)]
  BY <1>0 DEF View
<1>2. \A i \in 1..n : c[i] = s[At(N, h + N - n + i - 1)]
  BY <1>0 DEF View
<1>3. r = [b EXCEPT !.tail_ = increment(b, t, k), !.full_ = b.full_ /\ k = 0]
  BY DEF GetEach
<1>4. b = [buffer_ |-> s, head_ |-> h, tail_ |-> t, full_ |-> b.full_]
  BY DEF Ring, Rings
<1>5. dest = [i \in 1..k |-> s[(t + i - 1) % N]]
  BY <1>1 DEF GetEach, Copied
<1>6. increment(b, t, k) = IF t + k >= N THEN t + k - N ELSE t + k
  BY <1>1 DEF increment
<1> HIDE DEF h, t, n, s, c, dest, r
<1>7. increment(b, t, k) = At(N, h + N - (n - k)) /\ n - k \in 0..N /\ k \in 0..N
  BY <1>1, <1>6 DEF At
<1>8. b.full_ /\ k = 0 <=> n - k = N
  BY <1>1, <1>7
<1>9. r = Before(N, s, h, n - k)
  <2>1. (b.full_ /\ k = 0) = (n - k = N)
    BY <1>1, <1>8
  <2> DEFINE f == b.full_  u == increment(b, t, k)  g == f /\ k = 0
  <2> HIDE DEF f, u, g
  <2>2. b = [buffer_ |-> s, head_ |-> h, tail_ |-> t, full_ |-> f] /\ r = [b EXCEPT !.tail_ = u, !.full_ = g]
    BY <1>3, <1>4 DEF f, u, g
  <2>3. r = [buffer_ |-> s, head_ |-> h, tail_ |-> u, full_ |-> g]
    BY <2>2
  <2> QED
    BY <1>7, <2>1, <2>3 DEF f, u, g, Before
<1>10. Ring(r, N, T) /\ size_(r) = n - k
  BY <1>1, <1>7, <1>9, RingOf
<1>11. /\ Content(r) \in Seq(T \cup {Stale}) /\ Len(Content(r)) = n - k
       /\ \A i \in 1..n - k : Content(r)[i] = s[At(N, h + N - (n - k) + i - 1)]
  <2>1. r.head_ = h /\ r.buffer_ = s
    BY <1>9 DEF Before
  <2>2. View(r, N, T)
    BY <1>10, RingView
  <2> QED
    BY <1>10, <2>1, <2>2 DEF View
<1>12. Content(r) = SubSeq(c, k + 1, n)
  <2>1. /\ SubSeq(c, k + 1, n) \in Seq(T \cup {Stale}) /\ Len(SubSeq(c, k + 1, n)) = n - k
        /\ \A i \in 1..n - k : SubSeq(c, k + 1, n)[i] = c[k + i]
    BY <1>1, <1>7
  <2>2. ASSUME NEW i \in 1..n - k PROVE Content(r)[i] = c[k + i]
    <3>1. k + i \in 1..n /\ h + N - (n - k) + i - 1 = h + N - n + (k + i) - 1
      BY <1>1, <1>7
    <3> QED
      BY <1>2, <1>11, <3>1
  <2> QED
    BY <1>7, <1>11, <2>1, <2>2, SeqEqual
<1>13. dest = SubSeq(c, 1, k) /\ Len(dest) = k
  <2>1. /\ SubSeq(c, 1, k) \in Seq(T \cup {Stale}) /\ Len(SubSeq(c, 1, k)) = k
        /\ \A i \in 1..k : SubSeq(c, 1, k)[i] = c[i]
    <3>1. 1 \in 1..Len(c)+1 /\ k \in 0..Len(c)
      BY <1>1, <1>7
    <3> QED
      BY <1>1, <1>7, <3>1, SubSeqProperties
  <2>2. ASSUME NEW i \in 1..k PROVE dest[i] = c[i] /\ c[i] \in T \cup {Stale}
    <3>1. t + i - 1 \in 0..2*N-1 /\ i \in 1..n
      BY <1>1, <1>7
    <3>2. (t + i - 1) % N = At(N, t + i - 1)
      BY <3>1, Wraps
    <3>3. dest[i] = s[(t + i - 1) % N]
      BY <1>5
    <3>4. c[i] = s[At(N, t + i - 1)]
      BY <1>1, <3>1
    <3>5. c[i] \in T \cup {Stale}
      BY <1>1, <3>1
    <3> QED
      BY <3>2, <3>3, <3>4, <3>5, Zenon
  <2>3. dest \in [1..k -> T \cup {Stale}]
    BY <1>5, <2>2
  <2>4. dest \in Seq(T \cup {Stale}) /\ Len(dest) = k
    BY <1>7, <2>3, IsASeq, LenProperties
  <2> QED
    BY <1>7, <2>1, <2>2, <2>4, SeqEqual
<1> QED
  BY <1>10, <1>12, <1>13 DEF r, c, n, dest, Takes

\* Of n items and l more in N cells, how many are left; and which j-th item of two
\* sequences put together it is.
Left(N, n, l) == IF n + l > N THEN N ELSE n + l
Nth(c, src, j) == IF j <= Len(c) THEN c[j] ELSE src[j - Len(c)]

FirstLeft(N, n, l, a) ==
    LET m == Left(N, n, l) IN
    /\ a \in Int /\ n + l \in Int /\ a >= 1 /\ m \in 0..N
    /\ m = IF a <= n + l THEN n + l - a + 1 ELSE 0
    /\ \A i \in 1..m : a + i - 1 = i + (n + l - m) /\ i + (n + l - m) \in 1..n + l /\ i \in 1..n + l - a + 1

\* Where the newest items begin.
LEMMA FirstIsLeft ==
  ASSUME NEW N \in Nat, NEW n \in Nat, NEW l \in Nat, NEW a, a = IF n + l > N THEN n + l - N + 1 ELSE 1
  PROVE  FirstLeft(N, n, l, a)
BY DEF Left, FirstLeft

\* The last N items of two sequences put together, one by one.
Items(S, N, c, src, m) ==
    /\ Newest(N, c \o src) \in Seq(S) /\ Len(Newest(N, c \o src)) = m
    /\ \A i \in 1..m : Newest(N, c \o src)[i] = Nth(c, src, i + (Len(c) + Len(src) - m))

\* The newest items, one by one.
LEMMA NewestItems ==
  ASSUME NEW S, NEW N \in Nat, NEW c \in Seq(S), NEW src \in Seq(S), NEW m, m = Left(N, Len(c), Len(src))
  PROVE  Items(S, N, c, src, m)
<1> DEFINE q == c \o src  n == Len(c)  l == Len(src)  a == IF n + l > N THEN n + l - N + 1 ELSE 1
           z == n + l
<1>1. /\ q \in Seq(S) /\ Len(q) = z /\ n \in Nat /\ l \in Nat
      /\ \A i \in 1..z : q[i] \in S /\ q[i] = Nth(c, src, i)
  BY ConcatProperties DEF Nth
<1>2. Newest(N, q) = SubSeq(q, a, z)
  BY <1>1 DEF Newest
<1> HIDE DEF q, n, l
<1>3. /\ a \in Int /\ z \in Int /\ a >= 1 /\ m \in 0..N
      /\ m = IF a <= z THEN z - a + 1 ELSE 0
      /\ \A i \in 1..m : a + i - 1 = i + (z - m) /\ i + (z - m) \in 1..z /\ i \in 1..z - a + 1
  <2>1. a = (IF n + l > N THEN n + l - N + 1 ELSE 1) /\ n \in Nat /\ l \in Nat /\ m = Left(N, n, l)
    BY <1>1 DEF n, l
  <2> HIDE DEF a
  <2>2. FirstLeft(N, n, l, a)
    BY <2>1, FirstIsLeft
  <2> QED
    BY <2>1, <2>2 DEF FirstLeft
<1> HIDE DEF a, z
<1>4. \A i \in a..z : q[i] \in S
  BY <1>1, <1>3
<1>5. /\ SubSeq(q, a, z) \in Seq(S)
      /\ Len(SubSeq(q, a, z)) = IF a <= z THEN z - a + 1 ELSE 0
      /\ \A i \in 1..z - a + 1 : SubSeq(q, a, z)[i] = q[a + i - 1]
  BY <1>3, <1>4, SubSeqProperties
<1>6. Len(SubSeq(q, a, z)) = m
  BY <1>3, <1>5
<1>7. ASSUME NEW i \in 1..m PROVE SubSeq(q, a, z)[i] = Nth(c, src, i + (z - m))
  <2>1. a + i - 1 = i + (z - m) /\ i + (z - m) \in 1..z /\ i \in 1..z - a + 1
    BY <1>3
  <2>2. SubSeq(q, a, z)[i] = q[i + (z - m)]
    BY <1>5, <2>1
  <2> QED
    BY <1>1, <2>1, <2>2
<1>8. /\ Newest(N, q) \in Seq(S) /\ Len(Newest(N, q)) = m
      /\ \A i \in 1..m : Newest(N, q)[i] = Nth(c, src, i + (z - m))
  BY <1>2, <1>5, <1>6, <1>7
<1> QED
  BY <1>8 DEF q, n, l, z, Items

\* Where the i-th item is, counted from the old head_ h, after l cells from there on
\* were written: m of the n + l items are left.
Cell(N, n, l, h, m, i, j) ==
    /\ j \in 1..n + l
    /\ j <= n => /\ N - n + j - 1 \in 0..N-1 /\ ~(N - n + j - 1 < l)
                 /\ At(N, h + (N - n + j - 1)) = At(N, At(N, h + l) + N - m + i - 1)
                 /\ At(N, h + (N - n + j - 1)) = At(N, h + N - n + j - 1)
    /\ ~(j <= n) => /\ j - n - 1 \in 0..N-1 /\ j - n - 1 < l /\ j - n - 1 + 1 = j - n
                    /\ At(N, h + (j - n - 1)) = At(N, At(N, h + l) + N - m + i - 1)

\* An item is in the same cell counted before and after a put.
LEMMA CellArithmetic ==
  ASSUME NEW N \in Nat \ {0}, NEW n \in 0..N, NEW l \in 0..N, NEW h \in 0..N-1, NEW m \in 0..N,
         m = Left(N, n, l), NEW i \in 1..m, NEW j, j = i + (n + l - m)
  PROVE  Cell(N, n, l, h, m, i, j)
BY DEF At, Left, Cell

\* A span written from head_ on, over the oldest items where it has to.
LEMMA WrittenNewest ==
  ASSUME NEW T, NEW N \in Nat \ {0}, NEW b, Ring(b, N, T), NEW src \in Seq(T), Len(src) <= N,
         NEW s \in [0..N-1 -> T \cup {Stale}],
         \A o \in 0..N-1 : s[At(N, b.head_ + o)] =
                              IF o < Len(src) THEN src[o + 1] ELSE b.buffer_[At(N, b.head_ + o)],
         NEW m, m = Left(N, size_(b), Len(src))
  PROVE  LET r == Before(N, s, At(N, b.head_ + Len(src)), m)
         IN  Ring(r, N, T) /\ Content(r) = Newest(N, Content(b) \o src)
<1> DEFINE h == b.head_  n == size_(b)  l == Len(src)  c == Content(b)  h2 == At(N, h + l)
           r == Before(N, s, h2, m)
<1>0. View(b, N, T)
  BY RingView
<1>1. /\ n \in 0..N /\ h \in 0..N-1 /\ c \in Seq(T \cup {Stale}) /\ Len(c) = n
      /\ l \in Nat /\ l <= N /\ m = Left(N, n, l)
  BY <1>0 DEF View
<1>2. \A i \in 1..n : c[i] = b.buffer_[At(N, h + N - n + i - 1)]
  BY <1>0 DEF View
<1>3. \A o \in 0..N-1 : s[At(N, h + o)] = IF o < l THEN src[o + 1] ELSE b.buffer_[At(N, h + o)]
  OBVIOUS
<1>4. src \in Seq(T \cup {Stale})
  OBVIOUS
<1>5. /\ Newest(N, c \o src) \in Seq(T \cup {Stale}) /\ Len(Newest(N, c \o src)) = m
      /\ \A i \in 1..m : Newest(N, c \o src)[i] = Nth(c, src, i + (n + l - m))
  <2>1. m = Left(N, Len(c), Len(src))
    BY <1>1
  <2>2. Items(T \cup {Stale}, N, c, src, m)
    BY <1>1, <1>4, <2>1, NewestItems
  <2> QED
    BY <1>1, <2>2 DEF Items
<1> HIDE DEF h, n, l, c, h2, r
<1>6. h2 \in 0..N-1 /\ m \in 0..N
  BY <1>1 DEF At, h2, Left
<1>7. Ring(r, N, T) /\ size_(r) = m
  BY <1>6, RingOf DEF r
<1>8. /\ Content(r) \in Seq(T \cup {Stale}) /\ Len(Content(r)) = m
      /\ \A i \in 1..m : Content(r)[i] = s[At(N, h2 + N - m + i - 1)]
  <2>1. r.head_ = h2 /\ r.buffer_ = s
    BY DEF r, Before
  <2>2. View(r, N, T)
    BY <1>7, RingView
  <2> QED
    BY <1>7, <2>1, <2>2 DEF View
<1>9. ASSUME NEW i \in 1..m PROVE Content(r)[i] = Newest(N, c \o src)[i]
  <2> DEFINE j == i + (n + l - m)
  <2>1. Newest(N, c \o src)[i] = IF j <= n THEN c[j] ELSE src[j - n]
    BY <1>1, <1>5 DEF Nth
  <2>2. Content(r)[i] = s[At(N, h2 + N - m + i - 1)]
    BY <1>8
  <2>3. /\ j \in 1..n + l
        /\ j <= n => /\ N - n + j - 1 \in 0..N-1 /\ ~(N - n + j - 1 < l)
                     /\ At(N, h + (N - n + j - 1)) = At(N, h2 + N - m + i - 1)
                     /\ At(N, h + (N - n + j - 1)) = At(N, h + N - n + j - 1)
        /\ ~(j <= n) => /\ j - n - 1 \in 0..N-1 /\ j - n - 1 < l /\ j - n - 1 + 1 = j - n
                        /\ At(N, h + (j - n - 1)) = At(N, h2 + N - m + i - 1)
    <3>1. /\ n \in 0..N /\ l \in 0..N /\ h \in 0..N-1 /\ m \in 0..N /\ m = Left(N, n, l)
          /\ j = i + (n + l - m) /\ h2 = At(N, h + l)
      BY <1>1, <1>6 DEF h2
    <3> HIDE DEF j
    <3>2. Cell(N, n, l, h, m, i, j)
      BY <3>1, CellArithmetic
    <3> QED
      BY <3>1, <3>2 DEF Cell
  <2> HIDE DEF j
  <2>4. CASE j <= n
    <3> DEFINE o == N - n + j - 1
    <3>1. o \in 0..N-1 /\ ~(o < l) /\ j \in 1..n
      BY <1>1, <2>3, <2>4
    <3>2. s[At(N, h + o)] = b.buffer_[At(N, h + o)]
      BY <1>3, <3>1
    <3>3. c[j] = b.buffer_[At(N, h + N - n + j - 1)]
      BY <1>2, <3>1
    <3> QED
      BY <2>1, <2>2, <2>3, <2>4, <3>2, <3>3
  <2>5. CASE ~(j <= n)
    <3> DEFINE o == j - n - 1
    <3>1. s[At(N, h + o)] = src[o + 1]
      BY <1>3, <2>3, <2>5
    <3> QED
      BY <2>1, <2>2, <2>3, <2>5, <3>1
  <2> QED
    BY <2>4, <2>5
<1>10. Content(r) = Newest(N, c \o src)
  BY <1>5, <1>8, <1>9, SeqEqual
<1> QED
  BY <1>7, <1>10 DEF r, c, h2, h, l

\* One item: over the oldest if the buffer is full.
LEMMA PutOneNewest ==
  ASSUME NEW T, NEW N \in Nat \ {0}, NEW b, Ring(b, N, T), NEW src \in Seq(T), Len(src) = 1
  PROVE  Ring(PutOne(b, src[1]), N, T) /\ Content(PutOne(b, src[1])) = Newest(N, Content(b) \o src)
<1> DEFINE h == b.head_  n == size_(b)  s == [b.buffer_ EXCEPT ![h] = src[1]]
           h2 == increment(b, h, 1)  m == Left(N, n, Len(src))
           t2 == IF b.full_ THEN h2 ELSE b.tail_
           f2 == b.full_ \/ h2 = b.tail_
<1>0. View(b, N, T)
  BY RingView
<1>1. /\ n \in 0..N /\ h \in 0..N-1 /\ b.tail_ = At(N, h + N - n) /\ (b.full_ <=> n = N) /\ b.full_ \in BOOLEAN
      /\ b.buffer_ \in [0..N-1 -> T \cup {Stale}] /\ Size(b) = N
  BY <1>0 DEF View
<1>a. src[1] \in T
  OBVIOUS
<1>2. h2 = At(N, h + 1) /\ At(N, h + 0) = h /\ m = IF n = N THEN N ELSE n + 1
  BY <1>1 DEF increment, At, Left
<1>3. PutOne(b, src[1]) = [buffer_ |-> s, head_ |-> h2, tail_ |-> t2, full_ |-> f2]
  BY DEF PutOne
<1>4. s \in [0..N-1 -> T \cup {Stale}]
  BY <1>a, <1>1
<1>5. \A o \in 0..N-1 : s[At(N, h + o)] = IF o < Len(src) THEN src[o + 1] ELSE b.buffer_[At(N, h + o)]
  <2>1. ASSUME NEW o \in 0..N-1 PROVE At(N, h + o) \in 0..N-1 /\ (At(N, h + o) = h <=> o = 0)
    BY <1>1 DEF At
  <2>2. ASSUME NEW o \in 0..N-1 PROVE o < Len(src) <=> o = 0
    OBVIOUS
  <2>3. ASSUME NEW o \in 0..N-1
        PROVE  s[At(N, h + o)] = IF o = 0 THEN src[o + 1] ELSE b.buffer_[At(N, h + o)]
    <3>1. CASE o = 0
      BY <1>1, <1>2, <3>1
    <3>2. CASE o # 0
      <4>1. At(N, h + o) \in 0..N-1 /\ At(N, h + o) # h
        BY <2>1, <3>2
      <4> QED
        BY <1>1, <3>2, <4>1
    <3> QED
      BY <3>1, <3>2
  <2> QED
    BY <2>2, <2>3
<1> HIDE DEF h, n, s, h2, t2, f2, m
<1>6. t2 = At(N, h2 + N - m) /\ (f2 <=> m = N) /\ f2 \in BOOLEAN
  <2>1. CASE b.full_
    BY <1>1, <1>2, <2>1 DEF At, t2, f2
  <2>2. CASE ~b.full_
    <3>1. n < N /\ m = n + 1 /\ t2 = At(N, h + N - n) /\ (f2 <=> h2 = At(N, h + N - n)) /\ f2 \in BOOLEAN
      BY <1>1, <1>2, <2>2 DEF t2, f2
    <3> QED
      BY <1>1, <1>2, <3>1 DEF At
  <2> QED
    BY <2>1, <2>2
<1>7. PutOne(b, src[1]) = Before(N, s, h2, m)
  BY <1>3, <1>6 DEF Before
<1>8. h2 = At(N, b.head_ + Len(src)) /\ m = Left(N, size_(b), Len(src))
  BY <1>2 DEF h, n, m
<1>9. /\ Ring(Before(N, s, At(N, b.head_ + Len(src)), m), N, T)
      /\ Content(Before(N, s, At(N, b.head_ + Len(src)), m)) = Newest(N, Content(b) \o src)
  BY <1>4, <1>5, <1>8, WrittenNewest DEF h
<1> QED
  BY <1>7, <1>8, <1>9

\* A span that is longer than the buffer: its last items are left.
LEMMA PutLongNewest ==
  ASSUME NEW T, NEW N \in Nat \ {0}, NEW b, Ring(b, N, T), NEW src \in Seq(T), Len(src) > N
  PROVE  Ring(PutSpan(b, src), N, T) /\ Content(PutSpan(b, src)) = Newest(N, Content(b) \o src)
<1> DEFINE c == Content(b)  n == size_(b)  l == Len(src)
           s == [i \in DOMAIN b.buffer_ |-> src[Len(src) - Size(b) + i + 1]]  r == PutSpan(b, src)
<1>0. View(b, N, T)
  BY RingView
<1>1. /\ n \in 0..N /\ c \in Seq(T \cup {Stale}) /\ Len(c) = n /\ l \in Nat /\ l > N
      /\ DOMAIN b.buffer_ = 0..N-1 /\ Size(b) = N
  BY <1>0 DEF View
<1>2. s \in [0..N-1 -> T \cup {Stale}] /\ \A i \in 0..N-1 : s[i] = src[l - N + i + 1]
  BY <1>1
<1>3. r = [buffer_ |-> s, head_ |-> 0, tail_ |-> 0, full_ |-> TRUE]
  BY <1>1 DEF PutSpan
<1> HIDE DEF s, r, c, n
<1>4. At(N, 0 + N - N) = 0 /\ 0 \in 0..N-1 /\ N \in 0..N
  BY DEF At
<1>5. r = Before(N, s, 0, N)
  BY <1>3, <1>4 DEF Before
<1>6. Ring(r, N, T) /\ size_(r) = N
  <2>1. Ring(Before(N, s, 0, N), N, T) /\ size_(Before(N, s, 0, N)) = N
    BY <1>2, <1>4, RingOf
  <2> QED
    BY <1>5, <2>1
<1>7. View(r, N, T) /\ r.buffer_ = s /\ r.tail_ = 0
  BY <1>3, <1>6, RingView
<1>8. /\ Content(r) \in Seq(T \cup {Stale}) /\ Len(Content(r)) = N
      /\ \A i \in 1..N : Content(r)[i] = s[At(N, 0 + i - 1)]
  BY <1>6, <1>7 DEF View
<1>9. src \in Seq(T \cup {Stale}) /\ N = Left(N, Len(c), Len(src))
  BY <1>1 DEF Left
<1>10. /\ Newest(N, c \o src) \in Seq(T \cup {Stale}) /\ Len(Newest(N, c \o src)) = N
       /\ \A i \in 1..N : Newest(N, c \o src)[i] = Nth(c, src, i + (Len(c) + Len(src) - N))
  <2>1. Items(T \cup {Stale}, N, c, src, N)
    BY <1>1, <1>9, NewestItems
  <2> QED
    BY <2>1 DEF Items
<1>11. ASSUME NEW i \in 1..N PROVE Content(r)[i] = Newest(N, c \o src)[i]
  <2>1. At(N, 0 + i - 1) = i - 1 /\ i - 1 \in 0..N-1 /\ l - N + (i - 1) + 1 = l - N + i
    BY <1>1 DEF At
  <2>2. ~(i + (n + l - N) <= n) /\ i + (n + l - N) - n = l - N + i
    BY <1>1
  <2>3. Newest(N, c \o src)[i] = src[l - N + i]
    BY <1>1, <1>10, <2>2 DEF Nth
  <2> QED
    BY <1>2, <1>8, <2>1, <2>3
<1>12. Content(r) = Newest(N, c \o src)
  BY <1>8, <1>10, <1>11, SeqEqual
<1> QED
  BY <1>6, <1>12 DEF r, c

\* A span that fits in the buffer, to the right of head_ and around the end.
LEMMA PutSpanNewest ==
  ASSUME NEW T, NEW N \in Nat \ {0}, NEW b, Ring(b, N, T), NEW src \in Seq(T), Len(src) > 1, Len(src) <= N
  PROVE  Ring(PutSpan(b, src), N, T) /\ Content(PutSpan(b, src)) = Newest(N, Content(b) \o src)
<1> DEFINE h == b.head_  n == size_(b)  l == Len(src)
           right == IF h + l > Size(b) THEN Size(b) - h ELSE l
           rest == l - right
           h2 == IF rest # 0 THEN rest ELSE increment(b, h, right)
           s == [i \in DOMAIN b.buffer_ |->
                    IF i \in h .. (h + right - 1) THEN src[i - h + 1]
                    ELSE IF i < rest THEN src[right + i + 1] ELSE b.buffer_[i]]
           t2 == IF AdjustTail(b, src) THEN h2 ELSE b.tail_
           f2 == b.full_ \/ AdjustTail(b, src)
           m == Left(N, n, l)
<1>0. View(b, N, T)
  BY RingView
<1>1. /\ n \in 0..N /\ h \in 0..N-1 /\ l \in 2..N
      /\ b.tail_ = At(N, h + N - n) /\ (b.full_ <=> n = N) /\ b.full_ \in BOOLEAN
      /\ Size(b) = N /\ (AdjustTail(b, src) <=> N - n <= l) /\ AdjustTail(b, src) \in BOOLEAN
  BY <1>0 DEF View, AdjustTail
<1>2. b.buffer_ \in [0..N-1 -> T \cup {Stale}] /\ DOMAIN b.buffer_ = 0..N-1
      /\ \A i \in 1..l : src[i] \in T
  BY <1>0 DEF View
<1>3. PutSpan(b, src) = [buffer_ |-> s, head_ |-> h2, tail_ |-> t2, full_ |-> f2]
  BY <1>1 DEF PutSpan
<1>4. increment(b, h, right) = IF h + right >= N THEN h + right - N ELSE h + right
  BY <1>1 DEF increment
<1>5. right = IF h + l > N THEN N - h ELSE l
  BY <1>1
<1> HIDE DEF h, n, l, right, s, t2, f2, m
<1>6. /\ right \in 1..l /\ rest \in 0..N-1 /\ h2 = At(N, h + l)
      /\ \A o \in 0..N-1 : LET i == At(N, h + o) IN
            /\ i \in 0..N-1
            /\ o < l => \/ i \in h..(h + right - 1) /\ i - h + 1 = o + 1
                        \/ i \notin h..(h + right - 1) /\ i < rest /\ right + i + 1 = o + 1
            /\ ~(o < l) => i \notin h..(h + right - 1) /\ ~(i < rest)
      /\ \A i \in 0..N-1 : /\ i \in h..(h + right - 1) => i - h + 1 \in 1..l
                           /\ i < rest => right + i + 1 \in 1..l
  BY <1>1, <1>4, <1>5 DEF At
<1>7. s \in [0..N-1 -> T \cup {Stale}]
  BY <1>2, <1>6 DEF s
<1>8. \A o \in 0..N-1 : s[At(N, h + o)] = IF o < l THEN src[o + 1] ELSE b.buffer_[At(N, h + o)]
  <2>1. ASSUME NEW o \in 0..N-1
        PROVE  s[At(N, h + o)] = IF o < l THEN src[o + 1] ELSE b.buffer_[At(N, h + o)]
    <3> DEFINE i == At(N, h + o)
    <3>1. /\ i \in 0..N-1
          /\ o < l => \/ i \in h..(h + right - 1) /\ i - h + 1 = o + 1
                      \/ i \notin h..(h + right - 1) /\ i < rest /\ right + i + 1 = o + 1
          /\ ~(o < l) => i \notin h..(h + right - 1) /\ ~(i < rest)
      BY <1>6
    <3>2. s[i] = IF i \in h .. (h + right - 1) THEN src[i - h + 1]
                 ELSE IF i < rest THEN src[right + i + 1] ELSE b.buffer_[i]
      BY <1>2, <3>1 DEF s
    <3> HIDE DEF i
    <3>3. s[i] = IF o < l THEN src[o + 1] ELSE b.buffer_[i]
      BY <3>1, <3>2
    <3> QED
      BY <3>3 DEF i
  <2> QED
    BY <2>1
<1>9. m = IF N - n <= l THEN N ELSE n + l
  BY <1>1 DEF Left, m
<1>10. t2 = At(N, h2 + N - m) /\ (f2 <=> m = N) /\ f2 \in BOOLEAN
  <2>1. CASE AdjustTail(b, src)
    <3>1. m = N /\ t2 = h2 /\ f2 = TRUE /\ h2 \in 0..N-1
      BY <1>1, <1>6, <1>9, <2>1 DEF t2, f2, At
    <3> QED
      BY <3>1 DEF At
  <2>2. CASE ~AdjustTail(b, src)
    <3>1. m = n + l /\ m < N /\ t2 = At(N, h + N - n) /\ f2 = FALSE /\ h2 = At(N, h + l)
      BY <1>1, <1>6, <1>9, <2>2 DEF t2, f2
    <3> HIDE DEF h2
    <3>2. t2 = At(N, h2 + N - m) /\ m # N
      BY <1>1, <3>1 DEF At
    <3> QED
      BY <3>1, <3>2
  <2> QED
    BY <2>1, <2>2
<1> HIDE DEF h2
<1>11. PutSpan(b, src) = Before(N, s, h2, m)
  BY <1>3, <1>10 DEF Before
<1>12. h2 = At(N, b.head_ + Len(src)) /\ m = Left(N, size_(b), Len(src))
  BY <1>6 DEF h, n, m, l
<1>13. /\ Ring(Before(N, s, At(N, b.head_ + Len(src)), m), N, T)
       /\ Content(Before(N, s, At(N, b.head_ + Len(src)), m)) = Newest(N, Content(b) \o src)
  BY <1>7, <1>8, <1>12, WrittenNewest DEF h, l
<1> QED
  BY <1>11, <1>12, <1>13

\* Whatever is put, the newest items are left.
LEMMA PutNewest ==
  ASSUME NEW T, NEW N \in Nat \ {0}, NEW b, Ring(b, N, T), NEW src \in Seq(T)
  PROVE  Ring(put(b, src), N, T) /\ Content(put(b, src)) = Newest(N, Content(b) \o src)
<1> DEFINE l == Len(src)
<1>4. l \in Nat /\ (l = 0 \/ l = 1 \/ l > 1) /\ (l > 1 => ~(l = 0) /\ ~(l = 1))
  <2>1. l \in Nat
    OBVIOUS
  <2> HIDE DEF l
  <2> QED
    BY <2>1
<1>0. View(b, N, T)
  BY RingView
<1>1. CASE Len(src) = 0
  <2>1. put(b, src) = b /\ src = <<>>
    BY <1>1 DEF put
  <2>2. Content(b) \in Seq(T \cup {Stale}) /\ Len(Content(b)) \in 0..N
    BY <1>0 DEF View
  <2>3. Content(b) \o <<>> = Content(b) /\ SubSeq(Content(b), 1, Len(Content(b))) = Content(b)
    BY <2>2, ConcatEmptySeq, SubSeqFull
  <2>4. ~(Len(Content(b)) > N)
    BY <2>2
  <2>5. Newest(N, Content(b)) = SubSeq(Content(b), 1, Len(Content(b)))
    BY <2>4 DEF Newest
  <2> QED
    BY <2>1, <2>3, <2>5
<1>2. CASE Len(src) = 1
  <2>1. put(b, src) = PutOne(b, src[1])
    BY <1>2 DEF put
  <2> QED
    BY <1>2, <2>1, PutOneNewest
<1>3. CASE Len(src) > 1
  <2>0. ~(Len(src) = 0) /\ ~(Len(src) = 1)
    BY <1>3, <1>4
  <2>1. put(b, src) = PutSpan(b, src)
    BY <2>0 DEF put
  <2>2. CASE Len(src) <= N
    BY <1>3, <2>1, <2>2, PutSpanNewest
  <2>3. CASE Len(src) > N
    BY <2>1, <2>3, PutLongNewest
  <2> QED
    BY <2>2, <2>3
<1> QED
  BY <1>1, <1>2, <1>3, <1>4

\* Spans are read like items, one by one, but for what is copied.
TakesSpan(b, N, T, most, k) ==
    /\ Ring(get(b, most).ring, N, T) /\ k \in 0..size_(b)
    /\ Content(get(b, most).ring) = SubSeq(Content(b), k + 1, size_(b))
    /\ Len(get(b, most).dest) = k
    /\ \/ get(b, most).dest = SubSeq(Content(b), 1, k)
       \/ most > 1 /\ b.tail_ # 0 /\ ~empty_(b) /\ b.tail_ + k <= N

\* What get(span) of the ring buffer takes, and when it copies it wrong.
LEMMA GetsNewest ==
  ASSUME NEW T, NEW N \in Nat \ {0}, NEW b, Ring(b, N, T), NEW most \in Nat \ {0},
         NEW k, k = IF size_(b) < most THEN size_(b) ELSE most
  PROVE  TakesSpan(b, N, T, most, k)
<1> SUFFICES
         /\ Ring(get(b, most).ring, N, T) /\ k \in 0..size_(b)
         /\ Content(get(b, most).ring) = SubSeq(Content(b), k + 1, size_(b))
         /\ Len(get(b, most).dest) = k
         /\ \/ get(b, most).dest = SubSeq(Content(b), 1, k)
            \/ most > 1 /\ b.tail_ # 0 /\ ~empty_(b) /\ b.tail_ + k <= N
  BY DEF TakesSpan
<1> DEFINE t == b.tail_  n == size_(b)  c == Content(b)
<1>0. View(b, N, T)
  BY RingView
<1>1. n \in 0..N /\ t \in 0..N-1 /\ Size(b) = N /\ (empty_(b) <=> n = 0) /\ k \in 0..n
  BY <1>0 DEF View
<1>2. /\ Ring(GetEach(b, k).ring, N, T)
      /\ Content(GetEach(b, k).ring) = SubSeq(c, k + 1, n)
      /\ GetEach(b, k).dest = SubSeq(c, 1, k) /\ Len(GetEach(b, k).dest) = k
  <2>1. k \in 0..size_(b)
    BY <1>1
  <2>2. Takes(b, N, T, k)
    BY <2>1, GetsOldest
  <2> QED
    BY <2>2 DEF Takes
<1>3. CASE most <= 1 \/ empty_(b)
  <2>1. get(b, most) = GetEach(b, k)
    BY <1>3 DEF get
  <2> QED
    BY <1>1, <1>2, <2>1
<1>4. CASE ~(most <= 1) /\ ~empty_(b)
  <2>1. get(b, most) = GetSpan(b, k) /\ k # 0 /\ most > 1 /\ k \in 1..N
    BY <1>1, <1>4 DEF get
  <2>2. CASE t + k > N
    <3>1. GetSpan(b, k).ring = [b EXCEPT !.tail_ = k - (N - t), !.full_ = FALSE] /\ GetSpan(b, k).dest = Copied(b, t, k)
      BY <1>1, <2>2 DEF GetSpan, TwoPieces
    <3>2. k - (N - t) = increment(b, t, k)
      BY <1>1, <2>1, <2>2 DEF increment
    <3>3. GetSpan(b, k).ring = GetEach(b, k).ring /\ GetSpan(b, k).dest = GetEach(b, k).dest
      BY <2>1, <3>1, <3>2 DEF GetEach
    <3> QED
      BY <1>1, <1>2, <2>1, <3>3
  <2>3. CASE ~(t + k > N)
    <3>1. GetSpan(b, k).ring = [b EXCEPT !.tail_ = increment(b, t, k), !.full_ = FALSE] /\ GetSpan(b, k).dest = OnePiece(b, k)
      BY <1>1, <2>3 DEF GetSpan
    <3>2. GetSpan(b, k).ring = GetEach(b, k).ring
      BY <2>1, <3>1 DEF GetEach
    <3>3. Len(OnePiece(b, k)) = k
      BY <1>1, <2>1 DEF OnePiece
    <3>4. CASE t # 0
      BY <1>1, <1>2, <1>4, <2>1, <2>3, <3>1, <3>2, <3>3, <3>4
    <3>5. CASE t = 0
      <4>1. ASSUME NEW i \in 1..k PROVE (t + i - 1) % N = t + i - 1 /\ i <= k - t
        BY <1>1, <2>1, <2>3, <3>5
      <4>2. OnePiece(b, k) = Copied(b, t, k)
        BY <1>1, <4>1 DEF OnePiece, Copied
      <4>3. GetSpan(b, k).dest = GetEach(b, k).dest
        BY <3>1, <4>2 DEF GetEach
      <4> QED
        BY <1>1, <1>2, <2>1, <3>2, <4>3
    <3> QED
      BY <3>4, <3>5
  <2> QED
    BY <2>2, <2>3
<1> QED
  BY <1>3, <1>4

\* Keeping the newest of each span keeps the newest of all.
Twice(N, n, l, k) ==
    /\ k \in 0..n /\ Left(N, k, l) = Left(N, n, l) /\ Left(N, n, l) \in Nat
    /\ \A i \in 1..Left(N, n, l) :
          LET j == i + (k + l - Left(N, n, l))
              g == i + (n + l - Left(N, n, l))
          IN  /\ j <= k <=> g <= n
              /\ j <= k => j \in 1..k /\ j + (n + 0 - k) = g
              /\ j - k = g - n

\* The indices of an item that is kept by both of two puts.
LEMMA TwiceArithmetic ==
  ASSUME NEW N \in Nat, NEW n \in Nat, NEW l \in Nat, NEW k, k = Left(N, n, 0)
  PROVE  Twice(N, n, l, k)
BY DEF Left, Twice

\* Two puts leave what one put of both spans leaves.
LEMMA NewestTwice ==
  ASSUME NEW S, NEW N \in Nat, NEW x \in Seq(S), NEW y \in Seq(S)
  PROVE  Newest(N, Newest(N, x) \o y) = Newest(N, x \o y)
<1> DEFINE n == Len(x)  l == Len(y)  k == Left(N, n, 0)  m == Left(N, n, l)
           a == Newest(N, x)  b == Newest(N, a \o y)  c == Newest(N, x \o y)
<1>1. n \in Nat /\ l \in Nat /\ <<>> \in Seq(S) /\ Len(<<>>) = 0 /\ x \o <<>> = x
  BY ConcatEmptySeq
<1>2. a \in Seq(S) /\ Len(a) = k /\ \A i \in 1..k : a[i] = Nth(x, <<>>, i + (n + 0 - k))
  <2>1. k = Left(N, Len(x), Len(<<>>))
    BY <1>1
  <2> HIDE DEF k
  <2>2. Items(S, N, x, <<>>, k)
    BY <1>1, <2>1, NewestItems
  <2> QED
    BY <1>1, <2>2 DEF Items
<1>3. c \in Seq(S) /\ Len(c) = m /\ \A i \in 1..m : c[i] = Nth(x, y, i + (n + l - m))
  <2>1. m = Left(N, Len(x), Len(y))
    OBVIOUS
  <2> HIDE DEF m
  <2>2. Items(S, N, x, y, m)
    BY <2>1, NewestItems
  <2> QED
    BY <2>2 DEF Items
<1> HIDE DEF a, n, l
<1>4. Twice(N, n, l, k)
  <2>1. k = Left(N, n, 0)
    OBVIOUS
  <2> HIDE DEF k
  <2> QED
    BY <1>1, <2>1, TwiceArithmetic
<1> HIDE DEF k
<1>5. b \in Seq(S) /\ Len(b) = m /\ \A i \in 1..m : b[i] = Nth(a, y, i + (k + l - m))
  <2>1. m = Left(N, Len(a), Len(y))
    BY <1>2, <1>4 DEF Twice, l
  <2> HIDE DEF m
  <2>2. Items(S, N, a, y, m)
    BY <1>2, <2>1, NewestItems
  <2> QED
    BY <1>2, <2>2 DEF Items, l
<1>6. ASSUME NEW i \in 1..m PROVE b[i] = c[i]
  <2> DEFINE j == i + (k + l - m)  g == i + (n + l - m)
  <2>1. /\ j <= k <=> g <= n
        /\ j <= k => j \in 1..k /\ j + (n + 0 - k) = g
        /\ j - k = g - n
    BY <1>4 DEF Twice
  <2>2. b[i] = Nth(a, y, j) /\ c[i] = Nth(x, y, g)
    BY <1>3, <1>5
  <2> HIDE DEF j, g
  <2>3. CASE j <= k
    <3>1. b[i] = a[j] /\ c[i] = x[g]
      BY <1>2, <2>1, <2>2, <2>3 DEF Nth, n
    <3>2. a[j] = Nth(x, <<>>, g)
      BY <1>2, <2>1, <2>3
    <3> QED
      BY <2>1, <2>3, <3>1, <3>2 DEF Nth, n
  <2>4. CASE ~(j <= k)
    BY <1>2, <2>1, <2>2, <2>4 DEF Nth, n
  <2> QED
    BY <2>3, <2>4
<1>7. b = c
  BY <1>3, <1>5, <1>6, SeqEqual
<1> QED
  BY <1>7 DEF a

-----------------------------------------------------------------------------
(* The receive interrupt.                                                   *)

\* After is the function its recursion says.
LEMMA AfterDef == After = [j \in Nat |-> IF j = 0 THEN rx_buffer_ ELSE put(After[j - 1], Span(j))]
<1> DEFINE F(g, j) == IF j = 0 THEN rx_buffer_ ELSE put(g[j - 1], Span(j))
           Starts(g, n) == g = [j \in 0..n |-> F(g, j)]
           S == {n \in Nat : \E g : Starts(g, n)}
<1>1. 0 \in S
  <2> DEFINE g == [j \in 0..0 |-> rx_buffer_]
  <2>1. Starts(g, 0)
    OBVIOUS
  <2> QED
    BY <2>1
<1>2. ASSUME NEW n \in S PROVE n + 1 \in S
  <2>1. PICK g : Starts(g, n)
    OBVIOUS
  <2> DEFINE e == [j \in 0..n + 1 |-> IF j = n + 1 THEN put(g[n], Span(n + 1)) ELSE g[j]]
  <2>2. ASSUME NEW j \in 0..n + 1 PROVE e[j] = F(e, j)
    <3>1. CASE j = 0
      BY <2>1, <3>1
    <3>2. CASE j \in 1..n
      <4>1. j # 0 /\ j - 1 \in 0..n + 1 /\ j \in 0..n /\ j - 1 # n + 1 /\ j # n + 1
        BY <3>2
      <4>2. e[j] = g[j] /\ e[j - 1] = g[j - 1]
        BY <4>1
      <4>3. g[j] = F(g, j)
        BY <2>1, <4>1
      <4> QED
        BY <4>1, <4>2, <4>3
    <3>3. CASE j = n + 1
      <4>1. j # 0 /\ j - 1 = n /\ n \in 0..n + 1 /\ n # n + 1
        BY <3>3
      <4>2. e[j] = put(g[n], Span(n + 1)) /\ e[n] = g[n]
        BY <3>3, <4>1
      <4> QED
        BY <3>3, <4>1, <4>2
    <3> QED
      BY <3>1, <3>2, <3>3
  <2>3. Starts(e, n + 1)
    BY <2>2
  <2>4. n + 1 \in Nat
    OBVIOUS
  <2> HIDE DEF e, Starts
  <2> QED
    BY <2>3, <2>4
<1>3. S = Nat
  BY <1>1, <1>2, SetInduction
<1> DEFINE G == [n \in Nat |-> CHOOSE g : Starts(g, n)]
           H == [n \in Nat |-> G[n][n]]
<1>4. \A n \in Nat : Starts(G[n], n)
  BY <1>3
<1> HIDE DEF G
<1>5. \A n \in Nat : G[n][0] = rx_buffer_ /\ \A j \in 1..n : G[n][j] = put(G[n][j - 1], Span(j))
  <2> SUFFICES ASSUME NEW n \in Nat
               PROVE  G[n][0] = rx_buffer_ /\ \A j \in 1..n : G[n][j] = put(G[n][j - 1], Span(j))
    OBVIOUS
  <2> DEFINE g == G[n]
  <2>1. g = [j \in 0..n |-> F(g, j)]
    BY <1>4
  <2> HIDE DEF g
  <2>2. \A j \in 0..n : g[j] = F(g, j)
    BY <2>1
  <2>3. 0 \in 0..n /\ \A j \in 1..n : j \in 0..n /\ j # 0
    OBVIOUS
  <2>4. g[0] = rx_buffer_ /\ \A j \in 1..n : g[j] = put(g[j - 1], Span(j))
    BY <2>2, <2>3
  <2> QED
    BY <2>4 DEF g
<1>6. ASSUME NEW n \in Nat, NEW d \in Nat PROVE \A j \in 0..n : G[n][j] = G[n + d][j]
  <2> DEFINE A == {j \in Nat : j <= n => G[n][j] = G[n + d][j]}
  <2>1. 0 \in A
    BY <1>5
  <2>2. ASSUME NEW j \in A PROVE j + 1 \in A
    <3>1. ASSUME j + 1 <= n PROVE G[n][j + 1] = G[n + d][j + 1]
      <4>1. j + 1 \in 1..n /\ j + 1 \in 1..n + d /\ (j + 1) - 1 = j /\ j <= n
        BY <3>1
      <4>2. G[n][j + 1] = put(G[n][j], Span(j + 1)) /\ G[n + d][j + 1] = put(G[n + d][j], Span(j + 1))
        BY <1>5, <4>1
      <4> QED
        BY <4>1, <4>2
    <3> QED
      BY <3>1
  <2> HIDE DEF A
  <2>3. A = Nat
    BY <2>1, <2>2, SetInduction DEF A
  <2> QED
    BY <2>3 DEF A
<1>7. H = [j \in Nat |-> F(H, j)]
  <2>1. ASSUME NEW j \in Nat PROVE H[j] = F(H, j)
    <3>1. CASE j = 0
      BY <1>5, <3>1
    <3>2. CASE j # 0
      <4>1. j - 1 \in Nat /\ j \in 1..j /\ (j - 1) + 1 = j /\ j - 1 \in 0..j - 1
        BY <3>2
      <4>2. G[j][j] = put(G[j][j - 1], Span(j))
        BY <1>5, <4>1
      <4>3. G[j - 1][j - 1] = G[(j - 1) + 1][j - 1]
        BY <1>6, <4>1
      <4> QED
        BY <3>2, <4>1, <4>2, <4>3
    <3> QED
      BY <3>1, <3>2
  <2> QED
    BY <2>1
<1>8. After = CHOOSE f : f = [j \in Nat |-> F(f, j)]
  BY DEF After
<1> QED
  BY <1>7, <1>8

\* The spans follow each other, up to the last byte the port holds.
LEMMA SpanEnds ==
  ASSUME NEW T, port_rx \in Seq(T), NEW j \in Nat \ {0}
  PROVE  /\ Upto(j - 1) \in 0..Upto(j) /\ Upto(j) \in 0..Len(port_rx)
         /\ Span(j) = SubSeq(port_rx, Upto(j - 1) + 1, Upto(j))
<1> DEFINE n == Len(port_rx)  x == (j - 1) * RxChunk  y == j * RxChunk
<1>1. RxChunk \in Nat \ {0} /\ n \in Nat
  BY SysIoAssumption
<1>2. y = x + RxChunk /\ x \in Nat
  BY <1>1
<1>3. /\ Upto(j) = IF y < n THEN y ELSE n
      /\ Upto(j - 1) = IF x < n THEN x ELSE n
      /\ Span(j) = SubSeq(port_rx, x + 1, Upto(j))
  BY DEF Upto, Span
<1> HIDE DEF n, x, y
<1>4. CASE x < n
  <2> DEFINE u == Upto(j)
  <2>1. u = (IF y < n THEN y ELSE n) /\ Upto(j - 1) = x
    BY <1>3, <1>4
  <2> HIDE DEF u
  <2>2. x \in 0..u /\ u \in 0..n
    BY <1>1, <1>2, <1>4, <2>1
  <2> QED
    BY <1>3, <2>1, <2>2 DEF n, u
<1>5. CASE ~(x < n)
  <2>1. Upto(j) = n /\ Upto(j - 1) = n /\ n < x + 1 /\ n < n + 1 /\ x + 1 \in Int /\ n + 1 \in Int /\ n \in Int
    BY <1>1, <1>2, <1>3, <1>5
  <2>2. Span(j) = <<>> /\ SubSeq(port_rx, n + 1, n) = <<>>
    BY <1>3, <2>1, SubSeqEmpty
  <2> QED
    BY <1>1, <2>1, <2>2 DEF n
<1> QED
  BY <1>4, <1>5

\* As many spans as bytes are enough.
LEMMA SpansEnough ==
  ASSUME NEW T, port_rx \in Seq(T)
  PROVE  Upto(0) = 0 /\ Upto(Len(port_rx)) = Len(port_rx)
<1> DEFINE n == Len(port_rx)
<1>1. RxChunk \in Nat \ {0} /\ n \in Nat
  BY SysIoAssumption
<1>2. 0 * RxChunk = 0
  BY <1>1
<1> DEFINE A == {j \in Nat : j <= j * RxChunk}
<1>3. 0 \in A
  BY <1>2
<1>4. ASSUME NEW j \in A PROVE j + 1 \in A
  <2>1. (j + 1) * RxChunk = j * RxChunk + RxChunk /\ j * RxChunk \in Nat
    BY <1>1
  <2> DEFINE p == j * RxChunk
  <2>2. p \in Nat /\ j <= p /\ j \in Nat
    BY <2>1
  <2> HIDE DEF p
  <2>3. j + 1 \in Nat /\ j + 1 <= p + RxChunk
    BY <1>1, <2>2
  <2> QED
    BY <2>1, <2>3 DEF p
<1>5. A = Nat
  <2> HIDE DEF A
  <2>1. A \in SUBSET Nat
    BY DEF A
  <2> QED
    BY <1>3, <1>4, <2>1, SetInduction
<1>6. n <= n * RxChunk /\ n * RxChunk \in Nat
  BY <1>1, <1>5
<1> DEFINE p == n * RxChunk
<1> HIDE DEF p, n
<1>7. ~(p < n)
  BY <1>1, <1>6 DEF p
<1> QED
  BY <1>1, <1>2, <1>7 DEF Upto, p, n

\* The buffer after j spans holds the newest bytes of the first j spans.
LEMMA ReceivePuts ==
  ASSUME Ring(rx_buffer_, RxSize, 1..MaxBytes), port_rx \in Seq(1..MaxBytes)
  PROVE  /\ After[0] = rx_buffer_
         /\ \A j \in Nat \ {0} : After[j] = put(After[j - 1], Span(j))
         /\ \A j \in Nat : /\ Ring(After[j], RxSize, 1..MaxBytes)
                           /\ Content(After[j]) = Newest(RxSize, Content(rx_buffer_) \o SubSeq(port_rx, 1, Upto(j)))
<1> DEFINE T == 1..MaxBytes  N == RxSize  c == Content(rx_buffer_)  p == port_rx
           Right(j) == Ring(After[j], N, T) /\ Content(After[j]) = Newest(N, c \o SubSeq(p, 1, Upto(j)))
           A == {j \in Nat : Right(j)}
<1>1. After[0] = rx_buffer_ /\ \A j \in Nat \ {0} : After[j] = put(After[j - 1], Span(j))
  BY AfterDef
<1>2. N \in Nat \ {0} /\ Ring(rx_buffer_, N, T) /\ p \in Seq(T)
  BY SysIoAssumption
<1> HIDE DEF T, N
<1>3. View(rx_buffer_, N, T)
  BY <1>2, RingView
<1>4. c \in Seq(T \cup {Stale}) /\ Len(c) \in 0..N /\ p \in Seq(T \cup {Stale})
  BY <1>2, <1>3 DEF View
<1> HIDE DEF c
<1>5. 0 \in A
  <2>1. SubSeq(p, 1, 0) = <<>> /\ Upto(0) = 0
    BY <1>2, SubSeqEmpty, SpansEnough
  <2>2. c \o <<>> = c /\ SubSeq(c, 1, Len(c)) = c /\ ~(Len(c) > N)
    BY <1>2, <1>4, ConcatEmptySeq, SubSeqFull
  <2>3. Newest(N, c \o SubSeq(p, 1, Upto(0))) = c
    BY <2>1, <2>2 DEF Newest
  <2> QED
    BY <1>1, <1>2, <2>3 DEF c
<1>6. ASSUME NEW j \in A PROVE j + 1 \in A
  <2> DEFINE u == Upto(j)  v == Upto(j + 1)  x == SubSeq(p, 1, u)  y == Span(j + 1)
  <2>1. j \in Nat /\ j + 1 \in Nat \ {0} /\ (j + 1) - 1 = j
    OBVIOUS
  <2>2. u \in 0..v /\ v \in 0..Len(p) /\ y = SubSeq(p, u + 1, v)
    BY <1>2, <2>1, SpanEnds
  <2> HIDE DEF u, v
  <2>3. x \in Seq(T) /\ y \in Seq(T)
    <3>1. /\ 1 \in Int /\ u \in Int /\ v \in Int /\ u + 1 \in Int
          /\ \A i \in 1..u : p[i] \in T
          /\ \A i \in u + 1..v : p[i] \in T
      BY <1>2, <2>2
    <3>2. SubSeq(p, 1, u) \in Seq(T)
      BY <3>1, SubSeqProperties
    <3>3. SubSeq(p, u + 1, v) \in Seq(T)
      BY <3>1, SubSeqProperties
    <3> QED
      BY <2>2, <3>2, <3>3
  <2>4. After[j + 1] = put(After[j], y)
    BY <1>1, <2>1
  <2>5. Ring(After[j], N, T) /\ Content(After[j]) = Newest(N, c \o x)
    BY <1>6 DEF u
  <2> HIDE DEF x, y
  <2>6. Ring(After[j + 1], N, T) /\ Content(After[j + 1]) = Newest(N, Newest(N, c \o x) \o y)
    BY <1>2, <2>3, <2>4, <2>5, PutNewest
  <2>7. x \in Seq(T \cup {Stale}) /\ y \in Seq(T \cup {Stale}) /\ c \o x \in Seq(T \cup {Stale})
    <3>1. x \in Seq(T \cup {Stale}) /\ y \in Seq(T \cup {Stale})
      BY <2>3
    <3> QED
      BY <1>4, <3>1, ConcatProperties
  <2>8. Newest(N, Newest(N, c \o x) \o y) = Newest(N, (c \o x) \o y)
    <3> DEFINE q == c \o x
    <3>1. q \in Seq(T \cup {Stale}) /\ N \in Nat
      BY <1>2, <2>7
    <3> HIDE DEF q
    <3>2. Newest(N, Newest(N, q) \o y) = Newest(N, q \o y)
      BY <2>7, <3>1, NewestTwice
    <3> QED
      BY <3>2 DEF q
  <2>9. (c \o x) \o y = c \o (x \o y)
    <3>1. Joined(c, x, y)
      BY <1>4, <2>7, Joins
    <3> QED
      BY <3>1 DEF Joined
  <2>10. x \o y = SubSeq(p, 1, v)
    BY <1>2, <2>2, ConcatAdjacentSubSeq DEF x
  <2>11. Right(j + 1)
    BY <2>6, <2>8, <2>9, <2>10 DEF v
  <2> QED
    BY <2>1, <2>11
<1> HIDE DEF Right
<1>7. A = Nat
  <2> HIDE DEF A
  <2>1. A \in SUBSET Nat
    BY DEF A
  <2> QED
    BY <1>5, <1>6, <2>1, SetInduction
<1>8. \A j \in Nat : Right(j)
  BY <1>7
<1> QED
  BY <1>1, <1>8 DEF Right, T, N, c

\* If no put takes the overflow branch, the bytes of the port fit in the buffer.
LEMMA LossSeen ==
  ASSUME Ring(rx_buffer_, RxSize, 1..MaxBytes), port_rx \in Seq(1..MaxBytes),
         \A j \in 1..Len(port_rx) : ~Overflows(After[j - 1], Span(j))
  PROVE  Len(port_rx) <= capacity(rx_buffer_)
<1> DEFINE T == 1..MaxBytes  N == RxSize  n == Len(port_rx)  z == size_(rx_buffer_)
           A == {j \in Nat : j <= n => size_(After[j]) = z + Upto(j)}
<1>0. N \in Nat \ {0} /\ n \in Nat
  BY SysIoAssumption
<1>1. /\ After[0] = rx_buffer_
      /\ \A j \in Nat \ {0} : After[j] = put(After[j - 1], Span(j))
      /\ \A j \in Nat : Ring(After[j], N, T)
  BY ReceivePuts
<1>2. Upto(0) = 0 /\ Upto(n) = n
  BY SpansEnough
<1>a. Ring(rx_buffer_, N, T) /\ port_rx \in Seq(T)
  OBVIOUS
<1> HIDE DEF T, N
<1>3. z \in 0..N /\ capacity(rx_buffer_) = N - z
  <2>1. View(rx_buffer_, N, T)
    BY <1>0, <1>a, RingView
  <2> QED
    BY <2>1 DEF View
<1> HIDE DEF z
<1>4. 0 \in A
  <2>1. size_(After[0]) = z + 0
    BY <1>1, <1>3 DEF z
  <2> QED
    BY <1>2, <2>1
<1>5. ASSUME NEW j \in A PROVE j + 1 \in A
  <2> SUFFICES ASSUME j + 1 <= n PROVE size_(After[j + 1]) = z + Upto(j + 1)
    OBVIOUS
  <2> DEFINE b == After[j]  y == Span(j + 1)  u == Upto(j)  v == Upto(j + 1)
  <2>1. j \in Nat /\ j + 1 \in Nat \ {0} /\ (j + 1) - 1 = j /\ j + 1 \in 1..n /\ j <= n
    BY <1>0
  <2>2. u \in 0..v /\ v \in 0..n /\ y = SubSeq(port_rx, u + 1, v)
    BY <1>a, <2>1, SpanEnds
  <2>3. ~Overflows(b, y) /\ size_(b) = z + u /\ After[j + 1] = put(b, y) /\ Ring(b, N, T) /\ Ring(After[j + 1], N, T)
    BY <1>1, <1>5, <2>1
  <2> HIDE DEF b, y, u, v
  <2>4. y \in Seq(T) /\ Len(y) = v - u
    <3>1. u + 1 \in Int /\ v \in Int /\ \A i \in u + 1..v : port_rx[i] \in T
      BY <1>0, <1>a, <2>2
    <3>2. /\ SubSeq(port_rx, u + 1, v) \in Seq(T)
          /\ Len(SubSeq(port_rx, u + 1, v)) = IF u + 1 <= v THEN v - (u + 1) + 1 ELSE 0
      BY <3>1, SubSeqProperties
    <3>3. (IF u + 1 <= v THEN v - (u + 1) + 1 ELSE 0) = v - u
      BY <2>2
    <3> QED
      BY <2>2, <3>2, <3>3
  <2>5. /\ size_(b) \in 0..N /\ Size(b) = N /\ capacity(b) = N - size_(b) /\ (b.full_ <=> size_(b) = N)
        /\ Content(b) \in Seq(T \cup {Stale}) /\ Len(Content(b)) = size_(b)
    <3>1. View(b, N, T)
      BY <1>0, <2>3, RingView
    <3> QED
      BY <3>1 DEF View
  <2> DEFINE l == Len(y)  c == size_(b)
  <2>6. l \in Nat /\ c \in 0..N
    BY <2>4, <2>5
  <2>7. c + l <= N
    <3>1. l = 0 \/ (l = 1 /\ ~b.full_) \/ (l > 1 /\ ~(l > Size(b)) /\ ~(capacity(b) <= l))
      <4> HIDE DEF l
      <4>1. l = 0 \/ l = 1 \/ (l > 1 /\ ~(l = 0) /\ ~(l = 1))
        BY <2>6
      <4> QED
        BY <2>3, <4>1 DEF Overflows, AdjustTail, l
    <3> HIDE DEF l, c
    <3>2. Size(b) = N /\ capacity(b) = N - c /\ (b.full_ <=> c = N)
      BY <2>5 DEF c
    <3> QED
      BY <1>0, <2>6, <3>1, <3>2
  <2>8. Left(N, Len(Content(b)), l) = c + l
    <3>1. Len(Content(b)) = c
      BY <2>5
    <3> HIDE DEF l, c
    <3>2. Left(N, c, l) = c + l
      BY <1>0, <2>6, <2>7 DEF Left
    <3> QED
      BY <3>1, <3>2
  <2>9. Content(After[j + 1]) = Newest(N, Content(b) \o y)
    BY <1>0, <2>3, <2>4, PutNewest
  <2>10. Items(T \cup {Stale}, N, Content(b), y, c + l)
    <3>1. y \in Seq(T \cup {Stale}) /\ N \in Nat /\ c + l = Left(N, Len(Content(b)), Len(y))
      BY <1>0, <2>4, <2>8
    <3> DEFINE m == c + l
    <3> HIDE DEF m
    <3>2. m = Left(N, Len(Content(b)), Len(y))
      BY <3>1 DEF m
    <3>3. Items(T \cup {Stale}, N, Content(b), y, m)
      BY <2>5, <3>1, <3>2, NewestItems
    <3> QED
      BY <3>3 DEF m
  <2>11. Len(Content(After[j + 1])) = c + l
    BY <2>9, <2>10 DEF Items
  <2>12. Len(Content(After[j + 1])) = size_(After[j + 1])
    <3>1. View(After[j + 1], N, T)
      BY <1>0, <2>3, RingView
    <3> QED
      BY <3>1 DEF View
  <2>13. c + l = z + v
    <3>1. c = z + u /\ l = v - u
      BY <2>3, <2>4
    <3> HIDE DEF c, l
    <3> QED
      BY <1>3, <2>2, <3>1
  <2> QED
    BY <2>11, <2>12, <2>13 DEF v
<1>6. A = Nat
  <2> HIDE DEF A
  <2>1. A \in SUBSET Nat
    BY DEF A
  <2> QED
    BY <1>4, <1>5, <2>1, SetInduction
<1>7. size_(After[n]) = z + n
  BY <1>0, <1>2, <1>6
<1>8. size_(After[n]) \in 0..N
  <2>1. View(After[n], N, T)
    BY <1>0, <1>1, RingView
  <2> QED
    BY <2>1 DEF View
<1> HIDE DEF n
<1>9. n <= N - z
  BY <1>0, <1>3, <1>7, <1>8
<1> QED
  BY <1>3, <1>9 DEF n

\* The receive side: bytes wait in the port in the order they arrived, and what is lost
\* or misread has been noticed.
RxInv ==
    /\ Ring(rx_buffer_, RxSize, 1..MaxBytes)
    /\ port_rx = [i \in 1..arrived - stored |-> stored + i]
    /\ arrived - stored <= RxDepth
    /\ lost => detected
    /\ misread => skewed

\* The interrupt puts all that the port holds.
LEMMA Receives ==
  ASSUME TypeOK, RxInv, serial_irq_rx_cb
  PROVE  /\ Ring(rx_buffer_', RxSize, 1..MaxBytes)
         /\ Content(rx_buffer_') = Newest(RxSize, Content(rx_buffer_) \o port_rx)
         /\ lost' => detected'
         /\ Len(port_rx) = arrived - stored /\ stored' = arrived
<1> DEFINE n == Len(port_rx)
<1>1. /\ rx_buffer_' = After[n]
      /\ lost' = (lost \/ n > capacity(rx_buffer_))
      /\ detected' = (detected \/ \E j \in 1..n : Overflows(After[j - 1], Span(j)))
      /\ stored' = stored + n
  BY DEF serial_irq_rx_cb
<1>2. /\ Ring(rx_buffer_, RxSize, 1..MaxBytes) /\ port_rx \in Seq(1..MaxBytes) /\ n \in Nat
      /\ stored \in Nat /\ arrived \in Nat /\ arrived - stored \in Nat
  BY DEF RxInv, TypeOK
<1>3. n = arrived - stored
  BY <1>2 DEF RxInv
<1>4. Ring(After[n], RxSize, 1..MaxBytes) /\ Content(After[n]) = Newest(RxSize, Content(rx_buffer_) \o port_rx)
  <2>1. SubSeq(port_rx, 1, Upto(n)) = port_rx
    <3>1. Upto(n) = n
      BY <1>2, SpansEnough
    <3> QED
      BY <1>2, <3>1, SubSeqFull
  <2>2. \A j \in Nat : /\ Ring(After[j], RxSize, 1..MaxBytes)
                       /\ Content(After[j]) = Newest(RxSize, Content(rx_buffer_) \o SubSeq(port_rx, 1, Upto(j)))
    BY <1>2, ReceivePuts
  <2> QED
    BY <1>2, <2>1, <2>2
<1>5. (\A j \in 1..n : ~Overflows(After[j - 1], Span(j))) => ~(n > capacity(rx_buffer_))
  <2> SUFFICES ASSUME \A j \in 1..n : ~Overflows(After[j - 1], Span(j)) PROVE ~(n > capacity(rx_buffer_))
    OBVIOUS
  <2>1. n <= capacity(rx_buffer_)
    BY <1>2, LossSeen
  <2>2. capacity(rx_buffer_) \in Int
    <3>1. RxSize \in Nat \ {0}
      BY SysIoAssumption
    <3>2. View(rx_buffer_, RxSize, 1..MaxBytes)
      BY <1>2, <3>1, RingView
    <3> QED
      BY <3>1, <3>2 DEF View
  <2> HIDE DEF n
  <2> QED
    BY <1>2, <2>1, <2>2
<1>6. lost' => detected'
  BY <1>1, <1>5, Zenon DEF RxInv
<1>7. stored' = arrived
  BY <1>1, <1>2, <1>3
<1> QED
  BY <1>1, <1>3, <1>4, <1>6, <1>7

\* A read takes the oldest bytes, and notices when it does not copy them.
LEMMA Reads ==
  ASSUME RxInv, NEW n \in Nat \ {0}, Get(n)
  PROVE  /\ Ring(rx_buffer_', RxSize, 1..MaxBytes)
         /\ \E k \in 0..Len(Content(rx_buffer_)) :
               Content(rx_buffer_') = SubSeq(Content(rx_buffer_), k + 1, Len(Content(rx_buffer_)))
         /\ misread' => skewed'
<1> DEFINE b == rx_buffer_  z == size_(b)  k == IF z < n THEN z ELSE n  got == get(b, n)
<1>0. RxSize \in Nat \ {0} /\ Ring(b, RxSize, 1..MaxBytes)
  BY SysIoAssumption DEF RxInv
<1>1. View(b, RxSize, 1..MaxBytes)
  BY <1>0, RingView
<1>2. Len(Content(b)) = z /\ z \in Nat
  BY <1>0, <1>1 DEF View
<1>3. /\ rx_buffer_' = got.ring
      /\ misread' = (misread \/ got.dest # SubSeq(Content(b), 1, Len(got.dest)))
      /\ skewed' = (skewed \/ /\ n > 1 /\ b.tail_ # 0 /\ ~empty_(b) /\ b.tail_ + Len(got.dest) <= RxSize)
  BY DEF Get
<1>4. /\ Ring(got.ring, RxSize, 1..MaxBytes) /\ k \in 0..z
      /\ Content(got.ring) = SubSeq(Content(b), k + 1, z)
      /\ Len(got.dest) = k
      /\ \/ got.dest = SubSeq(Content(b), 1, k)
         \/ n > 1 /\ b.tail_ # 0 /\ ~empty_(b) /\ b.tail_ + k <= RxSize
  <2>1. k = IF size_(b) < n THEN size_(b) ELSE n
    OBVIOUS
  <2> HIDE DEF k, b
  <2>2. TakesSpan(b, RxSize, 1..MaxBytes, n, k)
    BY <1>0, <2>1, GetsNewest
  <2> QED
    BY <2>2 DEF TakesSpan
<1> HIDE DEF k, got, b
<1>5. misread' => skewed'
  <2>1. misread => skewed
    BY DEF RxInv
  <2> QED
    BY <1>3, <1>4, <2>1, Zenon
<1> QED
  BY <1>2, <1>3, <1>4, <1>5 DEF b

\* Every step keeps the receive side right, and is a step of the queue or none.
LEMMA RxStep ==
  ASSUME TypeOK, RxInv, [Next]_vars
  PROVE  RxInv' /\ [Queue!Next]_(Queue!vars)
<1> DEFINE c == Content(rx_buffer_)  Same == UNCHANGED <<rx_buffer_, stored>>
<1>1. Same => [Queue!Next]_(Queue!vars)
  BY DEF Queue!vars
<1>2. ASSUME NEW n \in Nat \ {0}, Get(n) PROVE RxInv' /\ [Queue!Next]_(Queue!vars)
  <2>1. /\ Ring(rx_buffer_', RxSize, 1..MaxBytes) /\ (misread' => skewed')
        /\ \E k \in 0..Len(c) : Content(rx_buffer_') = SubSeq(c, k + 1, Len(c))
    BY <1>2, Reads
  <2>2. UNCHANGED <<port_rx, arrived, stored, lost, detected>>
    BY <1>2 DEF Get
  <2>3. RxInv'
    BY <2>1, <2>2 DEF RxInv
  <2>4. PICK k \in 0..Len(c) : Content(rx_buffer_') = SubSeq(c, k + 1, Len(c))
    BY <2>1
  <2>5. CASE k = 0
    <3>1. SubSeq(c, 0 + 1, Len(c)) = c
      <4>1. c \in Seq(1..MaxBytes \cup {Stale})
        <5>1. RxSize \in Nat \ {0} /\ Ring(rx_buffer_, RxSize, 1..MaxBytes)
          BY SysIoAssumption DEF RxInv
        <5>2. View(rx_buffer_, RxSize, 1..MaxBytes)
          BY <5>1, RingView
        <5> QED
          BY <5>2 DEF View
      <4> QED
        BY <4>1, SubSeqFull
    <3>2. Content(rx_buffer_') = c
      BY <2>4, <2>5, <3>1
    <3> QED
      BY <2>2, <2>3, <3>2 DEF Queue!vars
  <2>6. CASE k # 0
    <3>1. k \in 1..Len(c)
      BY <2>6
    <3>2. Queue!Take(k)
      BY <2>2, <2>4 DEF Queue!Take
    <3> QED
      BY <2>3, <3>1, <3>2 DEF Queue!Next
  <2> QED
    BY <2>5, <2>6
<1>3. CASE serial_irq_rx_cb
  <2> DEFINE n == arrived - stored
  <2>1. /\ Ring(rx_buffer_', RxSize, 1..MaxBytes)
        /\ Content(rx_buffer_') = Newest(RxSize, c \o port_rx)
        /\ lost' => detected'
        /\ Len(port_rx) = n /\ stored' = arrived
    BY <1>3, Receives
  <2>2. port_rx' = <<>> /\ UNCHANGED <<arrived, skewed, misread>>
    BY <1>3 DEF serial_irq_rx_cb
  <2>3. n \in 0..RxDepth /\ stored \in Nat /\ arrived \in Nat /\ RxDepth \in Nat
    BY SysIoAssumption DEF RxInv, TypeOK
  <2>4. RxInv'
    <3>1. arrived' - stored' = 0 /\ port_rx' = [i \in 1..0 |-> stored' + i]
      BY <2>1, <2>2, <2>3
    <3> QED
      BY <2>1, <2>2, <2>3, <3>1 DEF RxInv
  <2>5. port_rx = [i \in 1..n |-> stored + 1 + i - 1]
    <3>1. port_rx = [i \in 1..n |-> stored + i]
      BY DEF RxInv
    <3>2. \A i \in 1..n : stored + i = stored + 1 + i - 1
      BY <2>3
    <3> QED
      BY <3>1, <3>2
  <2>6. CASE n = 0
    <3>1. rx_buffer_' = rx_buffer_ /\ stored' = stored
      <4>1. Len(port_rx) = 0 /\ rx_buffer_' = After[Len(port_rx)]
        BY <1>3, <2>1, <2>6 DEF serial_irq_rx_cb
      <4>2. After[0] = rx_buffer_
        BY AfterDef
      <4>3. stored' = stored
        BY <2>1, <2>3, <2>6
      <4> QED
        BY <4>1, <4>2, <4>3
    <3> QED
      BY <1>1, <2>4, <3>1
  <2>7. CASE n # 0
    <3>1. n \in 1..RxDepth
      BY <2>3, <2>7
    <3>2. Queue!Newest(c \o port_rx) = Newest(RxSize, c \o port_rx)
      BY DEF Newest, Queue!Newest
    <3>3. stored' + 1 = stored + 1 + n
      BY <2>1, <2>3
    <3> HIDE DEF n, c
    <3>4. Content(rx_buffer_') = Queue!Newest(c \o [i \in 1..n |-> stored + 1 + i - 1])
      BY <2>1, <2>5, <3>2
    <3>5. Queue!Put(n)
      BY <3>3, <3>4 DEF Queue!Put, c
    <3> QED
      BY <2>4, <3>1, <3>5 DEF Queue!Next
  <2> QED
    BY <2>6, <2>7
<1>4. CASE Arrive
  <2>1. /\ arrived' = arrived + 1 /\ port_rx' = Append(port_rx, arrived + 1) /\ Len(port_rx) < RxDepth
        /\ UNCHANGED <<rx_buffer_, stored, lost, detected, skewed, misread>>
    BY <1>4 DEF Arrive
  <2> DEFINE n == arrived - stored
  <2>2. n \in Nat /\ stored \in Nat /\ arrived \in Nat /\ RxDepth \in Nat /\ port_rx = [i \in 1..n |-> stored + i]
    BY SysIoAssumption DEF RxInv, TypeOK
  <2>3. arrived' - stored = n + 1 /\ arrived + 1 = stored + (n + 1)
    BY <2>1, <2>2
  <2> HIDE DEF n
  <2>4. Append(port_rx, stored + (n + 1)) = [i \in 1..n + 1 |-> stored + i] /\ Len(port_rx) = n
    BY <2>2
  <2>5. n + 1 <= RxDepth
    BY <2>1, <2>2, <2>4
  <2> QED
    BY <1>1, <2>1, <2>3, <2>4, <2>5 DEF RxInv
<1>5. CASE UNCHANGED rxvars
  BY <1>1, <1>5 DEF rxvars, RxInv
<1>6. CASE \E r \in Reader : ReadByte(r)
  BY <1>1, <1>6 DEF ReadByte, RxInv
<1>7. CASE (\E r \in Reader : ReadByteGets(r)) \/ TryReadByte \/ \E n \in 2..RxSize : ReadBytes(n)
  <2>1. \E n \in Nat \ {0} : Get(n)
    BY <1>7 DEF ReadByteGets, TryReadByte, ReadBytes
  <2> QED
    BY <1>2, <2>1
<1>8. CASE \/ \E w \in Writer : \/ \E n \in 0..MaxText, newline \in BOOLEAN : Write(w, n, newline)
                                \/ Check(w) \/ Put(w) \/ Trigger(w)
           \/ Shift \/ serial_irq_tx_cb \/ UNCHANGED vars
  BY <1>5, <1>8 DEF Write, Check, Put, Trigger, Shift, serial_irq_tx_cb, vars
<1> QED
  BY <1>3, <1>4, <1>6, <1>7, <1>8 DEF Next
-----------------------------------------------------------------------------
(* The transmit side.                                                       *)

\* Of two bytes sent one after the other: the same call goes on, or the next begins.
Follows(x, y) == y = <<x[1], x[2] + 1>> \/ y = <<x[1] + 1, 1>>

\* A stream of bytes of the first c calls, in order.
Ordered(s, c) ==
    /\ \A i \in 1..Len(s) : s[i][1] <= c
    /\ \A i \in 1..Len(s) - 1 : Follows(s[i], s[i + 1])

\* Of call c, the stream has the first p bytes.
Ends(s, c, p) ==
    \/ s = <<>> /\ p = 0 /\ c <= 1
    \/ s # <<>> /\ p > 0 /\ s[Len(s)] = <<c, p>>
    \/ s # <<>> /\ p = 0 /\ s[Len(s)][1] = c - 1

\* What writer w still has to put comes next, and is all of the call.
Continues(w, p) ==
    /\ \A k \in 1..Len(text[w]) : text[w][k] = <<calls, p + k>>
    /\ \A k \in 1..Len(byte[w]) : byte[w][k] = <<calls, p + Len(text[w]) + k>>

Done(w) == text[w] = <<>> /\ byte[w] = <<>>

\* Only the holder of the write lock writes, and what it puts fits.
Writing(w) ==
    /\ write_lock = w <=> wpc[w] # "idle"
    /\ write_lock # w => Done(w)
    /\ Len(byte[w]) <= 1
    /\ wpc[w] = "put" => /\ room[w] <= capacity(tx_buffer_)
                         /\ IF text[w] = <<>> THEN room[w] = 1 ELSE room[w] <= Len(text[w])

Streams(p) ==
    /\ Ordered(Sent, calls) /\ Ends(Sent, calls, p)
    /\ \A w \in Writer : Continues(w, p)
    /\ (\A w \in Writer : Done(w)) => p > 0 \/ calls = 0

TxInv ==
    /\ Ring(tx_buffer_, TxSize, Bytes) /\ Content(tx_buffer_) \in Seq(Bytes)
    /\ \A w \in Writer : Writing(w)
    /\ \E p \in Nat : Streams(p)

\* A sequence in two parts.
Split(S, c, k) ==
    /\ SubSeq(c, 1, k) \in Seq(S) /\ Len(SubSeq(c, 1, k)) = k
    /\ \A i \in 1..k : SubSeq(c, 1, k)[i] = c[i]
    /\ SubSeq(c, k + 1, Len(c)) \in Seq(S) /\ Len(SubSeq(c, k + 1, Len(c))) = Len(c) - k
    /\ \A i \in 1..Len(c) - k : SubSeq(c, k + 1, Len(c))[i] = c[k + i]
    /\ SubSeq(c, 1, k) \o SubSeq(c, k + 1, Len(c)) = c

\* The two parts of a sequence make it up.
LEMMA Splits ==
  ASSUME NEW S, NEW c \in Seq(S), NEW k \in 0..Len(c)
  PROVE  Split(S, c, k)
<1> DEFINE n == Len(c)  a == SubSeq(c, 1, k)  z == SubSeq(c, k + 1, n)
<1>0. n \in Nat /\ k \in Int /\ 1 \in Int /\ k + 1 \in Int /\ n \in Int
  OBVIOUS
<1>1. (\A i \in 1..k : c[i] \in S) /\ \A i \in k + 1..n : c[i] \in S
  <2>1. (\A i \in 1..k : i \in 1..n) /\ (\A i \in k + 1..n : i \in 1..n) /\ \A i \in 1..n : c[i] \in S
    BY <1>0
  <2> QED
    BY <2>1
<1>2. /\ a \in Seq(S) /\ Len(a) = (IF 1 <= k THEN k - 1 + 1 ELSE 0)
      /\ \A i \in 1..k - 1 + 1 : a[i] = c[1 + i - 1]
  BY <1>0, <1>1, SubSeqProperties
<1>3. /\ z \in Seq(S) /\ Len(z) = (IF k + 1 <= n THEN n - (k + 1) + 1 ELSE 0)
      /\ \A i \in 1..n - (k + 1) + 1 : z[i] = c[k + 1 + i - 1]
  BY <1>0, <1>1, SubSeqProperties
<1>4. a \o z = c
  <2>1. 1 \in 1..n + 1 /\ k \in 1 - 1..n /\ n \in k..n
    BY <1>0
  <2>2. a \o z = SubSeq(c, 1, n)
    BY <2>1, ConcatAdjacentSubSeq
  <2> QED
    BY <2>2, SubSeqFull
<1> HIDE DEF a, z, n
<1>5. Len(a) = k /\ \A i \in 1..k : a[i] = c[i]
  <2>1. k \in 0..n
    BY DEF n
  <2>2. \A i \in 1..k : i \in 1..k - 1 + 1 /\ 1 + i - 1 = i
    BY <1>0
  <2> QED
    BY <1>0, <1>2, <2>1, <2>2
<1>6. Len(z) = n - k /\ \A i \in 1..n - k : z[i] = c[k + i]
  <2>1. k \in 0..n
    BY DEF n
  <2>2. \A i \in 1..n - k : i \in 1..n - (k + 1) + 1 /\ k + 1 + i - 1 = k + i
    BY <1>0, <2>1
  <2> QED
    BY <1>0, <1>3, <2>1, <2>2
<1> QED
  BY <1>2, <1>3, <1>4, <1>5, <1>6 DEF Split, a, z, n

\* Bytes that move from the buffer to the port, and from there to the wire, stay in order.
Moved(w, p, c, a, x, y, z) == (w \o x) \o y \o z = w \o p \o c

\* What a move of bytes towards the wire does to all that is on its way.
LEMMA MovesOn ==
  ASSUME NEW S, NEW w \in Seq(S), NEW p \in Seq(S), NEW c \in Seq(S),
         NEW a \in Seq(S), NEW z \in Seq(S), a \o z = c,
         NEW x \in Seq(S), NEW y \in Seq(S), x \o y = p \o a
  PROVE  Moved(w, p, c, a, x, y, z)
<1>1. Joined(w, x, y) /\ Joined(w, p, a)
  BY Joins
<1>3. w \o p \in Seq(S)
  BY ConcatProperties
<1>4. Joined(w \o p, a, z)
  BY <1>3, Joins
<1> QED
  BY <1>1, <1>4, Zenon DEF Joined, Moved

\* The numbers a byte is made of.
LEMMA ByteParts == \A x \in Bytes : x[1] \in Nat \ {0} /\ x[2] \in Nat
<1>1. MaxCalls \in Nat /\ MaxText \in Nat
  BY SysIoAssumption
<1>2. 1..MaxCalls \subseteq Nat \ {0} /\ 1..MaxText + 1 \subseteq Nat
  BY <1>1
<1> QED
  BY <1>2 DEF Bytes

\* The next bytes of the call go to the end of the stream.
LEMMA Extend ==
  ASSUME NEW s \in Seq(Bytes), NEW u \in Seq(Bytes), NEW c \in Nat, NEW p \in Nat,
         Ordered(s, c), Ends(s, c, p), \A k \in 1..Len(u) : u[k] = <<c, p + k>>
  PROVE  Ordered(s \o u, c) /\ Ends(s \o u, c, p + Len(u))
<1> DEFINE m == Len(s)  n == Len(u)  v == s \o u
<1>1. /\ m \in Nat /\ n \in Nat /\ v \in Seq(Bytes) /\ Len(v) = m + n
      /\ \A i \in 1..m : v[i] = s[i]
      /\ \A i \in m + 1..m + n : v[i] = u[i - m]
  BY ConcatProperties
<1>2. \A i \in m + 1..m + n : v[i] = <<c, p + (i - m)>>
  BY <1>1
<1>6. \A j \in 1..n : v[m + j] = <<c, p + j>>
  <2>1. \A j \in 1..n : m + j \in m + 1..m + n /\ m + j - m = j
    BY <1>1
  <2> QED
    BY <1>1, <2>1
<1>3. \A i \in 1..m : s[i][1] \in Nat /\ s[i][2] \in Nat
  BY ByteParts
<1>4. CASE n = 0
  <2>1. v = s
    BY <1>4
  <2> QED
    BY <1>4, <2>1
<1>5. CASE n > 0
  <2> HIDE DEF v, m, n
  <2>1. ASSUME NEW i \in 1..m + n PROVE v[i][1] <= c
    <3>1. CASE i \in 1..m
      BY <1>1, <3>1 DEF Ordered, m
    <3>2. CASE i \in m + 1..m + n
      <4>1. v[i] = <<c, p + (i - m)>>
        BY <1>2, <3>2
      <4> QED
        BY <4>1
    <3> QED
      BY <1>1, <3>1, <3>2
  <2>2. ASSUME NEW i \in 1..m + n - 1 PROVE Follows(v[i], v[i + 1])
    <3>1. CASE i < m
      <4>1. v[i] = s[i] /\ v[i + 1] = s[i + 1] /\ i \in 1..Len(s) - 1
        <5>1. i \in 1..m /\ i + 1 \in 1..m /\ i \in 1..m - 1
          BY <1>1, <3>1
        <5> QED
          BY <1>1, <5>1, Zenon DEF m
      <4> QED
        BY <4>1 DEF Ordered
    <3>2. CASE i = m
      <4>1. v[i] = s[m] /\ v[i + 1] = <<c, p + 1>> /\ m > 0 /\ s # <<>>
        <5>1. m \in 1..m /\ 1 \in 1..n /\ m > 0
          BY <1>1, <1>5, <3>2
        <5>2. s # <<>>
          BY <5>1 DEF m
        <5>3. v[m] = s[m] /\ v[m + 1] = <<c, p + 1>>
          BY <1>1, <1>6, <5>1
        <5> QED
          BY <3>2, <5>1, <5>2, <5>3
      <4>2. CASE s[m] = <<c, p>>
        BY <4>1, <4>2 DEF Follows
      <4>3. CASE p = 0 /\ s[m][1] = c - 1
        <5>1. s[m][1] + 1 = c /\ p + 1 = 1
          BY <4>3
        <5> QED
          BY <4>1, <5>1 DEF Follows
      <4> QED
        BY <4>1, <4>2, <4>3 DEF Ends, m
    <3>3. CASE i > m
      <4> DEFINE j == i - m  q == p + j
      <4>1. j \in 1..n /\ j + 1 \in 1..n /\ m + j = i /\ m + (j + 1) = i + 1 /\ p + (j + 1) = q + 1
        BY <1>1, <3>3
      <4>2. v[i] = <<c, q>> /\ v[i + 1] = <<c, p + (j + 1)>>
        <5> HIDE DEF j
        <5>1. v[m + j] = <<c, p + j>>
          BY <1>6, <4>1
        <5>2. v[m + (j + 1)] = <<c, p + (j + 1)>>
          BY <1>6, <4>1
        <5> QED
          BY <4>1, <5>1, <5>2
      <4> HIDE DEF j, q
      <4>3. v[i + 1] = <<c, q + 1>>
        BY <4>1, <4>2
      <4> QED
        BY <4>2, <4>3 DEF Follows
    <3> QED
      BY <1>1, <3>1, <3>2, <3>3
  <2>3. v[m + n] = <<c, p + n>> /\ m + n > 0 /\ p + n > 0
    <3>1. m + n \in m + 1..m + n /\ p + (m + n - m) = p + n
      BY <1>1, <1>5
    <3> QED
      BY <1>1, <1>2, <1>5, <3>1
  <2>4. Ordered(v, c)
    BY <1>1, <2>1, <2>2 DEF Ordered
  <2>5. v # <<>>
    BY <1>1, <2>3
  <2>6. Ends(v, c, p + n)
    BY <1>1, <2>3, <2>5 DEF Ends
  <2> QED
    BY <2>4, <2>6 DEF v, n
<1> QED
  BY <1>1, <1>4, <1>5

\* What the port is fed leaves the buffer and is still to be sent.
Fed(raised) ==
    /\ Ring(tx_buffer_', TxSize, Bytes) /\ Content(tx_buffer_') \in Seq(Bytes)
    /\ capacity(tx_buffer_) <= capacity(tx_buffer_')
    /\ port_tx' \in Seq(Bytes) /\ wire' \in Seq(Bytes) /\ Sent' = Sent
    /\ tx_sending_' \in BOOLEAN /\ irq' \subseteq raised \cup {"TX"}

\* The loop of trigger_send and of the transmit interrupt loses and swaps nothing.
LEMMA Feeds ==
  ASSUME TypeOK, TxInv, NEW raised, Feed(raised)
  PROVE  Fed(raised)
<1> DEFINE b == tx_buffer_  c == Content(b)
<1>0. /\ TxSize \in Nat \ {0} /\ TxDepth \in Nat
      /\ Ring(b, TxSize, Bytes) /\ c \in Seq(Bytes) /\ port_tx \in Seq(Bytes) /\ wire \in Seq(Bytes)
  BY SysIoAssumption DEF TxInv, TypeOK
<1>1. View(b, TxSize, Bytes)
  BY <1>0, RingView
<1>2. Len(c) = size_(b) /\ size_(b) \in 0..TxSize /\ capacity(b) = TxSize - size_(b)
  BY <1>1 DEF View
<1>3. PICK k \in 1..size_(b) :
        LET got == GetEach(b, k)
            all == port_tx \o got.dest
            out == IF Len(all) > TxDepth THEN Len(all) - TxDepth ELSE 0
        IN  /\ b' = got.ring
            /\ tx_sending_' = TRUE
            /\ port_tx' = SubSeq(all, out + 1, Len(all))
            /\ wire' = wire \o SubSeq(all, 1, out)
            /\ irq' = IF out > 0 THEN raised \cup {"TX"} ELSE raised
  BY DEF Feed
<1> DEFINE a == SubSeq(c, 1, k)  z == SubSeq(c, k + 1, Len(c))  all == port_tx \o a
           out == IF Len(all) > TxDepth THEN Len(all) - TxDepth ELSE 0
           x == SubSeq(all, 1, out)  y == SubSeq(all, out + 1, Len(all))
<1>4. k \in 0..size_(b) /\ k \in 0..Len(c)
  BY <1>2
<1>5. Takes(b, TxSize, Bytes, k)
  BY <1>0, <1>4, GetsOldest
<1>6. Ring(b', TxSize, Bytes) /\ Content(b') = z /\ GetEach(b, k).dest = a
  BY <1>2, <1>3, <1>5 DEF Takes
<1>7. Split(Bytes, c, k)
  BY <1>0, <1>4, Splits
<1>8. a \in Seq(Bytes) /\ z \in Seq(Bytes) /\ a \o z = c /\ Len(z) = Len(c) - k
  BY <1>7 DEF Split
<1>9. all \in Seq(Bytes) /\ out \in 0..Len(all)
  <2>1. all \in Seq(Bytes)
    <3> HIDE DEF a
    <3> QED
      BY <1>0, <1>8, ConcatProperties
  <2>2. Len(all) \in Nat
    <3> HIDE DEF all
    <3> QED
      BY <2>1
  <2> HIDE DEF all
  <2> QED
    BY <1>0, <2>1, <2>2
<1>10. Split(Bytes, all, out)
  <2> HIDE DEF all, out
  <2> QED
    BY <1>9, Splits
<1>11. x \in Seq(Bytes) /\ y \in Seq(Bytes) /\ x \o y = all
  <2> HIDE DEF all, out
  <2> QED
    BY <1>10 DEF Split
<1>12. /\ tx_sending_' = TRUE /\ port_tx' = y /\ wire' = wire \o x
       /\ irq' = IF out > 0 THEN raised \cup {"TX"} ELSE raised
  BY <1>3, <1>6, Zenon
<1>13. wire' \in Seq(Bytes)
  <2> HIDE DEF x
  <2> QED
    BY <1>0, <1>11, <1>12, ConcatProperties
<1>14. Sent' = Sent
  <2>1. Sent' = wire' \o port_tx' \o Content(b')
    BY DEF Sent
  <2>2. Sent = wire \o port_tx \o c
    BY DEF Sent
  <2> HIDE DEF a, z, x, y, b, c, out
  <2>3. Moved(wire, port_tx, c, a, x, y, z)
    BY <1>0, <1>8, <1>11, MovesOn
  <2> QED
    BY <1>6, <1>12, <2>1, <2>2, <2>3, Zenon DEF Moved
<1>15. capacity(b) <= capacity(b')
  <2>1. View(b', TxSize, Bytes)
    BY <1>0, <1>6, RingView
  <2>2. Len(Content(b')) = size_(b') /\ capacity(b') = TxSize - size_(b')
    BY <2>1 DEF View
  <2>3. size_(b') = size_(b) - k
    BY <1>2, <1>6, <1>8, <2>2
  <2> QED
    BY <1>0, <1>2, <1>4, <2>2, <2>3
<1>16. irq' \subseteq raised \cup {"TX"}
  <2> HIDE DEF out
  <2> QED
    BY <1>12
<1> QED
  BY <1>6, <1>8, <1>11, <1>12, <1>13, <1>14, <1>15, <1>16, Zenon DEF Fed

\* What does not touch the stream or what is owed keeps them.
LEMMA StreamKept ==
  ASSUME TxInv, Sent' = Sent, UNCHANGED <<calls, text, byte>>
  PROVE  \E p \in Nat : Streams(p)'
<1>1. PICK p \in Nat : Streams(p)
  BY DEF TxInv
<1>2. Streams(p)'
  BY <1>1 DEF Streams, Continues, Done
<1> QED
  BY <1>2

\* A step of the port or its interrupt keeps what the writers see.
LEMMA PortKeeps ==
  ASSUME TxInv, Ring(tx_buffer_', TxSize, Bytes), Content(tx_buffer_') \in Seq(Bytes), TypeOK,
         capacity(tx_buffer_) <= capacity(tx_buffer_'), Sent' = Sent,
         UNCHANGED <<write_lock, wpc, text, byte, room, calls>>
  PROVE  TxInv'
<1>1. \E p \in Nat : Streams(p)'
  BY StreamKept
<1>2. capacity(tx_buffer_) \in Int /\ capacity(tx_buffer_') \in Int
  <2>1. TxSize \in Nat \ {0} /\ Ring(tx_buffer_, TxSize, Bytes)
    BY SysIoAssumption DEF TxInv
  <2>2. View(tx_buffer_, TxSize, Bytes) /\ View(tx_buffer_', TxSize, Bytes)
    BY <2>1, RingView
  <2> QED
    BY <2>1, <2>2 DEF View
<1>3. ASSUME NEW w \in Writer PROVE Writing(w)'
  <2>1. Writing(w) /\ room[w] \in Int
    BY SysIoAssumption DEF TxInv, TypeOK
  <2>2. room[w] <= capacity(tx_buffer_) => room[w] <= capacity(tx_buffer_')
    BY <1>2, <2>1
  <2> QED
    BY <2>1, <2>2, Zenon DEF Writing, Done
<1> QED
  BY <1>1, <1>3 DEF TxInv

\* Nothing of the transmit side changes.
LEMMA TxKept ==
  ASSUME TypeOK, TxInv, UNCHANGED <<tx_buffer_, write_lock, wpc, text, byte, room, port_tx, wire, calls>>
  PROVE  TxInv'
<1>1. Sent' = Sent
  BY DEF Sent
<1>2. \E p \in Nat : Streams(p)'
  BY <1>1, StreamKept
<1>3. ASSUME NEW w \in Writer PROVE Writing(w)'
  BY DEF TxInv, Writing, Done
<1> QED
  BY <1>2, <1>3 DEF TxInv

\* A byte leaves the port.
LEMMA Shifts ==
  ASSUME TypeOK, TxInv, Shift
  PROVE  TxInv' /\ port_tx' \in Seq(Bytes) /\ wire' \in Seq(Bytes)
<1> DEFINE h == Head(port_tx)  t == Tail(port_tx)  c == Content(tx_buffer_)
<1>1. port_tx \in Seq(Bytes) /\ wire \in Seq(Bytes) /\ c \in Seq(Bytes) /\ port_tx # <<>>
  BY DEF TxInv, TypeOK, Shift
<1>2. /\ wire' = Append(wire, h) /\ port_tx' = t
      /\ UNCHANGED <<tx_buffer_, write_lock, wpc, text, byte, room, calls>>
  BY DEF Shift
<1>3. h \in Bytes /\ t \in Seq(Bytes) /\ Len(t) = Len(port_tx) - 1 /\ \A i \in 1..Len(t) : t[i] = port_tx[i + 1]
  BY <1>1, HeadTailProperties
<1>4. Append(wire, h) \in Seq(Bytes)
  BY <1>1, <1>3
<1>5. Append(wire, h) \o t = wire \o port_tx
  <2>1. <<h>> \o t = port_tx
    BY <1>1
  <2>2. Append(wire, h) = wire \o <<h>> /\ <<h>> \in Seq(Bytes)
    BY <1>1, <1>3, AppendIsConcat
  <2>3. Joined(wire, <<h>>, t)
    BY <1>1, <1>3, <2>2, Joins
  <2> QED
    BY <2>1, <2>2, <2>3, Zenon DEF Joined
<1>6. Sent' = Sent
  BY <1>2, <1>5, Zenon DEF Sent
<1>7. \E p \in Nat : Streams(p)'
  BY <1>2, <1>6, StreamKept
<1>8. ASSUME NEW w \in Writer PROVE Writing(w)'
  BY <1>2 DEF TxInv, Writing, Done
<1> QED
  BY <1>2, <1>3, <1>4, <1>7, <1>8 DEF TxInv

\* The stream between two calls.
LEMMA NewCall ==
  ASSUME NEW s \in Seq(Bytes), NEW c \in Nat, NEW p \in Nat, Ordered(s, c), Ends(s, c, p), p > 0 \/ c = 0
  PROVE  Ordered(s, c + 1) /\ Ends(s, c + 1, 0)
<1>1. \A i \in 1..Len(s) : s[i][1] \in Nat \ {0}
  BY ByteParts
<1>2. Ordered(s, c + 1)
  <2>1. \A i \in 1..Len(s) : s[i][1] <= c + 1
    BY <1>1 DEF Ordered
  <2> QED
    BY <2>1 DEF Ordered
<1>3. CASE s = <<>>
  BY <1>2, <1>3 DEF Ends
<1>4. CASE s # <<>>
  <2>1. Len(s) \in 1..Len(s)
    BY <1>4
  <2>2. s[Len(s)][1] = c
    <3>1. CASE p > 0
      <4>1. s[Len(s)] = <<c, p>>
        BY <1>4, <3>1 DEF Ends
      <4> QED
        BY <4>1
    <3>2. CASE c = 0
      <4>1. s[Len(s)][1] <= c
        BY <2>1 DEF Ordered
      <4> QED
        BY <1>1, <2>1, <3>2, <4>1
    <3> QED
      BY <3>1, <3>2
  <2>3. c + 1 - 1 = c
    OBVIOUS
  <2> QED
    BY <1>2, <1>4, <2>2, <2>3 DEF Ends
<1> QED
  BY <1>3, <1>4

\* One writer holds the lock: the others have nothing to write.
LEMMA OneWrites ==
  ASSUME TypeOK, TxInv, NEW w \in Writer, wpc[w] # "idle"
  PROVE  write_lock = w /\ \A u \in Writer \ {w} : Done(u) /\ wpc[u] = "idle"
BY DEF TxInv, Writing

\* A write call takes the lock, and its bytes come next.
LEMMA Writes ==
  ASSUME TypeOK, TxInv, NEW w \in Writer, NEW n \in 0..MaxText, NEW newline \in BOOLEAN, Write(w, n, newline)
  PROVE  /\ TxInv' /\ calls' \in 0..MaxCalls
         /\ text' \in [Writer -> Seq(Bytes)] /\ byte' \in [Writer -> Seq(Bytes)]
<1> DEFINE c == calls + 1  t == [i \in 1..n |-> <<c, i>>]
           e == IF newline THEN << <<c, n + 1>> >> ELSE <<>>
<1>1. /\ calls < MaxCalls /\ wpc[w] = "idle" /\ write_lock = Nobody /\ (n > 0 \/ newline)
      /\ write_lock' = w /\ calls' = c
      /\ text' = [text EXCEPT ![w] = t] /\ byte' = [byte EXCEPT ![w] = e]
      /\ wpc' = [wpc EXCEPT ![w] = "check"] /\ UNCHANGED <<tx_buffer_, room, port_tx, wire>>
  BY DEF Write
<1>2. /\ calls \in Nat /\ MaxCalls \in Nat /\ MaxText \in Nat /\ n \in Nat /\ c \in 1..MaxCalls
      /\ text \in [Writer -> Seq(Bytes)] /\ byte \in [Writer -> Seq(Bytes)]
      /\ wpc \in [Writer -> {"idle", "check", "put", "trigger"}]
  <2>1. MaxCalls \in Nat /\ MaxText \in Nat
    BY SysIoAssumption
  <2>2. /\ calls \in 0..MaxCalls
        /\ text \in [Writer -> Seq(Bytes)] /\ byte \in [Writer -> Seq(Bytes)]
        /\ wpc \in [Writer -> {"idle", "check", "put", "trigger"}]
    BY DEF TypeOK
  <2>3. calls < MaxCalls
    BY <1>1
  <2>4. calls \in Nat /\ n \in Nat /\ c \in 1..MaxCalls
    BY <2>1, <2>2, <2>3
  <2> QED
    BY <2>1, <2>2, <2>4
<1>3. t \in Seq(Bytes) /\ Len(t) = n /\ \A k \in 1..n : t[k] = <<c, 0 + k>>
  <2>1. \A k \in 1..n : <<c, k>> \in Bytes /\ 0 + k = k
    BY <1>2 DEF Bytes
  <2> HIDE DEF c
  <2> QED
    BY <1>2, <2>1
<1>4. e \in Seq(Bytes) /\ Len(e) <= 1 /\ \A k \in 1..Len(e) : e[k] = <<c, 0 + n + k>>
  <2>1. <<c, n + 1>> \in Bytes /\ 0 + n + 1 = n + 1
    BY <1>2 DEF Bytes
  <2> HIDE DEF c
  <2>2. CASE newline
    <3>1. e = << <<c, n + 1>> >>
      BY <2>2
    <3>2. Len(e) = 1 /\ e[1] = <<c, n + 1>> /\ e \in Seq(Bytes)
      BY <2>1, <3>1
    <3> QED
      BY <2>1, <3>2
  <2>3. CASE ~newline
    BY <2>3
  <2> QED
    BY <2>2, <2>3
<1>5. t # <<>> \/ e # <<>>
  <2>1. CASE n > 0
    <3> HIDE DEF t, e
    <3> QED
      BY <1>3, <2>1
  <2>2. CASE newline
    BY <2>2
  <2> QED
    BY <1>1, <2>1, <2>2
<1> HIDE DEF t, e
<1>6. \A u \in Writer : Done(u) /\ wpc[u] = "idle"
  <2>1. \A u \in Writer : write_lock # u
    BY <1>1, SysIoAssumption
  <2> QED
    BY <1>2, <2>1 DEF TxInv, Writing
<1>7. /\ text'[w] = t /\ byte'[w] = e /\ wpc'[w] = "check"
      /\ \A u \in Writer \ {w} : text'[u] = <<>> /\ byte'[u] = <<>> /\ wpc'[u] = "idle"
  BY <1>1, <1>2, <1>6 DEF Done
<1>8. ASSUME NEW u \in Writer PROVE Writing(u)'
  <2>1. CASE u = w
    BY <1>1, <1>4, <1>7, <2>1 DEF Writing
  <2>2. CASE u # w
    BY <1>1, <1>7, <2>2 DEF Writing, Done
  <2> QED
    BY <2>1, <2>2
<1>9. PICK p \in Nat : Streams(p)
  BY DEF TxInv
<1>10. Ordered(Sent, calls) /\ Ends(Sent, calls, p) /\ (p > 0 \/ calls = 0)
  BY <1>6, <1>9 DEF Streams
<1>11. Sent \in Seq(Bytes)
  <2>1. wire \o port_tx \in Seq(Bytes) /\ Content(tx_buffer_) \in Seq(Bytes)
    BY DEF TypeOK, TxInv
  <2> QED
    BY <2>1, ConcatProperties DEF Sent
<1>12. Ordered(Sent, c) /\ Ends(Sent, c, 0)
  BY <1>2, <1>10, <1>11, NewCall
<1>13. ASSUME NEW u \in Writer PROVE Continues(u, 0)'
  <2>1. CASE u = w
    BY <1>1, <1>3, <1>4, <1>7, <2>1 DEF Continues
  <2>2. CASE u # w
    BY <1>7, <2>2 DEF Continues
  <2> QED
    BY <2>1, <2>2
<1>14. ~(\A u \in Writer : Done(u)')
  BY <1>5, <1>7 DEF Done
<1>15. Sent' = Sent
  BY <1>1 DEF Sent
<1>16. Streams(0)'
  BY <1>1, <1>12, <1>13, <1>14, <1>15 DEF Streams
<1>17. Ring(tx_buffer_', TxSize, Bytes) /\ Content(tx_buffer_') \in Seq(Bytes)
  BY <1>1 DEF TxInv
<1>18. TxInv'
  BY <1>8, <1>16, <1>17 DEF TxInv
<1> QED
  BY <1>1, <1>2, <1>3, <1>4, <1>18

\* The room that is looked up is there and is not more than is needed.
LEMMA Checks ==
  ASSUME TypeOK, TxInv, NEW w \in Writer, Check(w)
  PROVE  TxInv' /\ room' \in [Writer -> 0..TxSize]
<1> DEFINE n == IF text[w] = <<>> THEN 1 ELSE Len(text[w])  c == capacity(tx_buffer_)  m == IF c < n THEN c ELSE n
<1>1. /\ wpc[w] = "check" /\ (text[w] # <<>> \/ c > 0)
      /\ room' = [room EXCEPT ![w] = m] /\ wpc' = [wpc EXCEPT ![w] = "put"]
      /\ UNCHANGED <<tx_buffer_, write_lock, text, byte, port_tx, wire, calls>>
  BY DEF Check
<1>2. /\ wpc \in [Writer -> {"idle", "check", "put", "trigger"}] /\ room \in [Writer -> 0..TxSize]
      /\ text[w] \in Seq(Bytes) /\ n \in Nat
  BY DEF TypeOK
<1>3. c \in 0..TxSize /\ TxSize \in Nat
  <2>1. TxSize \in Nat \ {0} /\ Ring(tx_buffer_, TxSize, Bytes)
    BY SysIoAssumption DEF TxInv
  <2>2. View(tx_buffer_, TxSize, Bytes)
    BY <2>1, RingView
  <2> QED
    BY <2>1, <2>2 DEF View
<1>4. m \in 0..TxSize /\ m <= c /\ m <= n /\ (n = 1 /\ c > 0 => m = 1)
  <2> HIDE DEF n, c
  <2> QED
    BY <1>2, <1>3
<1>5. m <= c /\ IF text[w] = <<>> THEN m = 1 ELSE m <= Len(text[w])
  <2> HIDE DEF m
  <2> QED
    BY <1>1, <1>4
<1> HIDE DEF m
<1>6. ASSUME NEW u \in Writer PROVE Writing(u)'
  <2>0. Writing(u) /\ Writing(w)
    BY DEF TxInv
  <2>1. CASE u = w
    <3>1. wpc'[u] = "put" /\ room'[u] = m
      BY <1>1, <1>2, <2>1
    <3> QED
      BY <1>1, <1>5, <2>0, <2>1, <3>1, Zenon DEF Writing, Done
  <2>2. CASE u # w
    <3>1. wpc'[u] = wpc[u] /\ room'[u] = room[u]
      BY <1>1, <1>2, <2>2
    <3> QED
      BY <1>1, <2>0, <3>1, Zenon DEF Writing, Done
  <2> QED
    BY <2>1, <2>2
<1>7. Sent' = Sent
  BY <1>1 DEF Sent
<1>8. \E p \in Nat : Streams(p)'
  BY <1>1, <1>7, StreamKept
<1>9. Ring(tx_buffer_', TxSize, Bytes) /\ Content(tx_buffer_') \in Seq(Bytes)
  BY <1>1 DEF TxInv
<1> QED
  BY <1>1, <1>2, <1>4, <1>6, <1>8, <1>9 DEF TxInv

\* What fits is put behind what is there.
LEMMA PutFits ==
  ASSUME TxInv, NEW u \in Seq(Bytes), Len(u) <= capacity(tx_buffer_), tx_buffer_' = put(tx_buffer_, u),
         UNCHANGED <<port_tx, wire>>, TypeOK
  PROVE  /\ Ring(tx_buffer_', TxSize, Bytes) /\ Content(tx_buffer_') \in Seq(Bytes)
         /\ Sent \in Seq(Bytes) /\ Sent' = Sent \o u
<1> DEFINE b == tx_buffer_  c == Content(b)  q == c \o u
<1>0. TxSize \in Nat \ {0} /\ Ring(b, TxSize, Bytes) /\ c \in Seq(Bytes) /\ wire \in Seq(Bytes) /\ port_tx \in Seq(Bytes)
  BY SysIoAssumption DEF TxInv, TypeOK
<1>1. View(b, TxSize, Bytes)
  BY <1>0, RingView
<1>2. Len(c) = size_(b) /\ size_(b) \in 0..TxSize /\ capacity(b) = TxSize - size_(b)
  BY <1>1 DEF View
<1>3. Ring(b', TxSize, Bytes) /\ Content(b') = Newest(TxSize, q)
  BY <1>0, PutNewest
<1>4. q \in Seq(Bytes) /\ Len(q) = Len(c) + Len(u)
  <2> HIDE DEF c
  <2> QED
    BY <1>0, ConcatProperties
<1>5. ~(Len(q) > TxSize)
  <2>1. Len(u) \in Nat
    OBVIOUS
  <2> HIDE DEF q, c, b
  <2> QED
    BY <1>0, <1>2, <1>4, <2>1 DEF b
<1>6. Newest(TxSize, q) = q
  <2> HIDE DEF q
  <2>1. Newest(TxSize, q) = SubSeq(q, 1, Len(q))
    BY <1>5 DEF Newest
  <2> QED
    BY <1>4, <2>1, SubSeqFull
<1>7. wire \o port_tx \in Seq(Bytes)
  BY <1>0, ConcatProperties
<1>8. Sent = (wire \o port_tx) \o c /\ Sent' = (wire \o port_tx) \o q
  BY <1>3, <1>6, Zenon DEF Sent
<1>9. Joined(wire \o port_tx, c, u)
  <2> HIDE DEF c
  <2> QED
    BY <1>0, <1>7, Joins
<1>10. Sent \in Seq(Bytes)
  <2> HIDE DEF c
  <2> QED
    BY <1>0, <1>7, <1>8, ConcatProperties
<1>11. Sent' = Sent \o u
  BY <1>8, <1>9, Zenon DEF Joined
<1> QED
  BY <1>3, <1>4, <1>6, <1>10, <1>11

\* A writer has put its next bytes: the holder of the lock is still in its call.
LEMMA PutKeeps ==
  ASSUME TypeOK, TxInv, NEW w \in Writer, wpc[w] = "put", NEW u \in Seq(Bytes), NEW p \in Nat, Streams(p),
         Len(u) <= capacity(tx_buffer_), tx_buffer_' = put(tx_buffer_, u),
         UNCHANGED <<port_tx, wire, calls, write_lock, room>>,
         wpc' = [wpc EXCEPT ![w] = "trigger"],
         NEW t \in Seq(Bytes), NEW e \in Seq(Bytes), Len(e) <= 1,
         text' = [text EXCEPT ![w] = t], byte' = [byte EXCEPT ![w] = e],
         \A k \in 1..Len(u) : u[k] = <<calls, p + k>>,
         \A k \in 1..Len(t) : t[k] = <<calls, p + Len(u) + k>>,
         \A k \in 1..Len(e) : e[k] = <<calls, p + Len(u) + Len(t) + k>>,
         t = <<>> /\ e = <<>> => p + Len(u) > 0 \/ calls = 0
  PROVE  TxInv' /\ text' \in [Writer -> Seq(Bytes)] /\ byte' \in [Writer -> Seq(Bytes)]
<1> DEFINE q == p + Len(u)
<1>0. /\ calls \in Nat /\ q \in Nat
      /\ text \in [Writer -> Seq(Bytes)] /\ byte \in [Writer -> Seq(Bytes)]
      /\ wpc \in [Writer -> {"idle", "check", "put", "trigger"}]
  <2>1. calls \in Nat
    BY SysIoAssumption DEF TypeOK
  <2>2. q \in Nat
    OBVIOUS
  <2>3. /\ text \in [Writer -> Seq(Bytes)] /\ byte \in [Writer -> Seq(Bytes)]
        /\ wpc \in [Writer -> {"idle", "check", "put", "trigger"}]
    BY DEF TypeOK
  <2> HIDE DEF q
  <2> QED
    BY <2>1, <2>2, <2>3
<1>1. write_lock = w /\ \A x \in Writer \ {w} : Done(x) /\ wpc[x] = "idle"
  BY OneWrites
<1>2. /\ Ring(tx_buffer_', TxSize, Bytes) /\ Content(tx_buffer_') \in Seq(Bytes)
      /\ Sent \in Seq(Bytes) /\ Sent' = Sent \o u
  BY PutFits
<1>3. Ordered(Sent', calls) /\ Ends(Sent', calls, q)
  <2>1. Ordered(Sent, calls) /\ Ends(Sent, calls, p)
    BY DEF Streams
  <2>2. Ordered(Sent \o u, calls) /\ Ends(Sent \o u, calls, p + Len(u))
    <3> DEFINE s == Sent
    <3>1. s \in Seq(Bytes) /\ Ordered(s, calls) /\ Ends(s, calls, p)
      BY <1>2, <2>1
    <3> HIDE DEF s
    <3>2. Ordered(s \o u, calls) /\ Ends(s \o u, calls, p + Len(u))
      BY <1>0, <3>1, Extend
    <3> QED
      BY <3>2 DEF s
  <2> QED
    BY <1>2, <2>2
<1>4. /\ text'[w] = t /\ byte'[w] = e /\ wpc'[w] = "trigger"
      /\ \A x \in Writer \ {w} : text'[x] = <<>> /\ byte'[x] = <<>> /\ wpc'[x] = "idle"
  BY <1>0, <1>1 DEF Done
<1>5. ASSUME NEW x \in Writer PROVE Writing(x)'
  <2>1. CASE x = w
    BY <1>1, <1>4, <2>1 DEF Writing
  <2>2. CASE x # w
    BY <1>1, <1>4, <2>2 DEF Writing, Done
  <2> QED
    BY <2>1, <2>2
<1>10. /\ \A k \in 1..Len(t) : t[k] = <<calls, q + k>>
       /\ \A k \in 1..Len(e) : e[k] = <<calls, q + Len(t) + k>>
       /\ calls' = calls
  OBVIOUS
<1> HIDE DEF q
<1>6. ASSUME NEW x \in Writer PROVE Continues(x, q)'
  <2>1. CASE x = w
    <3>1. (\A k \in 1..Len(text'[w]) : text'[w][k] = <<calls', q + k>>)
      BY <1>4, <1>10, Zenon
    <3>2. \A k \in 1..Len(byte'[w]) : byte'[w][k] = <<calls', q + Len(text'[w]) + k>>
      BY <1>4, <1>10, Zenon
    <3> QED
      BY <2>1, <3>1, <3>2, Zenon DEF Continues
  <2>2. CASE x # w
    BY <1>4, <2>2 DEF Continues
  <2> QED
    BY <2>1, <2>2
<1>7. (\A x \in Writer : Done(x)') => q > 0 \/ calls = 0
  BY <1>4 DEF Done, q
<1>8. Streams(q)'
  BY <1>3, <1>6, <1>7 DEF Streams
<1>9. TxInv'
  BY <1>0, <1>2, <1>5, <1>8 DEF TxInv
<1> QED
  BY <1>0, <1>9

\* A put adds the next bytes of the call, without overwriting any.
LEMMA Puts ==
  ASSUME TypeOK, TxInv, NEW w \in Writer, Put(w)
  PROVE  TxInv' /\ text' \in [Writer -> Seq(Bytes)] /\ byte' \in [Writer -> Seq(Bytes)]
<1> DEFINE x == text[w]  r == room[w]
<1>0. /\ wpc[w] = "put" /\ wpc' = [wpc EXCEPT ![w] = "trigger"]
      /\ UNCHANGED <<write_lock, room, port_tx, wire, calls>>
  BY DEF Put
<1>1. /\ x \in Seq(Bytes) /\ byte[w] \in Seq(Bytes) /\ r \in Nat /\ Len(byte[w]) <= 1 /\ calls \in Nat
      /\ text \in [Writer -> Seq(Bytes)] /\ byte \in [Writer -> Seq(Bytes)]
  <2>1. TxSize \in Nat /\ MaxCalls \in Nat
    BY SysIoAssumption
  <2>2. /\ text \in [Writer -> Seq(Bytes)] /\ byte \in [Writer -> Seq(Bytes)]
        /\ room \in [Writer -> 0..TxSize] /\ calls \in 0..MaxCalls
    BY DEF TypeOK
  <2>3. Len(byte[w]) <= 1
    BY DEF TxInv, Writing
  <2> QED
    BY <2>1, <2>2, <2>3
<1>2. r <= capacity(tx_buffer_) /\ IF x = <<>> THEN r = 1 ELSE r <= Len(x)
  BY <1>0 DEF TxInv, Writing
<1>3. PICK p \in Nat : Streams(p)
  BY DEF TxInv
<1>4. /\ \A k \in 1..Len(x) : x[k] = <<calls, p + k>>
      /\ \A k \in 1..Len(byte[w]) : byte[w][k] = <<calls, p + Len(x) + k>>
  BY <1>3 DEF Streams, Continues
<1>5. x = <<>> /\ byte[w] = <<>> => p > 0 \/ calls = 0
  <2>1. \A u \in Writer \ {w} : Done(u)
    BY <1>0, OneWrites
  <2>2. ASSUME x = <<>>, byte[w] = <<>> PROVE \A u \in Writer : Done(u)
    BY <2>1, <2>2 DEF Done
  <2> QED
    BY <1>3, <2>2 DEF Streams
<1>6. CASE x # <<>>
  <2> DEFINE u == SubSeq(x, 1, r)  t == SubSeq(x, r + 1, Len(x))  e == byte[w]
  <2>1. tx_buffer_' = put(tx_buffer_, u) /\ text' = [text EXCEPT ![w] = t] /\ byte' = [byte EXCEPT ![w] = e]
    BY <1>1, <1>6 DEF Put
  <2>2. r \in 0..Len(x)
    BY <1>1, <1>2, <1>6
  <2>3. Split(Bytes, x, r)
    BY <1>1, <2>2, Splits
  <2>4. /\ u \in Seq(Bytes) /\ Len(u) = r /\ (\A i \in 1..r : u[i] = x[i])
        /\ t \in Seq(Bytes) /\ Len(t) = Len(x) - r /\ \A i \in 1..Len(x) - r : t[i] = x[r + i]
    BY <2>3 DEF Split
  <2> HIDE DEF u, t, e, x, r
  <2>5. \A k \in 1..Len(u) : u[k] = <<calls, p + k>>
    <3>1. \A k \in 1..r : k \in 1..Len(x)
      BY <1>1, <2>2
    <3> QED
      BY <1>4, <2>4, <3>1
  <2>6. \A k \in 1..Len(t) : t[k] = <<calls, p + Len(u) + k>>
    <3>1. \A k \in 1..Len(x) - r : r + k \in 1..Len(x) /\ p + (r + k) = p + r + k
      BY <1>1, <2>2
    <3> QED
      BY <1>4, <2>4, <3>1
  <2>7. \A k \in 1..Len(e) : e[k] = <<calls, p + Len(u) + Len(t) + k>>
    <3>1. p + Len(u) + Len(t) = p + Len(x)
      BY <1>1, <2>2, <2>4
    <3> QED
      BY <1>4, <3>1, Zenon DEF e
  <2>8. t = <<>> /\ e = <<>> => p + Len(u) > 0 \/ calls = 0
    <3> SUFFICES ASSUME t = <<>> PROVE p + Len(u) > 0
      OBVIOUS
    <3>1. Len(t) = 0 /\ Len(x) \in Nat /\ Len(x) # 0
      BY <1>1, <1>6
    <3> QED
      BY <1>1, <2>2, <2>4, <3>1
  <2>9. e \in Seq(Bytes) /\ Len(e) <= 1 /\ Len(u) <= capacity(tx_buffer_)
    BY <1>1, <1>2, <2>4 DEF e
  <2> QED
    BY <1>0, <1>3, <2>1, <2>4, <2>5, <2>6, <2>7, <2>8, <2>9, PutKeeps
<1>7. CASE x = <<>>
  <2> DEFINE u == byte[w]  t == <<>>  e == <<>>
  <2>1. tx_buffer_' = put(tx_buffer_, u) /\ text' = [text EXCEPT ![w] = t] /\ byte' = [byte EXCEPT ![w] = e]
    BY <1>1, <1>7 DEF Put
  <2>2. u \in Seq(Bytes) /\ t \in Seq(Bytes) /\ e \in Seq(Bytes) /\ Len(e) <= 1 /\ Len(t) = 0 /\ Len(e) = 0
    BY <1>1
  <2>3. \A k \in 1..Len(u) : u[k] = <<calls, p + k>>
    <3>1. p + Len(x) = p
      BY <1>7
    <3> QED
      BY <1>4, <3>1
  <2>4. Len(u) <= capacity(tx_buffer_)
    <3>1. capacity(tx_buffer_) \in Int
      <4>1. TxSize \in Nat \ {0} /\ Ring(tx_buffer_, TxSize, Bytes)
        BY SysIoAssumption DEF TxInv
      <4>2. View(tx_buffer_, TxSize, Bytes)
        BY <4>1, RingView
      <4> QED
        BY <4>1, <4>2 DEF View
    <3>2. Len(u) \in Nat /\ Len(u) <= 1 /\ 1 <= capacity(tx_buffer_)
      BY <1>1, <1>2, <1>7
    <3> HIDE DEF u
    <3> QED
      BY <3>1, <3>2
  <2>5. t = <<>> /\ e = <<>> => p + Len(u) > 0 \/ calls = 0
    <3>1. u = <<>> \/ Len(u) > 0
      BY <1>1
    <3>2. Len(u) \in Nat
      BY <1>1
    <3> HIDE DEF u
    <3> QED
      BY <1>5, <1>7, <3>1, <3>2 DEF u
  <2>6. /\ \A k \in 1..Len(t) : t[k] = <<calls, p + Len(u) + k>>
        /\ \A k \in 1..Len(e) : e[k] = <<calls, p + Len(u) + Len(t) + k>>
    BY <2>2
  <2> HIDE DEF u, t, e
  <2> QED
    BY <1>0, <1>3, <2>1, <2>2, <2>3, <2>4, <2>5, <2>6, PutKeeps
<1> QED
  BY <1>6, <1>7

\* trigger_send, and the end of the call when nothing is left of it.
LEMMA Triggers ==
  ASSUME TypeOK, TxInv, NEW w \in Writer, Trigger(w)
  PROVE  /\ TxInv' /\ port_tx' \in Seq(Bytes) /\ wire' \in Seq(Bytes)
         /\ tx_sending_' \in BOOLEAN /\ irq' \subseteq {"RX", "TX"}
<1>1. /\ wpc[w] = "trigger"
      /\ wpc' = [wpc EXCEPT ![w] = IF Done(w) THEN "idle" ELSE "check"]
      /\ write_lock' = IF Done(w) THEN Nobody ELSE write_lock
      /\ UNCHANGED <<text, byte, room, calls>>
  BY DEF Trigger, Done, CallEnds
<1>2. wpc \in [Writer -> {"idle", "check", "put", "trigger"}]
  BY DEF TypeOK
<1>3. write_lock = w /\ \A u \in Writer \ {w} : Done(u) /\ wpc[u] = "idle"
  BY <1>1, OneWrites
<1>4. /\ Ring(tx_buffer_', TxSize, Bytes) /\ Content(tx_buffer_') \in Seq(Bytes) /\ Sent' = Sent
      /\ port_tx' \in Seq(Bytes) /\ wire' \in Seq(Bytes)
      /\ tx_sending_' \in BOOLEAN /\ irq' \subseteq {"RX", "TX"}
  <2>1. CASE Feed(irq)
    <3>1. Fed(irq)
      BY <2>1, Feeds
    <3>2. irq \subseteq {"RX", "TX"}
      BY DEF TypeOK
    <3> QED
      BY <3>1, <3>2 DEF Fed
  <2>2. CASE UNCHANGED <<tx_buffer_, tx_sending_, port_tx, wire, irq>>
    BY <2>2 DEF TxInv, TypeOK, Sent
  <2> QED
    BY <2>1, <2>2 DEF Trigger
<1>5. ASSUME NEW u \in Writer PROVE Writing(u)'
  <2>0. Nobody \notin Writer /\ Len(byte[u]) <= 1
    BY SysIoAssumption DEF TxInv, Writing
  <2>1. CASE u = w
    <3>1. wpc'[u] = IF Done(w) THEN "idle" ELSE "check"
      BY <1>1, <1>2, <2>1
    <3>2. Done(u)' <=> Done(u)
      BY <1>1 DEF Done
    <3> QED
      BY <1>1, <1>3, <2>0, <2>1, <3>1, <3>2 DEF Writing
  <2>2. CASE u # w
    <3>1. wpc'[u] = "idle" /\ Done(u)' /\ write_lock' # u
      BY <1>1, <1>2, <1>3, <2>0, <2>2 DEF Done
    <3> QED
      BY <1>1, <2>0, <3>1 DEF Writing
  <2> QED
    BY <2>1, <2>2
<1>6. \E p \in Nat : Streams(p)'
  BY <1>1, <1>4, StreamKept
<1> QED
  BY <1>4, <1>5, <1>6 DEF TxInv

\* The transmit interrupt feeds the port, or finds nothing to send.
LEMMA TxInterrupt ==
  ASSUME TypeOK, TxInv, serial_irq_tx_cb
  PROVE  /\ TxInv' /\ port_tx' \in Seq(Bytes) /\ wire' \in Seq(Bytes)
         /\ tx_sending_' \in BOOLEAN /\ irq' \subseteq {"RX", "TX"}
<1>0. irq \subseteq {"RX", "TX"} /\ UNCHANGED <<write_lock, wpc, text, byte, room, calls>>
  BY DEF TypeOK, serial_irq_tx_cb
<1>1. CASE tx_sending_' = FALSE /\ irq' = irq \ {"TX"} /\ UNCHANGED <<tx_buffer_, port_tx, wire>>
  <2>1. TxInv'
    BY <1>0, <1>1, TxKept
  <2> QED
    BY <1>0, <1>1, <2>1 DEF TypeOK
<1>2. CASE Feed(irq \ {"TX"})
  <2>1. Fed(irq \ {"TX"})
    BY <1>2, Feeds
  <2>2. TxInv'
    BY <1>0, <2>1, PortKeeps DEF Fed
  <2> QED
    BY <1>0, <2>1, <2>2 DEF Fed
<1> QED
  BY <1>1, <1>2 DEF serial_irq_tx_cb

-----------------------------------------------------------------------------
(* Both sides together.                                                     *)

\* The part of the type invariant that each direction keeps.
TxType ==
    /\ tx_buffer_ \in Rings(TxSize, Bytes) /\ tx_sending_ \in BOOLEAN
    /\ write_lock \in Writer \cup {Nobody}
    /\ wpc \in [Writer -> {"idle", "check", "put", "trigger"}]
    /\ text \in [Writer -> Seq(Bytes)] /\ byte \in [Writer -> Seq(Bytes)]
    /\ room \in [Writer -> 0..TxSize]
    /\ port_tx \in Seq(Bytes) /\ wire \in Seq(Bytes)
    /\ calls \in 0..MaxCalls

RxType ==
    /\ rx_buffer_ \in Rings(RxSize, 1..MaxBytes)
    /\ lost \in BOOLEAN /\ detected \in BOOLEAN /\ skewed \in BOOLEAN /\ misread \in BOOLEAN
    /\ read_lock \in Reader \cup {Nobody} /\ port_rx \in Seq(1..MaxBytes)
    /\ arrived \in 0..MaxBytes /\ stored \in 0..arrived

\* The type invariant, by direction.
LEMMA TypeParts == TypeOK <=> TxType /\ RxType /\ irq \subseteq {"RX", "TX"}
BY DEF TypeOK, TxType, RxType

\* Every step keeps the transmit side right.
LEMMA TxStep ==
  ASSUME TypeOK, TxInv, [Next]_vars
  PROVE  TxInv' /\ TxType' /\ irq' \subseteq {"RX", "TX"}
<1>0. TxType /\ irq \subseteq {"RX", "TX"}
  BY TypeParts
<1>1. ASSUME NEW w \in Writer, NEW n \in 0..MaxText, NEW newline \in BOOLEAN, Write(w, n, newline)
      PROVE  TxInv' /\ TxType' /\ irq' \subseteq {"RX", "TX"}
  <2>1. /\ TxInv' /\ calls' \in 0..MaxCalls
        /\ text' \in [Writer -> Seq(Bytes)] /\ byte' \in [Writer -> Seq(Bytes)]
    BY <1>1, Writes
  <2>2. /\ write_lock' = w /\ wpc' = [wpc EXCEPT ![w] = "check"]
        /\ UNCHANGED <<tx_buffer_, tx_sending_, room, port_tx, wire, irq>>
    BY <1>1 DEF Write
  <2> QED
    BY <1>0, <2>1, <2>2 DEF TxType
<1>2. ASSUME NEW w \in Writer, Check(w) PROVE TxInv' /\ TxType' /\ irq' \subseteq {"RX", "TX"}
  <2>1. TxInv' /\ room' \in [Writer -> 0..TxSize]
    BY <1>2, Checks
  <2>2. /\ wpc' = [wpc EXCEPT ![w] = "put"]
        /\ UNCHANGED <<tx_buffer_, tx_sending_, write_lock, text, byte, port_tx, wire, calls, irq>>
    BY <1>2 DEF Check
  <2> QED
    BY <1>0, <2>1, <2>2 DEF TxType
<1>3. ASSUME NEW w \in Writer, Put(w) PROVE TxInv' /\ TxType' /\ irq' \subseteq {"RX", "TX"}
  <2>1. TxInv' /\ text' \in [Writer -> Seq(Bytes)] /\ byte' \in [Writer -> Seq(Bytes)]
    BY <1>3, Puts
  <2>2. tx_buffer_' \in Rings(TxSize, Bytes)
    BY <2>1 DEF TxInv, Ring
  <2>3. /\ wpc' = [wpc EXCEPT ![w] = "trigger"]
        /\ UNCHANGED <<tx_sending_, write_lock, room, port_tx, wire, calls, irq>>
    BY <1>3 DEF Put
  <2> QED
    BY <1>0, <2>1, <2>2, <2>3 DEF TxType
<1>4. ASSUME NEW w \in Writer, Trigger(w) PROVE TxInv' /\ TxType' /\ irq' \subseteq {"RX", "TX"}
  <2>1. /\ TxInv' /\ port_tx' \in Seq(Bytes) /\ wire' \in Seq(Bytes)
        /\ tx_sending_' \in BOOLEAN /\ irq' \subseteq {"RX", "TX"}
    BY <1>4, Triggers
  <2>2. tx_buffer_' \in Rings(TxSize, Bytes)
    BY <2>1 DEF TxInv, Ring
  <2>3. UNCHANGED <<text, byte, room, calls>>
    BY <1>4 DEF Trigger
  <2>4. write_lock' \in Writer \cup {Nobody} /\ wpc' \in [Writer -> {"idle", "check", "put", "trigger"}]
    BY <1>0, <1>4 DEF Trigger, TxType
  <2> QED
    BY <1>0, <2>1, <2>2, <2>3, <2>4 DEF TxType
<1>5. CASE Shift
  <2>1. TxInv' /\ port_tx' \in Seq(Bytes) /\ wire' \in Seq(Bytes)
    BY <1>5, Shifts
  <2>2. /\ irq' = irq \cup {"TX"}
        /\ UNCHANGED <<tx_buffer_, tx_sending_, write_lock, wpc, text, byte, room, calls>>
    BY <1>5 DEF Shift
  <2> QED
    BY <1>0, <2>1, <2>2 DEF TxType
<1>6. CASE serial_irq_tx_cb
  <2>1. /\ TxInv' /\ port_tx' \in Seq(Bytes) /\ wire' \in Seq(Bytes)
        /\ tx_sending_' \in BOOLEAN /\ irq' \subseteq {"RX", "TX"}
    BY <1>6, TxInterrupt
  <2>2. tx_buffer_' \in Rings(TxSize, Bytes)
    BY <2>1 DEF TxInv, Ring
  <2>3. UNCHANGED <<write_lock, wpc, text, byte, room, calls>>
    BY <1>6 DEF serial_irq_tx_cb
  <2> QED
    BY <1>0, <2>1, <2>2, <2>3 DEF TxType
<1>7. CASE UNCHANGED txvars /\ irq' \subseteq {"RX", "TX"}
  <2>1. UNCHANGED <<tx_buffer_, tx_sending_, write_lock, wpc, text, byte, room, port_tx, wire, calls>>
    BY <1>7 DEF txvars
  <2>2. TxInv'
    BY <2>1, TxKept
  <2> QED
    BY <1>0, <1>7, <2>1, <2>2 DEF TxType
<1>8. CASE \/ Arrive \/ serial_irq_rx_cb \/ TryReadByte \/ UNCHANGED vars
           \/ \E r \in Reader : ReadByte(r) \/ ReadByteGets(r)
           \/ \E n \in 2..RxSize : ReadBytes(n)
  <2>1. UNCHANGED txvars /\ irq' \subseteq {"RX", "TX"}
    BY <1>0, <1>8 DEF Arrive, serial_irq_rx_cb, TryReadByte, ReadByte, ReadByteGets, ReadBytes, Get, vars
  <2> QED
    BY <1>7, <2>1
<1> QED
  BY <1>1, <1>2, <1>3, <1>4, <1>5, <1>6, <1>8 DEF Next

\* Every step keeps the types of the receive side.
LEMMA RxTypeStep ==
  ASSUME TypeOK, RxInv, RxInv', [Next]_vars
  PROVE  RxType'
<1>0. RxType /\ rx_buffer_' \in Rings(RxSize, 1..MaxBytes) /\ MaxBytes \in Nat
  BY TypeParts, SysIoAssumption DEF RxInv, Ring
<1>1. CASE Arrive
  <2>1. /\ arrived < MaxBytes /\ arrived' = arrived + 1 /\ port_rx' = Append(port_rx, arrived + 1)
        /\ UNCHANGED <<read_lock, stored, lost, detected, skewed, misread>>
    BY <1>1 DEF Arrive
  <2>2. arrived' \in 0..MaxBytes /\ arrived + 1 \in 1..MaxBytes /\ stored \in 0..arrived'
    BY <1>0, <2>1 DEF RxType
  <2> QED
    BY <1>0, <2>1, <2>2 DEF RxType
<1>2. CASE serial_irq_rx_cb
  <2>1. stored' = arrived
    BY <1>2, Receives
  <2>2. port_rx' = <<>> /\ UNCHANGED <<read_lock, arrived, skewed, misread>>
    BY <1>2 DEF serial_irq_rx_cb
  <2>3. lost' \in BOOLEAN /\ detected' \in BOOLEAN
    BY <1>2, Zenon DEF serial_irq_rx_cb
  <2>4. arrived \in Nat /\ stored' \in 0..arrived'
    BY <1>0, <2>1, <2>2 DEF RxType
  <2> QED
    BY <1>0, <2>2, <2>3, <2>4 DEF RxType
<1>3. ASSUME NEW n, Get(n), read_lock' \in Reader \cup {Nobody} PROVE RxType'
  <2>1. UNCHANGED <<port_rx, arrived, stored, lost, detected>>
    BY <1>3 DEF Get
  <2>2. misread' \in BOOLEAN /\ skewed' \in BOOLEAN
    BY <1>3, Zenon DEF Get
  <2> QED
    BY <1>0, <1>3, <2>1, <2>2 DEF RxType
<1>4. CASE \E r \in Reader : ReadByte(r)
  BY <1>0, <1>4 DEF ReadByte, RxType
<1>5. CASE (\E r \in Reader : ReadByteGets(r)) \/ TryReadByte \/ \E n \in 2..RxSize : ReadBytes(n)
  <2>1. \E n : Get(n) /\ read_lock' \in Reader \cup {Nobody}
    BY <1>0, <1>5 DEF ReadByteGets, TryReadByte, ReadBytes, RxType
  <2> QED
    BY <1>3, <2>1
<1>6. CASE \/ \E w \in Writer : \/ \E n \in 0..MaxText, newline \in BOOLEAN : Write(w, n, newline)
                                \/ Check(w) \/ Put(w) \/ Trigger(w)
           \/ Shift \/ serial_irq_tx_cb \/ UNCHANGED vars
  <2>1. UNCHANGED rxvars
    BY <1>6 DEF Write, Check, Put, Trigger, Shift, serial_irq_tx_cb, vars
  <2> QED
    BY <1>0, <2>1 DEF rxvars, RxType
<1> QED
  BY <1>1, <1>2, <1>4, <1>5, <1>6 DEF Next

\* A new ring buffer holds nothing.
LEMMA EmptyRing ==
  ASSUME NEW T, NEW N \in Nat \ {0}
  PROVE  Ring(Empty(N), N, T) /\ Content(Empty(N)) = <<>>
<1>1. Ring(Empty(N), N, T)
  BY DEF Ring, Rings, Empty
<1>2. View(Empty(N), N, T)
  BY <1>1, RingView
<1>3. empty_(Empty(N))
  BY DEF empty_, Empty
<1>4. Len(Content(Empty(N))) = 0 /\ Content(Empty(N)) \in Seq(T \cup {Stale})
  BY <1>2, <1>3 DEF View
<1>5. Content(Empty(N)) = <<>>
  <2> DEFINE c == Content(Empty(N))
  <2> HIDE DEF c
  <2>1. Len(c) = 0 /\ c \in Seq(T \cup {Stale})
    BY <1>4 DEF c
  <2>2. c = <<>>
    BY <2>1
  <2> QED
    BY <2>2 DEF c
<1> QED
  BY <1>1, <1>5

\* All of it holds when pw_sys_io_init is done.
LEMMA Starts ==
  ASSUME Init
  PROVE  TypeOK /\ TxInv /\ RxInv /\ Queue!Init
<1>0. /\ TxSize \in Nat \ {0} /\ RxSize \in Nat \ {0} /\ MaxCalls \in Nat /\ MaxBytes \in Nat /\ RxDepth \in Nat
      /\ Nobody \notin Writer
  BY SysIoAssumption
<1>1. /\ Ring(tx_buffer_, TxSize, Bytes) /\ Content(tx_buffer_) = <<>>
      /\ Ring(rx_buffer_, RxSize, 1..MaxBytes) /\ Content(rx_buffer_) = <<>>
  BY <1>0, EmptyRing DEF Init
<1>2. TxType
  <2>1. tx_buffer_ \in Rings(TxSize, Bytes)
    BY <1>1 DEF Ring
  <2>2. 0 \in 0..TxSize /\ 0 \in 0..MaxCalls /\ <<>> \in Seq(Bytes)
    BY <1>0
  <2> QED
    BY <2>1, <2>2 DEF TxType, Init
<1>3. RxType
  <2>1. rx_buffer_ \in Rings(RxSize, 1..MaxBytes)
    BY <1>1 DEF Ring
  <2>2. 0 \in 0..MaxBytes /\ 0 \in 0..0 /\ <<>> \in Seq(1..MaxBytes)
    BY <1>0
  <2> QED
    BY <2>1, <2>2 DEF RxType, Init
<1>4. TypeOK
  BY <1>2, <1>3, TypeParts DEF Init
<1>5. \A w \in Writer : Writing(w) /\ Done(w)
  BY <1>0 DEF Writing, Done, Init
<1>6. Sent = <<>>
  <2>1. <<>> \o <<>> \o <<>> = <<>>
    OBVIOUS
  <2> QED
    BY <1>1, <2>1 DEF Init, Sent
<1>7. Streams(0)
  <2>1. Ordered(<<>>, 0) /\ Ends(<<>>, 0, 0)
    BY DEF Ordered, Ends
  <2>2. \A w \in Writer : Continues(w, 0)
    BY DEF Continues, Init
  <2> QED
    BY <1>6, <2>1, <2>2 DEF Streams, Init
<1>8. TxInv
  BY <1>1, <1>5, <1>7 DEF TxInv
<1>9. RxInv
  BY <1>0, <1>1 DEF RxInv, Init
<1>10. Queue!Init
  BY <1>1 DEF Queue!Init, Init
<1> QED
  BY <1>4, <1>8, <1>9, <1>10

\* Type correctness and what makes it and the properties inductive, both directions.
SysIoInv == TypeOK /\ TxInv /\ RxInv

\* Every step of Next keeps the invariant, and is a step of the queue or none.
LEMMA SysIoStep ==
  ASSUME SysIoInv, [Next]_vars
  PROVE  SysIoInv' /\ [Queue!Next]_(Queue!vars)
<1>1. TypeOK /\ TxInv /\ RxInv
  BY DEF SysIoInv
<1>2. RxInv' /\ [Queue!Next]_(Queue!vars)
  BY <1>1, RxStep
<1>3. TxInv' /\ TxType' /\ irq' \subseteq {"RX", "TX"}
  BY <1>1, TxStep
<1>4. RxType'
  BY <1>1, <1>2, RxTypeStep
<1>5. TypeOK'
  BY <1>3, <1>4 DEF TypeOK, TxType, RxType
<1> QED
  BY <1>2, <1>3, <1>5 DEF SysIoInv

\* The serial system I/O keeps its types and both inductive invariants: only the
\* holder of the write lock puts bytes and they fit, bytes wait in the port in the
\* order they arrived.
THEOREM SysIoSafe == Spec => []SysIoInv
<1>1. Init => SysIoInv
  BY Starts DEF SysIoInv
<1>2. SysIoInv /\ [Next]_vars => SysIoInv'
  BY SysIoStep
<1> QED
  BY <1>1, <1>2, PTL DEF Spec

\* LinesWhole: written bytes reach the port call by call, each call whole and in order,
\* for every number of writers, buffer size, text length and interrupt timing.
THEOREM LinesSafe == Spec => []LinesWhole
<1>1. SysIoInv => LinesWhole
  <2> SUFFICES ASSUME TypeOK, TxInv PROVE LinesWhole
    BY DEF SysIoInv
  <2>1. PICK p \in Nat : Streams(p)
    BY DEF TxInv
  <2>2. Ordered(Sent, calls) /\ \A w \in Writer : Continues(w, p)
    BY <2>1 DEF Streams
  <2>3. Sent \in Seq(Bytes) /\ calls \in Nat
    <3>1. wire \o port_tx \in Seq(Bytes) /\ Content(tx_buffer_) \in Seq(Bytes)
      BY DEF TypeOK, TxInv
    <3>2. calls \in Nat
      BY SysIoAssumption DEF TypeOK
    <3> QED
      BY <3>1, <3>2, ConcatProperties DEF Sent
  <2> DEFINE s == Sent
  <2>4. s \in Seq(Bytes) /\ Ordered(s, calls)
    BY <2>2, <2>3
  <2> SUFFICES ASSUME NEW i \in 1..Len(s) - 1
               PROVE  \/ s[i + 1] = <<s[i][1], s[i][2] + 1>>
                      \/ /\ s[i + 1] = <<s[i][1] + 1, 1>>
                         /\ \A w \in Writer : \A k \in 1..Len(byte[w]) : byte[w][k][1] > s[i][1]
                         /\ \A w \in Writer : \A k \in 1..Len(text[w]) : text[w][k][1] > s[i][1]
    BY DEF LinesWhole
  <2> HIDE DEF s
  <2>5. i \in 1..Len(s) /\ i + 1 \in 1..Len(s) /\ Len(s) \in Nat
    BY <2>4
  <2>6. Follows(s[i], s[i + 1]) /\ s[i + 1][1] <= calls
    BY <2>4, <2>5 DEF Ordered
  <2>7. s[i][1] \in Nat
    BY <2>4, <2>5, ByteParts
  <2>8. CASE s[i + 1] = <<s[i][1] + 1, 1>>
    <3>1. calls > s[i][1]
      BY <2>3, <2>6, <2>7, <2>8
    <3>2. ASSUME NEW w \in Writer, NEW k \in 1..Len(byte[w]) PROVE byte[w][k][1] = calls
      <4>1. byte[w][k] = <<calls, p + Len(text[w]) + k>>
        BY <2>2 DEF Continues
      <4> QED
        BY <4>1
    <3>3. ASSUME NEW w \in Writer, NEW k \in 1..Len(text[w]) PROVE text[w][k][1] = calls
      <4>1. text[w][k] = <<calls, p + k>>
        BY <2>2 DEF Continues
      <4> QED
        BY <4>1
    <3> QED
      BY <2>8, <3>1, <3>2, <3>3
  <2> QED
    BY <2>6, <2>8 DEF Follows
<1> QED
  BY <1>1, SysIoSafe, PTL

\* ReadsAccounted: no received byte is overwritten without the overflow branch, and no
\* read gives other than the oldest bytes but by the one-piece copy, for every buffer,
\* chunk and port size.
THEOREM ReadsSafe == Spec => []ReadsAccounted
<1>1. SysIoInv => ReadsAccounted
  BY DEF SysIoInv, RxInv, ReadsAccounted, LossDetected, ReadsOldest
<1> QED
  BY <1>1, SysIoSafe, PTL

\* ReceiveIsQueue: the receive ring buffer implements the queue that drops its oldest
\* bytes, wherever its indices wrap and however a received block is cut in spans.
THEOREM RefinesQueue == Spec => ReceiveIsQueue
<1>1. Init => Queue!Init
  BY Starts
<1>2. SysIoInv /\ [Next]_vars => [Queue!Next]_(Queue!vars)
  BY SysIoStep
<1> QED
  BY <1>1, <1>2, SysIoSafe, PTL DEF Spec, ReceiveIsQueue, Queue!Spec
=============================================================================
