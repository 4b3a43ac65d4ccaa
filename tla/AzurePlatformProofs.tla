------------------------ MODULE AzurePlatformProofs ------------------------
(***************************************************************************)
(* Proofs about the Azure port: its platform and NTP client, for a queue   *)
(* of any length and any number of deinits that fail; its threads, for any *)
(* number of contexts and any set of thread ids; and its socket adapter,   *)
(* for any set of instances, buffer sizes and bounds.                      *)
(***************************************************************************)
EXTENDS AzurePlatform, ThreadApi, SocketIo, SequenceTheorems, TLAPS

\* Something went wrong since the client was initialised: a wait timed out, or a
\* queue, network or timer call failed.
InTrouble == "late" \in troubles \/ "fault" \in troubles
Queued(e) == \E i \in 1..Len(queue) : queue[i] = e
StopOnce == \A i, j \in 1..Len(queue) : queue[i] = "STOP" /\ queue[j] = "STOP" => i = j
Uninitialised == state = "UNINITIALISED"
Ending == pc \in {"cleanup", "deinit"}
\* platform_init has not come to iotNtpClientAddListener.
Early == pc \in {"idle", "net_check", "net_wait", "net_recheck", "add"}

Places == {"idle", "net_check", "net_wait", "net_recheck", "add", "start",
           "starting", "time_wait", "clear", "ready", "cleanup", "deinit"}
TaskPlaces == {"none", "wait", "start", "exchange", "arm", "stop", "report", "last", "end"}
ScalarsTyped ==
    /\ state \in {"UNINITIALISED", "STOPPED", "RUNNING"}
    /\ error \in Results /\ err \in Results /\ ret \in Results
    /\ time \in {0, 1} /\ failures \in Nat
    /\ call \in {"none", "start", "stop", "terminate", "terminating"}
    /\ tpc \in TaskPlaces
    /\ socket \in {"ESOCK", "open", "invalid"}
BooleansTyped ==
    /\ thread \in BOOLEAN /\ working \in BOOLEAN /\ started \in BOOLEAN /\ timer \in BOOLEAN
SetsTyped ==
    /\ flags \subseteq Flags
    /\ undefined \subseteq {"deleted", "listener", "stale"}
    /\ troubles \subseteq Troubles
OwnTyped ==
    /\ pc \in Places
    /\ res \in {"none", "OK", "FAILURE"}
    /\ alive \in BOOLEAN /\ network_up \in BOOLEAN /\ network_task \in BOOLEAN
    /\ event_flags \subseteq {"NETWORK_CHANGE", "TIME_READY"}
Typed == queue \in Seq(Events) /\ ScalarsTyped /\ BooleansTyped /\ SetsTyped /\ OwnTyped

\* A client that is not initialised has no objects and no task.
Fresh ==
    /\ thread <=> ~Uninitialised
    /\ Uninitialised => listeners = <<"none">> /\ flags = {} /\ queue = <<>>
    /\ Uninitialised /\ undefined = {} => tpc = "none"

\* What the task's locals and flags say of each other.
TaskInv ==
    /\ tpc = "none" => ~timer
    /\ "TERMINATED" \in flags => tpc = "none"
    /\ "START" \in flags \/ timer => started

\* An error that was reported is one that happened.
ErrorInv ==
    /\ err = "ERR" \/ error = "ERR" => "fault" \in troubles
    /\ "ERROR" \in flags => error = "ERR"

\* Where the application is while it waits for the client.
CallInv ==
    /\ call = "start" <=> pc = "starting"
    /\ call \in {"stop", "terminate", "terminating"} => pc = "deinit"
    /\ call # "none" => ~Uninitialised

\* Until something goes wrong each event and each flag belongs to the call that
\* waits for it: none is left over for a later one.
AnswersInv ==
    InTrouble \/
    /\ "START" \in flags => call = "start"
    /\ ~started /\ (tpc \in {"start", "exchange", "arm"} \/ Queued("START") \/ Queued("GET_TIME"))
         => call = "start"
    /\ "STOP" \in flags \/ tpc = "stop" \/ Queued("STOP") => call = "stop"
    /\ "STOP" \in flags => tpc # "stop" /\ ~Queued("STOP")
    /\ tpc = "stop" => ~Queued("STOP")
    /\ StopOnce
    /\ "TERMINATED" \in flags \/ tpc \in {"last", "end"} \/ Queued("TERMINATE")
         => call = "terminating"

\* Until a deinit fails, an idle platform has no client, a list of listeners has
\* one node, and nothing but platform_deinit stops the task.
TidyInv ==
    failures = 0 =>
        /\ ~alive \/ pc = "idle" \/ (pc = "deinit" /\ call = "none") => Uninitialised
        /\ listeners = <<"none">> \/ (listeners = <<"callback">> /\ ~Early)
        /\ ~Ending => ~Queued("STOP") /\ ~Queued("TERMINATE") /\ tpc \notin {"stop", "last", "end"}
        /\ pc # "idle" /\ ~Ending /\ started => timer \/ "retried" \in troubles

\* The platform's flags and result.
ReadyInv ==
    /\ pc \in {"time_wait", "clear", "ready"} => state = "RUNNING"
    /\ "TIME_READY" \in event_flags /\ ~Ending => time # 0
    /\ pc \in {"clear", "ready"} => time # 0
    /\ (pc = "idle" \/ Ending) /\ res = "OK" => ~network_up

PlatformInv ==
    /\ Typed /\ Fresh /\ TaskInv /\ ErrorInv /\ CallInv /\ AnswersInv /\ TidyInv /\ ReadyInv
    /\ TeardownSafe /\ RunningMeansAnswered

-----------------------------------------------------------------------------
(* The list of listeners.                                                   *)

\* The first listener of a new client takes the node of the list's head.
LEMMA FirstListener ==
  ASSUME listeners = <<"none">>
  PROVE  /\ "none" \in Range(listeners)
         /\ [listeners EXCEPT ![SelectInSeq(listeners, LAMBDA c : c = "none")] = "callback"]
              = <<"callback">>
<1>1. listeners[1] = "none" /\ DOMAIN listeners = 1..1 /\ Len(listeners) = 1
  OBVIOUS
<1>2. "none" \in Range(listeners)
  BY <1>1 DEF Range
<1>3. {i \in 1..Len(listeners) : listeners[i] = "none"} = {1}
  BY <1>1
<1>4. Min({1}) = 1
  BY DEF Min
<1>5. SelectInSeq(listeners, LAMBDA c : c = "none") = 1
  BY <1>3, <1>4 DEF SelectInSeq
<1> QED
  BY <1>2, <1>5

\* A list of one node has no garbage in it.
LEMMA NoGarbage ==
  ASSUME listeners \in {<<"none">>, <<"callback">>}
  PROVE  "garbage" \notin Called
<1>1. CASE listeners = <<"none">>
  <2>1. listeners[1] = "none" /\ Len(listeners) = 1
    BY <1>1
  <2>2. {i \in 1..Len(listeners) : listeners[i] = "none"} = {1}
    BY <2>1
  <2>3. Min({1}) = 1
    BY DEF Min
  <2>4. SelectInSeq(listeners, LAMBDA c : c = "none") = 1
    BY <2>2, <2>3 DEF SelectInSeq
  <2>5. Called = Range(SubSeq(listeners, 1, 1 - 1))
    BY <2>4 DEF Called
  <2>6. DOMAIN SubSeq(listeners, 1, 1 - 1) = {}
    BY <1>1
  <2> QED
    BY <2>5, <2>6 DEF Range
<1>2. CASE listeners = <<"callback">>
  <2>1. listeners[1] = "callback" /\ Len(listeners) = 1 /\ DOMAIN listeners = 1..1
    BY <1>2
  <2>2. {i \in 1..Len(listeners) : listeners[i] = "none"} = {}
    BY <2>1
  <2>3. SelectInSeq(listeners, LAMBDA c : c = "none") = 0
    BY <2>2 DEF SelectInSeq
  <2> QED
    BY <2>1, <2>3 DEF Called, Range
<1> QED
  BY <1>1, <1>2

-----------------------------------------------------------------------------
(* The event queue.                                                         *)

\* osMessageQueuePut adds its event at the end, or nothing.
LEMMA PutEvent ==
  ASSUME queue \in Seq(Events), NEW e \in Events, Put(e)
  PROVE  /\ queue' \in Seq(Events)
         /\ \A x : Queued(x)' => Queued(x) \/ x = e
         /\ StopOnce /\ (e # "STOP" \/ ~Queued("STOP")) => StopOnce'
<1>1. CASE HasRoom
  <2>1. queue' = Append(queue, e)
    BY <1>1 DEF Put
  <2>2. /\ queue' \in Seq(Events) /\ Len(queue') = Len(queue) + 1 /\ queue'[Len(queue) + 1] = e
        /\ \A i \in 1..Len(queue) : queue'[i] = queue[i]
    BY <2>1
  <2>3. \A i \in 1..Len(queue') : i \in 1..Len(queue) \/ i = Len(queue) + 1
    BY <2>2
  <2> QED
    BY <2>2, <2>3 DEF Queued, StopOnce
<1>2. CASE ~HasRoom
  BY <1>2 DEF Put, Queued, StopOnce
<1> QED
  BY <1>1, <1>2

\* The task takes the first event.
LEMMA TakeEvent ==
  ASSUME queue \in Seq(Events), queue # <<>>, queue' = Tail(queue)
  PROVE  /\ queue' \in Seq(Events) /\ Head(queue) \in Events
         /\ Queued(Head(queue))
         /\ \A x : Queued(x)' => Queued(x)
         /\ StopOnce => StopOnce'
         /\ StopOnce /\ Head(queue) = "STOP" => ~Queued("STOP")'
<1>1. /\ queue' \in Seq(Events) /\ Len(queue') = Len(queue) - 1
      /\ \A i \in 1..Len(queue') : i + 1 \in 1..Len(queue) /\ queue'[i] = queue[i + 1]
      /\ 1 \in 1..Len(queue) /\ Head(queue) = queue[1] /\ queue[1] \in Events
  OBVIOUS
<1>2. ASSUME NEW x, Queued(x)' PROVE Queued(x)
  BY <1>1, <1>2 DEF Queued
<1>3. ASSUME StopOnce PROVE StopOnce'
  BY <1>1, <1>3 DEF StopOnce
<1>4. ASSUME StopOnce, Head(queue) = "STOP" PROVE ~Queued("STOP")'
  <2> SUFFICES ASSUME NEW i \in 1..Len(queue'), queue'[i] = "STOP" PROVE FALSE
    BY DEF Queued
  <2>1. i + 1 \in 1..Len(queue) /\ queue[i + 1] = "STOP" /\ queue[1] = "STOP" /\ i + 1 # 1
    BY <1>1, <1>4
  <2> QED
    BY <1>1, <1>4, <2>1 DEF StopOnce
<1> QED
  BY <1>1, <1>2, <1>3, <1>4 DEF Queued

\* An empty queue holds no event.
LEMMA EmptyQueue == ASSUME queue = <<>> PROVE StopOnce /\ \A x : ~Queued(x)
BY DEF Queued, StopOnce

-----------------------------------------------------------------------------
(* wait_for_ntp_event.                                                      *)

\* A wait that reports success has seen its flag alone, or timed out; one that
\* reports an error timed out, met an error, or met a flag of another wait.
LEMMA WaitResult ==
  ASSUME Typed, ErrorInv, NEW e \in {"START", "STOP", "TERMINATED"}
  PROVE  /\ wait_for_ntp_event(e) \in Results
         /\ wait_for_ntp_event(e) = "OK" /\ Flagged(e) => flags = {e}
         /\ wait_for_ntp_event(e) # "OK" /\ Flagged(e) /\ "fault" \notin troubles =>
              \E f \in {"START", "STOP", "TERMINATED"} \ {e} : f \in flags
         /\ wait_for_ntp_event(e) # "OK" /\ ~Flagged(e) => error = "ERR"
<1>1. /\ error \in Results /\ flags \subseteq Flags /\ e # "ERROR"
      /\ "ERROR" \in flags => error = "ERR" /\ "fault" \in troubles
  BY DEF Typed, ScalarsTyped, SetsTyped, ErrorInv
<1>2. CASE ~Flagged(e)
  BY <1>1, <1>2 DEF wait_for_ntp_event, Results
<1>3. CASE Flagged(e) /\ flags = {e}
  BY <1>1, <1>3 DEF wait_for_ntp_event, Results
<1>4. CASE Flagged(e) /\ flags # {e} /\ "ERROR" \in flags
  BY <1>1, <1>4 DEF wait_for_ntp_event, Results
<1>5. CASE Flagged(e) /\ flags # {e} /\ "ERROR" \notin flags
  <2>1. wait_for_ntp_event(e) = "ERR"
    BY <1>5 DEF wait_for_ntp_event
  <2>2. e \in flags
    BY <1>5 DEF Flagged, AwaitedFlags
  <2>3. PICK f \in flags : f # e
    BY <1>5, <2>2
  <2>4. f \in {"START", "STOP", "TERMINATED"} \ {e}
    BY <1>1, <1>5, <2>3 DEF Flags
  <2> QED
    BY <1>5, <2>1, <2>3, <2>4 DEF Results
<1> QED
  BY <1>2, <1>3, <1>4, <1>5

-----------------------------------------------------------------------------
(* The NTP task and its timer.                                              *)

\* The task takes an event.
LEMMA GetStep == ASSUME PlatformInv, undefined = {}, TaskGet /\ UNCHANGED own PROVE PlatformInv'
<1>0. /\ Typed /\ Fresh /\ TaskInv /\ ErrorInv /\ CallInv /\ AnswersInv /\ TidyInv /\ ReadyInv
      /\ TeardownSafe /\ RunningMeansAnswered
  BY DEF PlatformInv
<1>p. /\ tpc = "wait" /\ Head(queue) \in Events
      /\ Head(queue) = "START" => tpc' = "start"
      /\ Head(queue) = "GET_TIME" => tpc' \in {"start", "exchange"}
      /\ Head(queue) = "STOP" => tpc' = "stop"
      /\ Head(queue) = "TERMINATE" => tpc' = "last"
  BY <1>0, TakeEvent DEF TaskGet, Typed, Events
<1>q. /\ queue' \in Seq(Events) /\ Head(queue) \in Events /\ Queued(Head(queue))
      /\ (\A x : Queued(x)' => Queued(x)) /\ (StopOnce => StopOnce')
      /\ StopOnce /\ Head(queue) = "STOP" => ~Queued("STOP")'
      /\ queue # <<>>
  BY <1>0, TakeEvent DEF TaskGet, Typed
<1>u. UNCHANGED <<state, error, thread, listeners, time, flags, call, ret, failures, socket, working,
                  started, err, timer, undefined, troubles, pc, res, alive, event_flags,
                  network_up, network_task>>
  BY DEF TaskGet, context, client, locals, own
<1>1. Typed'
  <2>1. queue' \in Seq(Events)
    BY <1>0, <1>p, <1>q DEF Typed, TaskGet, Escalates, Events, context, client, locals, own,
       ntp
  <2>2. ScalarsTyped'
    BY <1>0, <1>p, <1>q DEF Typed, ScalarsTyped, TaskPlaces, Results, TaskGet, Escalates,
       Events, context, client, locals, own, ntp
  <2>3. BooleansTyped'
    BY <1>0, <1>p, <1>q DEF Typed, BooleansTyped, TaskGet, Escalates, Events, context,
       client, locals, own, ntp
  <2>4. SetsTyped'
    BY <1>0, <1>p, <1>q DEF Typed, SetsTyped, Flags, Troubles, TaskGet, Escalates, Events,
       context, client, locals, own, ntp
  <2>5. OwnTyped'
    BY <1>0, <1>p, <1>q DEF Typed, OwnTyped, Places, TaskGet, Escalates, Events, context,
       client, locals, own, ntp
  <2> QED
    BY <2>1, <2>2, <2>3, <2>4, <2>5 DEF Typed
<1>2. Fresh'
  BY <1>0, <1>p, <1>q DEF Fresh, Uninitialised, TaskGet, Escalates, Events, context, client,
     locals, own, ntp
<1>3. TaskInv'
  BY <1>0, <1>p, <1>q, <1>u DEF TaskInv, Events
<1>4. ErrorInv'
  BY <1>0 DEF ErrorInv, Results, TaskGet, Escalates, Events, context, client, locals, own,
     ntp
<1>5. CallInv'
  BY <1>0 DEF CallInv, Uninitialised, TaskGet, Escalates, Events, context, client, locals,
     own, ntp
<1>6. AnswersInv'
  BY <1>0, <1>p, <1>q, <1>u DEF AnswersInv, InTrouble, Events
<1>7. TidyInv'
  BY <1>0, <1>p, <1>q, <1>u DEF TidyInv, Uninitialised, Early, Ending, Events
<1>8. ReadyInv'
  BY <1>0 DEF ReadyInv, Ending, TaskGet, Escalates, Events, context, client, locals, own,
     ntp
<1>9. TeardownSafe'
  BY <1>0 DEF TeardownSafe, FreedUnderTaskOnlyIfLate, ListenersSafeUntilFailure,
     DeinitFailsOnlyInTrouble, TaskGet, Escalates, Events, context, client, locals, own, ntp
<1>10. RunningMeansAnswered'
  BY <1>0 DEF RunningMeansAnswered, TaskGet, Escalates, Events, context, client, locals,
     own, ntp
<1> QED
  BY <1>1, <1>2, <1>3, <1>4, <1>5, <1>6, <1>7, <1>8, <1>9, <1>10 DEF PlatformInv

\* The task opens its socket, or closes and reopens it.
LEMMA StartStep == ASSUME PlatformInv, undefined = {}, TaskStart /\ UNCHANGED own PROVE PlatformInv'
<1>0. /\ Typed /\ Fresh /\ TaskInv /\ ErrorInv /\ CallInv /\ AnswersInv /\ TidyInv /\ ReadyInv
      /\ TeardownSafe /\ RunningMeansAnswered
  BY DEF PlatformInv
<1>q. queue' = queue => (StopOnce' = StopOnce /\ \A x : Queued(x)' = Queued(x))
  BY DEF StopOnce, Queued
<1>1. Typed'
  <2>1. queue' \in Seq(Events)
    BY <1>0 DEF Typed, TaskStart, StopForRetry, Reopens, Retried, Break, context, client,
       locals, own, ntp, Note
  <2>2. ScalarsTyped'
    BY <1>0 DEF Typed, ScalarsTyped, TaskPlaces, Results, TaskStart, StopForRetry, Reopens,
       Retried, Break, context, client, locals, own, ntp, Note
  <2>3. BooleansTyped'
    BY <1>0 DEF Typed, BooleansTyped, TaskStart, StopForRetry, Reopens, Retried, Break,
       context, client, locals, own, ntp, Note
  <2>4. SetsTyped'
    BY <1>0 DEF Typed, SetsTyped, Flags, Troubles, TaskStart, StopForRetry, Reopens,
       Retried, Break, context, client, locals, own, ntp, Note
  <2>5. OwnTyped'
    BY <1>0 DEF Typed, OwnTyped, Places, TaskStart, StopForRetry, Reopens, Retried, Break,
       context, client, locals, own, ntp, Note
  <2> QED
    BY <2>1, <2>2, <2>3, <2>4, <2>5 DEF Typed
<1>2. Fresh'
  BY <1>0 DEF Fresh, Uninitialised, TaskStart, StopForRetry, Reopens, Retried, Break,
     context, client, locals, own, ntp, Note
<1>3. TaskInv'
  BY <1>0 DEF TaskInv, TaskStart, StopForRetry, Reopens, Retried, Break, context, client,
     locals, own, ntp, Note
<1>4. ErrorInv'
  BY <1>0 DEF ErrorInv, Results, TaskStart, StopForRetry, Reopens, Retried, Break, context,
     client, locals, own, ntp, Note
<1>5. CallInv'
  BY <1>0 DEF CallInv, Uninitialised, TaskStart, StopForRetry, Reopens, Retried, Break,
     context, client, locals, own, ntp, Note
<1>6. AnswersInv'
  BY <1>0, <1>q DEF AnswersInv, InTrouble, TaskStart, StopForRetry, Reopens, Retried, Break,
     context, client, locals, own, ntp, Note
<1>7. TidyInv'
  BY <1>0, <1>q DEF TidyInv, Uninitialised, Early, Ending, TaskStart, StopForRetry, Reopens,
     Retried, Break, context, client, locals, own, ntp, Note
<1>8. ReadyInv'
  BY <1>0 DEF ReadyInv, Ending, TaskStart, StopForRetry, Reopens, Retried, Break, context,
     client, locals, own, ntp, Note
<1>9. TeardownSafe'
  BY <1>0 DEF TeardownSafe, FreedUnderTaskOnlyIfLate, ListenersSafeUntilFailure,
     DeinitFailsOnlyInTrouble, TaskStart, StopForRetry, Reopens, Retried, Break, context,
     client, locals, own, ntp, Note
<1>10. RunningMeansAnswered'
  BY <1>0 DEF RunningMeansAnswered, TaskStart, StopForRetry, Reopens, Retried, Break,
     context, client, locals, own, ntp, Note
<1> QED
  BY <1>1, <1>2, <1>3, <1>4, <1>5, <1>6, <1>7, <1>8, <1>9, <1>10 DEF PlatformInv

\* The task gets no answer and puts a request of its own in the queue.
LEMMA UnansweredStep == ASSUME PlatformInv, undefined = {}, Unanswered /\ UNCHANGED own PROVE PlatformInv'
<1>0. /\ Typed /\ Fresh /\ TaskInv /\ ErrorInv /\ CallInv /\ AnswersInv /\ TidyInv /\ ReadyInv
      /\ TeardownSafe /\ RunningMeansAnswered
  BY DEF PlatformInv
<1>q. queue' \in Seq(Events) /\ (\A x : Queued(x)' => Queued(x) \/ x = "GET_TIME") /\ (StopOnce => StopOnce')
  BY <1>0, PutEvent DEF Unanswered, ntp_timer_callback, Typed, Events
<1>1. Typed'
  <2>1. queue' \in Seq(Events)
    BY <1>0, <1>q DEF Typed, Unanswered, Refused, context, client, locals, own, ntp, Note
  <2>2. ScalarsTyped'
    BY <1>0, <1>q DEF Typed, ScalarsTyped, TaskPlaces, Results, Unanswered, Refused,
       context, client, locals, own, ntp, Note
  <2>3. BooleansTyped'
    BY <1>0, <1>q DEF Typed, BooleansTyped, Unanswered, Refused, context, client, locals,
       own, ntp, Note
  <2>4. SetsTyped'
    BY <1>0, <1>q DEF Typed, SetsTyped, Flags, Troubles, Unanswered, Refused, context,
       client, locals, own, ntp, Note
  <2>5. OwnTyped'
    BY <1>0, <1>q DEF Typed, OwnTyped, Places, Unanswered, Refused, context, client, locals,
       own, ntp, Note
  <2> QED
    BY <2>1, <2>2, <2>3, <2>4, <2>5 DEF Typed
<1>2. Fresh'
  BY <1>0 DEF Fresh, Uninitialised, Unanswered, Refused, context, client, locals, own, ntp,
     Note
<1>3. TaskInv'
  BY <1>0 DEF TaskInv, Unanswered, Refused, context, client, locals, own, ntp, Note
<1>4. ErrorInv'
  BY <1>0 DEF ErrorInv, Results, Unanswered, Refused, context, client, locals, own, ntp,
     Note
<1>5. CallInv'
  BY <1>0 DEF CallInv, Uninitialised, Unanswered, Refused, context, client, locals, own,
     ntp, Note
<1>6. AnswersInv'
  BY <1>0, <1>q DEF AnswersInv, InTrouble, Unanswered, Refused, context, client, locals,
     own, ntp, Note
<1>7. TidyInv'
  BY <1>0, <1>q DEF TidyInv, Uninitialised, Early, Ending, Unanswered, Refused, context,
     client, locals, own, ntp, Note
<1>8. ReadyInv'
  BY <1>0 DEF ReadyInv, Ending, Unanswered, Refused, context, client, locals, own, ntp, Note
<1>9. TeardownSafe'
  BY <1>0 DEF TeardownSafe, FreedUnderTaskOnlyIfLate, ListenersSafeUntilFailure,
     DeinitFailsOnlyInTrouble, Unanswered, Refused, context, client, locals, own, ntp, Note
<1>10. RunningMeansAnswered'
  BY <1>0 DEF RunningMeansAnswered, Unanswered, Refused, context, client, locals, own, ntp,
     Note
<1> QED
  BY <1>1, <1>2, <1>3, <1>4, <1>5, <1>6, <1>7, <1>8, <1>9, <1>10 DEF PlatformInv

\* The exchange fails.
LEMMA FailsStep == ASSUME PlatformInv, undefined = {}, ExchangeFails /\ UNCHANGED own PROVE PlatformInv'
<1>0. /\ Typed /\ Fresh /\ TaskInv /\ ErrorInv /\ CallInv /\ AnswersInv /\ TidyInv /\ ReadyInv
      /\ TeardownSafe /\ RunningMeansAnswered
  BY DEF PlatformInv
<1>q. queue' = queue => (StopOnce' = StopOnce /\ \A x : Queued(x)' = Queued(x))
  BY DEF StopOnce, Queued
<1>1. Typed'
  <2>1. queue' \in Seq(Events)
    BY <1>0 DEF Typed, ExchangeFails, Break, context, client, locals, own, ntp, Note
  <2>2. ScalarsTyped'
    BY <1>0 DEF Typed, ScalarsTyped, TaskPlaces, Results, ExchangeFails, Break, context,
       client, locals, own, ntp, Note
  <2>3. BooleansTyped'
    BY <1>0 DEF Typed, BooleansTyped, ExchangeFails, Break, context, client, locals, own,
       ntp, Note
  <2>4. SetsTyped'
    BY <1>0 DEF Typed, SetsTyped, Flags, Troubles, ExchangeFails, Break, context, client,
       locals, own, ntp, Note
  <2>5. OwnTyped'
    BY <1>0 DEF Typed, OwnTyped, Places, ExchangeFails, Break, context, client, locals, own,
       ntp, Note
  <2> QED
    BY <2>1, <2>2, <2>3, <2>4, <2>5 DEF Typed
<1>2. Fresh'
  BY <1>0 DEF Fresh, Uninitialised, ExchangeFails, Break, context, client, locals, own, ntp,
     Note
<1>3. TaskInv'
  BY <1>0 DEF TaskInv, ExchangeFails, Break, context, client, locals, own, ntp, Note
<1>4. ErrorInv'
  BY <1>0 DEF ErrorInv, Results, ExchangeFails, Break, context, client, locals, own, ntp,
     Note
<1>5. CallInv'
  BY <1>0 DEF CallInv, Uninitialised, ExchangeFails, Break, context, client, locals, own,
     ntp, Note
<1>6. AnswersInv'
  BY <1>0, <1>q DEF AnswersInv, InTrouble, ExchangeFails, Break, context, client, locals,
     own, ntp, Note
<1>7. TidyInv'
  BY <1>0, <1>q DEF TidyInv, Uninitialised, Early, Ending, ExchangeFails, Break, context,
     client, locals, own, ntp, Note
<1>8. ReadyInv'
  BY <1>0 DEF ReadyInv, Ending, ExchangeFails, Break, context, client, locals, own, ntp,
     Note
<1>9. TeardownSafe'
  BY <1>0 DEF TeardownSafe, FreedUnderTaskOnlyIfLate, ListenersSafeUntilFailure,
     DeinitFailsOnlyInTrouble, ExchangeFails, Break, context, client, locals, own, ntp, Note
<1>10. RunningMeansAnswered'
  BY <1>0 DEF RunningMeansAnswered, ExchangeFails, Break, context, client, locals, own, ntp,
     Note
<1> QED
  BY <1>1, <1>2, <1>3, <1>4, <1>5, <1>6, <1>7, <1>8, <1>9, <1>10 DEF PlatformInv

\* An answer comes, and the listeners are called.
LEMMA AnsweredStep == ASSUME PlatformInv, undefined = {}, \E t \in {0, 1} : ntp_listener_callback(t) PROVE PlatformInv'
<1>0. /\ Typed /\ Fresh /\ TaskInv /\ ErrorInv /\ CallInv /\ AnswersInv /\ TidyInv /\ ReadyInv
      /\ TeardownSafe /\ RunningMeansAnswered
  BY DEF PlatformInv
<1>q. queue' = queue => (StopOnce' = StopOnce /\ \A x : Queued(x)' = Queued(x))
  BY DEF StopOnce, Queued
<1>1. Typed'
  <2>1. queue' \in Seq(Events)
    BY <1>0 DEF Typed, ntp_listener_callback, Answered, Listens, context, client, locals,
       own, ntp, Note
  <2>2. ScalarsTyped'
    BY <1>0 DEF Typed, ScalarsTyped, TaskPlaces, Results, ntp_listener_callback, Answered,
       Listens, context, client, locals, own, ntp, Note
  <2>3. BooleansTyped'
    BY <1>0 DEF Typed, BooleansTyped, ntp_listener_callback, Answered, Listens, context,
       client, locals, own, ntp, Note
  <2>4. SetsTyped'
    BY <1>0 DEF Typed, SetsTyped, Flags, Troubles, ntp_listener_callback, Answered, Listens,
       context, client, locals, own, ntp, Note
  <2>5. OwnTyped'
    BY <1>0 DEF Typed, OwnTyped, Places, ntp_listener_callback, Answered, Listens, context,
       client, locals, own, ntp, Note
  <2> QED
    BY <2>1, <2>2, <2>3, <2>4, <2>5 DEF Typed
<1>2. Fresh'
  BY <1>0 DEF Fresh, Uninitialised, ntp_listener_callback, Answered, Listens, context,
     client, locals, own, ntp, Note
<1>3. TaskInv'
  BY <1>0 DEF TaskInv, ntp_listener_callback, Answered, Listens, context, client, locals,
     own, ntp, Note
<1>4. ErrorInv'
  BY <1>0 DEF ErrorInv, Results, ntp_listener_callback, Answered, Listens, context, client,
     locals, own, ntp, Note
<1>5. CallInv'
  BY <1>0 DEF CallInv, Uninitialised, ntp_listener_callback, Answered, Listens, context,
     client, locals, own, ntp, Note
<1>6. AnswersInv'
  BY <1>0, <1>q DEF AnswersInv, InTrouble, ntp_listener_callback, Answered, Listens,
     context, client, locals, own, ntp, Note
<1>7. TidyInv'
  BY <1>0, <1>q DEF TidyInv, Uninitialised, Early, Ending, ntp_listener_callback, Answered,
     Listens, context, client, locals, own, ntp, Note
<1>8. ReadyInv'
  BY <1>0 DEF ReadyInv, Ending, ntp_listener_callback, Answered, Listens, context, client,
     locals, own, ntp, Note
<1>9. TeardownSafe'
  <2>1. PICK t \in {0, 1} : ntp_listener_callback(t)
    OBVIOUS
  <2>2. /\ failures' = failures /\ troubles' = troubles /\ tpc = "exchange"
        /\ \/ undefined' = {}
           \/ undefined' = (IF Listens(t) /\ ~alive THEN {"stale"} ELSE {})
                            \cup (IF "garbage" \in Called THEN {"listener"} ELSE {})
    BY <2>1 DEF ntp_listener_callback, Answered, client
  <2>3. ASSUME failures = 0 PROVE undefined' = {}
    <3>1. "garbage" \notin Called
      BY <1>0, <2>3, NoGarbage DEF TidyInv
    <3>2. alive
      BY <1>0, <2>2, <2>3 DEF TidyInv, Fresh
    <3> QED
      BY <2>2, <3>1, <3>2
  <2> QED
    BY <1>0, <2>2, <2>3 DEF Typed, ScalarsTyped, TeardownSafe, FreedUnderTaskOnlyIfLate,
       ListenersSafeUntilFailure, DeinitFailsOnlyInTrouble
<1>10. RunningMeansAnswered'
  BY <1>0 DEF RunningMeansAnswered, ntp_listener_callback, Answered, Listens, context,
     client, locals, own, ntp, Note
<1> QED
  BY <1>1, <1>2, <1>3, <1>4, <1>5, <1>6, <1>7, <1>8, <1>9, <1>10 DEF PlatformInv

\* The first answer starts the timer.
LEMMA ArmStep == ASSUME PlatformInv, undefined = {}, TaskArm /\ UNCHANGED own PROVE PlatformInv'
<1>0. /\ Typed /\ Fresh /\ TaskInv /\ ErrorInv /\ CallInv /\ AnswersInv /\ TidyInv /\ ReadyInv
      /\ TeardownSafe /\ RunningMeansAnswered
  BY DEF PlatformInv
<1>q. queue' = queue => (StopOnce' = StopOnce /\ \A x : Queued(x)' = Queued(x))
  BY DEF StopOnce, Queued
<1>1. Typed'
  <2>1. queue' \in Seq(Events)
    BY <1>0 DEF Typed, TaskArm, Armed, Break, context, client, locals, own, ntp, Note
  <2>2. ScalarsTyped'
    BY <1>0 DEF Typed, ScalarsTyped, TaskPlaces, Results, TaskArm, Armed, Break, context,
       client, locals, own, ntp, Note
  <2>3. BooleansTyped'
    BY <1>0 DEF Typed, BooleansTyped, TaskArm, Armed, Break, context, client, locals, own,
       ntp, Note
  <2>4. SetsTyped'
    BY <1>0 DEF Typed, SetsTyped, Flags, Troubles, TaskArm, Armed, Break, context, client,
       locals, own, ntp, Note
  <2>5. OwnTyped'
    BY <1>0 DEF Typed, OwnTyped, Places, TaskArm, Armed, Break, context, client, locals,
       own, ntp, Note
  <2> QED
    BY <2>1, <2>2, <2>3, <2>4, <2>5 DEF Typed
<1>2. Fresh'
  BY <1>0 DEF Fresh, Uninitialised, TaskArm, Armed, Break, context, client, locals, own,
     ntp, Note
<1>3. TaskInv'
  BY <1>0 DEF TaskInv, TaskArm, Armed, Break, context, client, locals, own, ntp, Note
<1>4. ErrorInv'
  BY <1>0 DEF ErrorInv, Results, TaskArm, Armed, Break, context, client, locals, own, ntp,
     Note
<1>5. CallInv'
  BY <1>0 DEF CallInv, Uninitialised, TaskArm, Armed, Break, context, client, locals, own,
     ntp, Note
<1>6. AnswersInv'
  BY <1>0, <1>q DEF AnswersInv, InTrouble, TaskArm, Armed, Break, context, client, locals,
     own, ntp, Note
<1>7. TidyInv'
  BY <1>0, <1>q DEF TidyInv, Uninitialised, Early, Ending, TaskArm, Armed, Break, context,
     client, locals, own, ntp, Note
<1>8. ReadyInv'
  BY <1>0 DEF ReadyInv, Ending, TaskArm, Armed, Break, context, client, locals, own, ntp,
     Note
<1>9. TeardownSafe'
  BY <1>0 DEF TeardownSafe, FreedUnderTaskOnlyIfLate, ListenersSafeUntilFailure,
     DeinitFailsOnlyInTrouble, TaskArm, Armed, Break, context, client, locals, own, ntp,
     Note
<1>10. RunningMeansAnswered'
  BY <1>0 DEF RunningMeansAnswered, TaskArm, Armed, Break, context, client, locals, own,
     ntp, Note
<1> QED
  BY <1>1, <1>2, <1>3, <1>4, <1>5, <1>6, <1>7, <1>8, <1>9, <1>10 DEF PlatformInv

\* The task stops.
LEMMA StopStep == ASSUME PlatformInv, undefined = {}, TaskStop /\ UNCHANGED own PROVE PlatformInv'
<1>0. /\ Typed /\ Fresh /\ TaskInv /\ ErrorInv /\ CallInv /\ AnswersInv /\ TidyInv /\ ReadyInv
      /\ TeardownSafe /\ RunningMeansAnswered
  BY DEF PlatformInv
<1>q. queue' = queue => (StopOnce' = StopOnce /\ \A x : Queued(x)' = Queued(x))
  BY DEF StopOnce, Queued
<1>1. Typed'
  <2>1. queue' \in Seq(Events)
    BY <1>0 DEF Typed, TaskStop, Break, context, client, locals, own, ntp, Note
  <2>2. ScalarsTyped'
    BY <1>0 DEF Typed, ScalarsTyped, TaskPlaces, Results, TaskStop, Break, context, client,
       locals, own, ntp, Note
  <2>3. BooleansTyped'
    BY <1>0 DEF Typed, BooleansTyped, TaskStop, Break, context, client, locals, own, ntp,
       Note
  <2>4. SetsTyped'
    BY <1>0 DEF Typed, SetsTyped, Flags, Troubles, TaskStop, Break, context, client, locals,
       own, ntp, Note
  <2>5. OwnTyped'
    BY <1>0 DEF Typed, OwnTyped, Places, TaskStop, Break, context, client, locals, own, ntp,
       Note
  <2> QED
    BY <2>1, <2>2, <2>3, <2>4, <2>5 DEF Typed
<1>2. Fresh'
  BY <1>0 DEF Fresh, Uninitialised, TaskStop, Break, context, client, locals, own, ntp, Note
<1>3. TaskInv'
  BY <1>0 DEF TaskInv, TaskStop, Break, context, client, locals, own, ntp, Note
<1>4. ErrorInv'
  BY <1>0 DEF ErrorInv, Results, TaskStop, Break, context, client, locals, own, ntp, Note
<1>5. CallInv'
  BY <1>0 DEF CallInv, Uninitialised, TaskStop, Break, context, client, locals, own, ntp,
     Note
<1>6. AnswersInv'
  BY <1>0, <1>q DEF AnswersInv, InTrouble, TaskStop, Break, context, client, locals, own,
     ntp, Note
<1>7. TidyInv'
  BY <1>0, <1>q DEF TidyInv, Uninitialised, Early, Ending, TaskStop, Break, context, client,
     locals, own, ntp, Note
<1>8. ReadyInv'
  BY <1>0 DEF ReadyInv, Ending, TaskStop, Break, context, client, locals, own, ntp, Note
<1>9. TeardownSafe'
  BY <1>0 DEF TeardownSafe, FreedUnderTaskOnlyIfLate, ListenersSafeUntilFailure,
     DeinitFailsOnlyInTrouble, TaskStop, Break, context, client, locals, own, ntp, Note
<1>10. RunningMeansAnswered'
  BY <1>0 DEF RunningMeansAnswered, TaskStop, Break, context, client, locals, own, ntp, Note
<1> QED
  BY <1>1, <1>2, <1>3, <1>4, <1>5, <1>6, <1>7, <1>8, <1>9, <1>10 DEF PlatformInv

\* The end of an iteration.
LEMMA ReportStep == ASSUME PlatformInv, undefined = {}, TaskReport /\ UNCHANGED own PROVE PlatformInv'
<1>0. /\ Typed /\ Fresh /\ TaskInv /\ ErrorInv /\ CallInv /\ AnswersInv /\ TidyInv /\ ReadyInv
      /\ TeardownSafe /\ RunningMeansAnswered
  BY DEF PlatformInv
<1>q. queue' = queue => (StopOnce' = StopOnce /\ \A x : Queued(x)' = Queued(x))
  BY DEF StopOnce, Queued
<1>1. Typed'
  <2>1. queue' \in Seq(Events)
    BY <1>0 DEF Typed, TaskReport, context, client, locals, own, ntp, Note
  <2>2. ScalarsTyped'
    BY <1>0 DEF Typed, ScalarsTyped, TaskPlaces, Results, TaskReport, context, client,
       locals, own, ntp, Note
  <2>3. BooleansTyped'
    BY <1>0 DEF Typed, BooleansTyped, TaskReport, context, client, locals, own, ntp, Note
  <2>4. SetsTyped'
    BY <1>0 DEF Typed, SetsTyped, Flags, Troubles, TaskReport, context, client, locals, own,
       ntp, Note
  <2>5. OwnTyped'
    BY <1>0 DEF Typed, OwnTyped, Places, TaskReport, context, client, locals, own, ntp, Note
  <2> QED
    BY <2>1, <2>2, <2>3, <2>4, <2>5 DEF Typed
<1>2. Fresh'
  BY <1>0 DEF Fresh, Uninitialised, TaskReport, context, client, locals, own, ntp, Note
<1>3. TaskInv'
  BY <1>0 DEF TaskInv, TaskReport, context, client, locals, own, ntp, Note
<1>4. ErrorInv'
  BY <1>0 DEF ErrorInv, Results, Typed, ScalarsTyped, TaskReport, context, client, locals,
     own, ntp, Note
<1>5. CallInv'
  BY <1>0 DEF CallInv, Uninitialised, TaskReport, context, client, locals, own, ntp, Note
<1>6. AnswersInv'
  BY <1>0, <1>q DEF AnswersInv, InTrouble, TaskReport, context, client, locals, own, ntp,
     Note
<1>7. TidyInv'
  BY <1>0, <1>q DEF TidyInv, Uninitialised, Early, Ending, TaskReport, context, client,
     locals, own, ntp, Note
<1>8. ReadyInv'
  BY <1>0 DEF ReadyInv, Ending, TaskReport, context, client, locals, own, ntp, Note
<1>9. TeardownSafe'
  BY <1>0 DEF TeardownSafe, FreedUnderTaskOnlyIfLate, ListenersSafeUntilFailure,
     DeinitFailsOnlyInTrouble, TaskReport, context, client, locals, own, ntp, Note
<1>10. RunningMeansAnswered'
  BY <1>0 DEF RunningMeansAnswered, TaskReport, context, client, locals, own, ntp, Note
<1> QED
  BY <1>1, <1>2, <1>3, <1>4, <1>5, <1>6, <1>7, <1>8, <1>9, <1>10 DEF PlatformInv

\* The end of the task.
LEMMA EndStep == ASSUME PlatformInv, undefined = {}, TaskEnd /\ UNCHANGED own PROVE PlatformInv'
<1>0. /\ Typed /\ Fresh /\ TaskInv /\ ErrorInv /\ CallInv /\ AnswersInv /\ TidyInv /\ ReadyInv
      /\ TeardownSafe /\ RunningMeansAnswered
  BY DEF PlatformInv
<1>q. queue' = queue => (StopOnce' = StopOnce /\ \A x : Queued(x)' = Queued(x))
  BY DEF StopOnce, Queued
<1>1. Typed'
  <2>1. queue' \in Seq(Events)
    BY <1>0 DEF Typed, TaskEnd, context, client, locals, own, ntp, Note
  <2>2. ScalarsTyped'
    BY <1>0 DEF Typed, ScalarsTyped, TaskPlaces, Results, TaskEnd, context, client, locals,
       own, ntp, Note
  <2>3. BooleansTyped'
    BY <1>0 DEF Typed, BooleansTyped, TaskEnd, context, client, locals, own, ntp, Note
  <2>4. SetsTyped'
    BY <1>0 DEF Typed, SetsTyped, Flags, Troubles, TaskEnd, context, client, locals, own,
       ntp, Note
  <2>5. OwnTyped'
    BY <1>0 DEF Typed, OwnTyped, Places, TaskEnd, context, client, locals, own, ntp, Note
  <2> QED
    BY <2>1, <2>2, <2>3, <2>4, <2>5 DEF Typed
<1>2. Fresh'
  BY <1>0 DEF Fresh, Uninitialised, TaskEnd, context, client, locals, own, ntp, Note
<1>3. TaskInv'
  BY <1>0 DEF TaskInv, TaskEnd, context, client, locals, own, ntp, Note
<1>4. ErrorInv'
  BY <1>0 DEF ErrorInv, Results, TaskEnd, context, client, locals, own, ntp, Note
<1>5. CallInv'
  BY <1>0 DEF CallInv, Uninitialised, TaskEnd, context, client, locals, own, ntp, Note
<1>6. AnswersInv'
  BY <1>0, <1>q DEF AnswersInv, InTrouble, TaskEnd, context, client, locals, own, ntp, Note
<1>7. TidyInv'
  BY <1>0, <1>q DEF TidyInv, Uninitialised, Early, Ending, TaskEnd, context, client, locals,
     own, ntp, Note
<1>8. ReadyInv'
  BY <1>0 DEF ReadyInv, Ending, TaskEnd, context, client, locals, own, ntp, Note
<1>9. TeardownSafe'
  BY <1>0 DEF TeardownSafe, FreedUnderTaskOnlyIfLate, ListenersSafeUntilFailure,
     DeinitFailsOnlyInTrouble, TaskEnd, context, client, locals, own, ntp, Note
<1>10. RunningMeansAnswered'
  BY <1>0 DEF RunningMeansAnswered, TaskEnd, context, client, locals, own, ntp, Note
<1> QED
  BY <1>1, <1>2, <1>3, <1>4, <1>5, <1>6, <1>7, <1>8, <1>9, <1>10 DEF PlatformInv

\* The timer asks for the time again.
LEMMA TimerStep == ASSUME PlatformInv, undefined = {}, TimerFires /\ UNCHANGED own PROVE PlatformInv'
<1>0. /\ Typed /\ Fresh /\ TaskInv /\ ErrorInv /\ CallInv /\ AnswersInv /\ TidyInv /\ ReadyInv
      /\ TeardownSafe /\ RunningMeansAnswered
  BY DEF PlatformInv
<1>q. queue' \in Seq(Events) /\ (\A x : Queued(x)' => Queued(x) \/ x = "GET_TIME") /\ (StopOnce => StopOnce')
  BY <1>0, PutEvent DEF TimerFires, ntp_timer_callback, Typed, Events
<1>1. Typed'
  <2>1. queue' \in Seq(Events)
    BY <1>0, <1>q DEF Typed, TimerFires, Refused, context, client, locals, own, ntp, Note
  <2>2. ScalarsTyped'
    BY <1>0, <1>q DEF Typed, ScalarsTyped, TaskPlaces, Results, TimerFires, Refused,
       context, client, locals, own, ntp, Note
  <2>3. BooleansTyped'
    BY <1>0, <1>q DEF Typed, BooleansTyped, TimerFires, Refused, context, client, locals,
       own, ntp, Note
  <2>4. SetsTyped'
    BY <1>0, <1>q DEF Typed, SetsTyped, Flags, Troubles, TimerFires, Refused, context,
       client, locals, own, ntp, Note
  <2>5. OwnTyped'
    BY <1>0, <1>q DEF Typed, OwnTyped, Places, TimerFires, Refused, context, client, locals,
       own, ntp, Note
  <2> QED
    BY <2>1, <2>2, <2>3, <2>4, <2>5 DEF Typed
<1>2. Fresh'
  BY <1>0, <1>q DEF Fresh, Uninitialised, TaskInv, TimerFires, Refused, context, client,
     locals, own, ntp, Note
<1>3. TaskInv'
  BY <1>0 DEF TaskInv, TimerFires, Refused, context, client, locals, own, ntp, Note
<1>4. ErrorInv'
  BY <1>0 DEF ErrorInv, Results, TimerFires, Refused, context, client, locals, own, ntp,
     Note
<1>5. CallInv'
  BY <1>0 DEF CallInv, Uninitialised, TimerFires, Refused, context, client, locals, own,
     ntp, Note
<1>6. AnswersInv'
  BY <1>0, <1>q DEF AnswersInv, InTrouble, TaskInv, TimerFires, Refused, context, client,
     locals, own, ntp, Note
<1>7. TidyInv'
  BY <1>0, <1>q DEF TidyInv, Uninitialised, Early, Ending, TimerFires, Refused, context,
     client, locals, own, ntp, Note
<1>8. ReadyInv'
  BY <1>0 DEF ReadyInv, Ending, TimerFires, Refused, context, client, locals, own, ntp, Note
<1>9. TeardownSafe'
  BY <1>0 DEF TeardownSafe, FreedUnderTaskOnlyIfLate, ListenersSafeUntilFailure,
     DeinitFailsOnlyInTrouble, TimerFires, Refused, context, client, locals, own, ntp, Note
<1>10. RunningMeansAnswered'
  BY <1>0 DEF RunningMeansAnswered, TimerFires, Refused, context, client, locals, own, ntp,
     Note
<1> QED
  BY <1>1, <1>2, <1>3, <1>4, <1>5, <1>6, <1>7, <1>8, <1>9, <1>10 DEF PlatformInv

-----------------------------------------------------------------------------
(* The application: platform_init.                                          *)

\* The network comes up or goes down while platform_init watches it.
LEMMA NetworkStep == ASSUME PlatformInv, undefined = {}, NEW up \in BOOLEAN, network_state_callback(up) PROVE PlatformInv'
<1>0. /\ Typed /\ Fresh /\ TaskInv /\ ErrorInv /\ CallInv /\ AnswersInv /\ TidyInv /\ ReadyInv
      /\ TeardownSafe /\ RunningMeansAnswered
  BY DEF PlatformInv
<1>q. queue' = queue => (StopOnce' = StopOnce /\ \A x : Queued(x)' = Queued(x))
  BY DEF StopOnce, Queued
<1>1. Typed'
  <2>1. queue' \in Seq(Events)
    BY <1>0 DEF Typed, network_state_callback, Watching, context, client, locals, own, ntp
  <2>2. ScalarsTyped'
    BY <1>0 DEF Typed, ScalarsTyped, TaskPlaces, Results, network_state_callback, Watching,
       context, client, locals, own, ntp
  <2>3. BooleansTyped'
    BY <1>0 DEF Typed, BooleansTyped, network_state_callback, Watching, context, client,
       locals, own, ntp
  <2>4. SetsTyped'
    BY <1>0 DEF Typed, SetsTyped, Flags, Troubles, network_state_callback, Watching,
       context, client, locals, own, ntp
  <2>5. OwnTyped'
    BY <1>0 DEF Typed, OwnTyped, Places, network_state_callback, Watching, context, client,
       locals, own, ntp
  <2> QED
    BY <2>1, <2>2, <2>3, <2>4, <2>5 DEF Typed
<1>2. Fresh'
  BY <1>0 DEF Fresh, Uninitialised, network_state_callback, Watching, context, client,
     locals, own, ntp
<1>3. TaskInv'
  BY <1>0 DEF TaskInv, network_state_callback, Watching, context, client, locals, own, ntp
<1>4. ErrorInv'
  BY <1>0 DEF ErrorInv, Results, network_state_callback, Watching, context, client, locals,
     own, ntp
<1>5. CallInv'
  BY <1>0 DEF CallInv, Uninitialised, network_state_callback, Watching, context, client,
     locals, own, ntp
<1>6. AnswersInv'
  BY <1>0, <1>q DEF AnswersInv, InTrouble, network_state_callback, Watching, context,
     client, locals, own, ntp
<1>7. TidyInv'
  BY <1>0, <1>q DEF TidyInv, Uninitialised, Early, Ending, network_state_callback, Watching,
     context, client, locals, own, ntp
<1>8. ReadyInv'
  BY <1>0 DEF ReadyInv, Ending, network_state_callback, Watching, context, client, locals,
     own, ntp
<1>9. TeardownSafe'
  BY <1>0 DEF TeardownSafe, FreedUnderTaskOnlyIfLate, ListenersSafeUntilFailure,
     DeinitFailsOnlyInTrouble, network_state_callback, Watching, context, client, locals,
     own, ntp
<1>10. RunningMeansAnswered'
  BY <1>0 DEF RunningMeansAnswered, network_state_callback, Watching, context, client,
     locals, own, ntp
<1> QED
  BY <1>1, <1>2, <1>3, <1>4, <1>5, <1>6, <1>7, <1>8, <1>9, <1>10 DEF PlatformInv

\* platform_init looks whether the network is up.
LEMMA UpStep == ASSUME PlatformInv, undefined = {}, is_network_up PROVE PlatformInv'
<1>0. /\ Typed /\ Fresh /\ TaskInv /\ ErrorInv /\ CallInv /\ AnswersInv /\ TidyInv /\ ReadyInv
      /\ TeardownSafe /\ RunningMeansAnswered
  BY DEF PlatformInv
<1>q. queue' = queue => (StopOnce' = StopOnce /\ \A x : Queued(x)' = Queued(x))
  BY DEF StopOnce, Queued
<1>1. Typed'
  <2>1. queue' \in Seq(Events)
    BY <1>0 DEF Typed, is_network_up, context, client, locals, own, ntp, Goto, Cleanup,
       Fail, Note
  <2>2. ScalarsTyped'
    BY <1>0 DEF Typed, ScalarsTyped, TaskPlaces, Results, is_network_up, context, client,
       locals, own, ntp, Goto, Cleanup, Fail, Note
  <2>3. BooleansTyped'
    BY <1>0 DEF Typed, BooleansTyped, is_network_up, context, client, locals, own, ntp,
       Goto, Cleanup, Fail, Note
  <2>4. SetsTyped'
    BY <1>0 DEF Typed, SetsTyped, Flags, Troubles, is_network_up, context, client, locals,
       own, ntp, Goto, Cleanup, Fail, Note
  <2>5. OwnTyped'
    BY <1>0 DEF Typed, OwnTyped, Places, is_network_up, context, client, locals, own, ntp,
       Goto, Cleanup, Fail, Note
  <2> QED
    BY <2>1, <2>2, <2>3, <2>4, <2>5 DEF Typed
<1>2. Fresh'
  BY <1>0 DEF Fresh, Uninitialised, is_network_up, context, client, locals, own, ntp, Goto,
     Cleanup, Fail, Note
<1>3. TaskInv'
  BY <1>0 DEF TaskInv, is_network_up, context, client, locals, own, ntp, Goto, Cleanup,
     Fail, Note
<1>4. ErrorInv'
  BY <1>0 DEF ErrorInv, Results, is_network_up, context, client, locals, own, ntp, Goto,
     Cleanup, Fail, Note
<1>5. CallInv'
  BY <1>0 DEF CallInv, Uninitialised, is_network_up, context, client, locals, own, ntp,
     Goto, Cleanup, Fail, Note
<1>6. AnswersInv'
  BY <1>0, <1>q DEF AnswersInv, InTrouble, is_network_up, context, client, locals, own, ntp,
     Goto, Cleanup, Fail, Note
<1>7. TidyInv'
  BY <1>0, <1>q DEF TidyInv, Uninitialised, Early, Ending, is_network_up, context, client,
     locals, own, ntp, Goto, Cleanup, Fail, Note
<1>8. ReadyInv'
  BY <1>0 DEF ReadyInv, Ending, is_network_up, context, client, locals, own, ntp, Goto,
     Cleanup, Fail, Note
<1>9. TeardownSafe'
  BY <1>0 DEF TeardownSafe, FreedUnderTaskOnlyIfLate, ListenersSafeUntilFailure,
     DeinitFailsOnlyInTrouble, is_network_up, context, client, locals, own, ntp, Goto,
     Cleanup, Fail, Note
<1>10. RunningMeansAnswered'
  BY <1>0 DEF RunningMeansAnswered, is_network_up, context, client, locals, own, ntp, Goto,
     Cleanup, Fail, Note
<1> QED
  BY <1>1, <1>2, <1>3, <1>4, <1>5, <1>6, <1>7, <1>8, <1>9, <1>10 DEF PlatformInv

\* platform_init waits for the network.
LEMMA NetWaitStep == ASSUME PlatformInv, undefined = {}, wait_for_event("net_wait", "NETWORK_CHANGE", "net_recheck") PROVE PlatformInv'
<1>0. /\ Typed /\ Fresh /\ TaskInv /\ ErrorInv /\ CallInv /\ AnswersInv /\ TidyInv /\ ReadyInv
      /\ TeardownSafe /\ RunningMeansAnswered
  BY DEF PlatformInv
<1>q. queue' = queue => (StopOnce' = StopOnce /\ \A x : Queued(x)' = Queued(x))
  BY DEF StopOnce, Queued
<1>1. Typed'
  <2>1. queue' \in Seq(Events)
    BY <1>0 DEF Typed, wait_for_event, context, client, locals, own, ntp, Goto, Cleanup,
       Fail, Note
  <2>2. ScalarsTyped'
    BY <1>0 DEF Typed, ScalarsTyped, TaskPlaces, Results, wait_for_event, context, client,
       locals, own, ntp, Goto, Cleanup, Fail, Note
  <2>3. BooleansTyped'
    BY <1>0 DEF Typed, BooleansTyped, wait_for_event, context, client, locals, own, ntp,
       Goto, Cleanup, Fail, Note
  <2>4. SetsTyped'
    BY <1>0 DEF Typed, SetsTyped, Flags, Troubles, wait_for_event, context, client, locals,
       own, ntp, Goto, Cleanup, Fail, Note
  <2>5. OwnTyped'
    BY <1>0 DEF Typed, OwnTyped, Places, wait_for_event, context, client, locals, own, ntp,
       Goto, Cleanup, Fail, Note
  <2> QED
    BY <2>1, <2>2, <2>3, <2>4, <2>5 DEF Typed
<1>2. Fresh'
  BY <1>0 DEF Fresh, Uninitialised, wait_for_event, context, client, locals, own, ntp, Goto,
     Cleanup, Fail, Note
<1>3. TaskInv'
  BY <1>0 DEF TaskInv, wait_for_event, context, client, locals, own, ntp, Goto, Cleanup,
     Fail, Note
<1>4. ErrorInv'
  BY <1>0 DEF ErrorInv, Results, wait_for_event, context, client, locals, own, ntp, Goto,
     Cleanup, Fail, Note
<1>5. CallInv'
  BY <1>0 DEF CallInv, Uninitialised, wait_for_event, context, client, locals, own, ntp,
     Goto, Cleanup, Fail, Note
<1>6. AnswersInv'
  BY <1>0, <1>q DEF AnswersInv, InTrouble, wait_for_event, context, client, locals, own,
     ntp, Goto, Cleanup, Fail, Note
<1>7. TidyInv'
  BY <1>0, <1>q DEF TidyInv, Uninitialised, Early, Ending, wait_for_event, context, client,
     locals, own, ntp, Goto, Cleanup, Fail, Note
<1>8. ReadyInv'
  BY <1>0 DEF ReadyInv, Ending, wait_for_event, context, client, locals, own, ntp, Goto,
     Cleanup, Fail, Note
<1>9. TeardownSafe'
  BY <1>0 DEF TeardownSafe, FreedUnderTaskOnlyIfLate, ListenersSafeUntilFailure,
     DeinitFailsOnlyInTrouble, wait_for_event, context, client, locals, own, ntp, Goto,
     Cleanup, Fail, Note
<1>10. RunningMeansAnswered'
  BY <1>0 DEF RunningMeansAnswered, wait_for_event, context, client, locals, own, ntp, Goto,
     Cleanup, Fail, Note
<1> QED
  BY <1>1, <1>2, <1>3, <1>4, <1>5, <1>6, <1>7, <1>8, <1>9, <1>10 DEF PlatformInv

\* The network is up, or "Network not up".
LEMMA RecheckStep == ASSUME PlatformInv, undefined = {}, NetworkRecheck PROVE PlatformInv'
<1>0. /\ Typed /\ Fresh /\ TaskInv /\ ErrorInv /\ CallInv /\ AnswersInv /\ TidyInv /\ ReadyInv
      /\ TeardownSafe /\ RunningMeansAnswered
  BY DEF PlatformInv
<1>q. queue' = queue => (StopOnce' = StopOnce /\ \A x : Queued(x)' = Queued(x))
  BY DEF StopOnce, Queued
<1>1. Typed'
  <2>1. queue' \in Seq(Events)
    BY <1>0 DEF Typed, NetworkRecheck, context, client, locals, own, ntp, Goto, Cleanup,
       Fail, Note
  <2>2. ScalarsTyped'
    BY <1>0 DEF Typed, ScalarsTyped, TaskPlaces, Results, NetworkRecheck, context, client,
       locals, own, ntp, Goto, Cleanup, Fail, Note
  <2>3. BooleansTyped'
    BY <1>0 DEF Typed, BooleansTyped, NetworkRecheck, context, client, locals, own, ntp,
       Goto, Cleanup, Fail, Note
  <2>4. SetsTyped'
    BY <1>0 DEF Typed, SetsTyped, Flags, Troubles, NetworkRecheck, context, client, locals,
       own, ntp, Goto, Cleanup, Fail, Note
  <2>5. OwnTyped'
    BY <1>0 DEF Typed, OwnTyped, Places, NetworkRecheck, context, client, locals, own, ntp,
       Goto, Cleanup, Fail, Note
  <2> QED
    BY <2>1, <2>2, <2>3, <2>4, <2>5 DEF Typed
<1>2. Fresh'
  BY <1>0 DEF Fresh, Uninitialised, NetworkRecheck, context, client, locals, own, ntp, Goto,
     Cleanup, Fail, Note
<1>3. TaskInv'
  BY <1>0 DEF TaskInv, NetworkRecheck, context, client, locals, own, ntp, Goto, Cleanup,
     Fail, Note
<1>4. ErrorInv'
  BY <1>0 DEF ErrorInv, Results, NetworkRecheck, context, client, locals, own, ntp, Goto,
     Cleanup, Fail, Note
<1>5. CallInv'
  BY <1>0 DEF CallInv, Uninitialised, NetworkRecheck, context, client, locals, own, ntp,
     Goto, Cleanup, Fail, Note
<1>6. AnswersInv'
  BY <1>0, <1>q DEF AnswersInv, InTrouble, NetworkRecheck, context, client, locals, own,
     ntp, Goto, Cleanup, Fail, Note
<1>7. TidyInv'
  BY <1>0, <1>q DEF TidyInv, Uninitialised, Early, Ending, NetworkRecheck, context, client,
     locals, own, ntp, Goto, Cleanup, Fail, Note
<1>8. ReadyInv'
  BY <1>0 DEF ReadyInv, Ending, NetworkRecheck, context, client, locals, own, ntp, Goto,
     Cleanup, Fail, Note
<1>9. TeardownSafe'
  BY <1>0 DEF TeardownSafe, FreedUnderTaskOnlyIfLate, ListenersSafeUntilFailure,
     DeinitFailsOnlyInTrouble, NetworkRecheck, context, client, locals, own, ntp, Goto,
     Cleanup, Fail, Note
<1>10. RunningMeansAnswered'
  BY <1>0 DEF RunningMeansAnswered, NetworkRecheck, context, client, locals, own, ntp, Goto,
     Cleanup, Fail, Note
<1> QED
  BY <1>1, <1>2, <1>3, <1>4, <1>5, <1>6, <1>7, <1>8, <1>9, <1>10 DEF PlatformInv

\* platform_init waits for the time.
LEMMA TimeWaitStep == ASSUME PlatformInv, undefined = {}, wait_for_event("time_wait", "TIME_READY", "clear") PROVE PlatformInv'
<1>0. /\ Typed /\ Fresh /\ TaskInv /\ ErrorInv /\ CallInv /\ AnswersInv /\ TidyInv /\ ReadyInv
      /\ TeardownSafe /\ RunningMeansAnswered
  BY DEF PlatformInv
<1>q. queue' = queue => (StopOnce' = StopOnce /\ \A x : Queued(x)' = Queued(x))
  BY DEF StopOnce, Queued
<1>1. Typed'
  <2>1. queue' \in Seq(Events)
    BY <1>0 DEF Typed, wait_for_event, context, client, locals, own, ntp, Goto, Cleanup,
       Fail, Note
  <2>2. ScalarsTyped'
    BY <1>0 DEF Typed, ScalarsTyped, TaskPlaces, Results, wait_for_event, context, client,
       locals, own, ntp, Goto, Cleanup, Fail, Note
  <2>3. BooleansTyped'
    BY <1>0 DEF Typed, BooleansTyped, wait_for_event, context, client, locals, own, ntp,
       Goto, Cleanup, Fail, Note
  <2>4. SetsTyped'
    BY <1>0 DEF Typed, SetsTyped, Flags, Troubles, wait_for_event, context, client, locals,
       own, ntp, Goto, Cleanup, Fail, Note
  <2>5. OwnTyped'
    BY <1>0 DEF Typed, OwnTyped, Places, wait_for_event, context, client, locals, own, ntp,
       Goto, Cleanup, Fail, Note
  <2> QED
    BY <2>1, <2>2, <2>3, <2>4, <2>5 DEF Typed
<1>2. Fresh'
  BY <1>0 DEF Fresh, Uninitialised, wait_for_event, context, client, locals, own, ntp, Goto,
     Cleanup, Fail, Note
<1>3. TaskInv'
  BY <1>0 DEF TaskInv, wait_for_event, context, client, locals, own, ntp, Goto, Cleanup,
     Fail, Note
<1>4. ErrorInv'
  BY <1>0 DEF ErrorInv, Results, wait_for_event, context, client, locals, own, ntp, Goto,
     Cleanup, Fail, Note
<1>5. CallInv'
  BY <1>0 DEF CallInv, Uninitialised, wait_for_event, context, client, locals, own, ntp,
     Goto, Cleanup, Fail, Note
<1>6. AnswersInv'
  BY <1>0, <1>q DEF AnswersInv, InTrouble, wait_for_event, context, client, locals, own,
     ntp, Goto, Cleanup, Fail, Note
<1>7. TidyInv'
  BY <1>0, <1>q DEF TidyInv, Uninitialised, Early, Ending, wait_for_event, context, client,
     locals, own, ntp, Goto, Cleanup, Fail, Note
<1>8. ReadyInv'
  BY <1>0 DEF ReadyInv, Ending, wait_for_event, context, client, locals, own, ntp, Goto,
     Cleanup, Fail, Note
<1>9. TeardownSafe'
  BY <1>0 DEF TeardownSafe, FreedUnderTaskOnlyIfLate, ListenersSafeUntilFailure,
     DeinitFailsOnlyInTrouble, wait_for_event, context, client, locals, own, ntp, Goto,
     Cleanup, Fail, Note
<1>10. RunningMeansAnswered'
  BY <1>0 DEF RunningMeansAnswered, wait_for_event, context, client, locals, own, ntp, Goto,
     Cleanup, Fail, Note
<1> QED
  BY <1>1, <1>2, <1>3, <1>4, <1>5, <1>6, <1>7, <1>8, <1>9, <1>10 DEF PlatformInv

\* The application calls platform_deinit.
LEMMA DeinitStep == ASSUME PlatformInv, undefined = {}, platform_deinit PROVE PlatformInv'
<1>0. /\ Typed /\ Fresh /\ TaskInv /\ ErrorInv /\ CallInv /\ AnswersInv /\ TidyInv /\ ReadyInv
      /\ TeardownSafe /\ RunningMeansAnswered
  BY DEF PlatformInv
<1>q. queue' = queue => (StopOnce' = StopOnce /\ \A x : Queued(x)' = Queued(x))
  BY DEF StopOnce, Queued
<1>1. Typed'
  <2>1. queue' \in Seq(Events)
    BY <1>0 DEF Typed, platform_deinit, context, client, locals, own, ntp, Goto, Cleanup,
       Fail, Note
  <2>2. ScalarsTyped'
    BY <1>0 DEF Typed, ScalarsTyped, TaskPlaces, Results, platform_deinit, context, client,
       locals, own, ntp, Goto, Cleanup, Fail, Note
  <2>3. BooleansTyped'
    BY <1>0 DEF Typed, BooleansTyped, platform_deinit, context, client, locals, own, ntp,
       Goto, Cleanup, Fail, Note
  <2>4. SetsTyped'
    BY <1>0 DEF Typed, SetsTyped, Flags, Troubles, platform_deinit, context, client, locals,
       own, ntp, Goto, Cleanup, Fail, Note
  <2>5. OwnTyped'
    BY <1>0 DEF Typed, OwnTyped, Places, platform_deinit, context, client, locals, own, ntp,
       Goto, Cleanup, Fail, Note
  <2> QED
    BY <2>1, <2>2, <2>3, <2>4, <2>5 DEF Typed
<1>2. Fresh'
  BY <1>0 DEF Fresh, Uninitialised, platform_deinit, context, client, locals, own, ntp,
     Goto, Cleanup, Fail, Note
<1>3. TaskInv'
  BY <1>0 DEF TaskInv, platform_deinit, context, client, locals, own, ntp, Goto, Cleanup,
     Fail, Note
<1>4. ErrorInv'
  BY <1>0 DEF ErrorInv, Results, platform_deinit, context, client, locals, own, ntp, Goto,
     Cleanup, Fail, Note
<1>5. CallInv'
  BY <1>0 DEF CallInv, Uninitialised, platform_deinit, context, client, locals, own, ntp,
     Goto, Cleanup, Fail, Note
<1>6. AnswersInv'
  BY <1>0, <1>q DEF AnswersInv, InTrouble, platform_deinit, context, client, locals, own,
     ntp, Goto, Cleanup, Fail, Note
<1>7. TidyInv'
  BY <1>0, <1>q DEF TidyInv, Uninitialised, Early, Ending, platform_deinit, context, client,
     locals, own, ntp, Goto, Cleanup, Fail, Note
<1>8. ReadyInv'
  BY <1>0 DEF ReadyInv, Ending, platform_deinit, context, client, locals, own, ntp, Goto,
     Cleanup, Fail, Note
<1>9. TeardownSafe'
  BY <1>0 DEF TeardownSafe, FreedUnderTaskOnlyIfLate, ListenersSafeUntilFailure,
     DeinitFailsOnlyInTrouble, platform_deinit, context, client, locals, own, ntp, Goto,
     Cleanup, Fail, Note
<1>10. RunningMeansAnswered'
  BY <1>0 DEF RunningMeansAnswered, platform_deinit, context, client, locals, own, ntp,
     Goto, Cleanup, Fail, Note
<1> QED
  BY <1>1, <1>2, <1>3, <1>4, <1>5, <1>6, <1>7, <1>8, <1>9, <1>10 DEF PlatformInv

\* platform_init adds its listener.
LEMMA AddStep == ASSUME PlatformInv, undefined = {}, AddListener PROVE PlatformInv'
<1>0. /\ Typed /\ Fresh /\ TaskInv /\ ErrorInv /\ CallInv /\ AnswersInv /\ TidyInv /\ ReadyInv
      /\ TeardownSafe /\ RunningMeansAnswered
  BY DEF PlatformInv
<1>q. queue' = queue => (StopOnce' = StopOnce /\ \A x : Queued(x)' = Queued(x))
  BY DEF StopOnce, Queued
<1>1. Typed'
  <2>1. queue' \in Seq(Events)
    BY <1>0 DEF Typed, AddListener, iotNtpClientAddListener, Return, Call, context, client,
       locals, own, ntp, Goto, Cleanup, Fail, Note
  <2>2. ScalarsTyped'
    BY <1>0 DEF Typed, ScalarsTyped, TaskPlaces, Results, AddListener,
       iotNtpClientAddListener, Return, Call, context, client, locals, own, ntp, Goto,
       Cleanup, Fail, Note
  <2>3. BooleansTyped'
    BY <1>0 DEF Typed, BooleansTyped, AddListener, iotNtpClientAddListener, Return, Call,
       context, client, locals, own, ntp, Goto, Cleanup, Fail, Note
  <2>4. SetsTyped'
    BY <1>0 DEF Typed, SetsTyped, Flags, Troubles, AddListener, iotNtpClientAddListener,
       Return, Call, context, client, locals, own, ntp, Goto, Cleanup, Fail, Note
  <2>5. OwnTyped'
    BY <1>0 DEF Typed, OwnTyped, Places, AddListener, iotNtpClientAddListener, Return, Call,
       context, client, locals, own, ntp, Goto, Cleanup, Fail, Note
  <2> QED
    BY <2>1, <2>2, <2>3, <2>4, <2>5 DEF Typed
<1>2. Fresh'
  BY <1>0 DEF Fresh, Uninitialised, AddListener, iotNtpClientAddListener, Return, Call,
     context, client, locals, own, ntp, Goto, Cleanup, Fail, Note
<1>3. TaskInv'
  BY <1>0 DEF TaskInv, AddListener, iotNtpClientAddListener, Return, Call, context, client,
     locals, own, ntp, Goto, Cleanup, Fail, Note
<1>4. ErrorInv'
  BY <1>0 DEF ErrorInv, Results, AddListener, iotNtpClientAddListener, Return, Call,
     context, client, locals, own, ntp, Goto, Cleanup, Fail, Note
<1>5. CallInv'
  BY <1>0 DEF CallInv, Uninitialised, AddListener, iotNtpClientAddListener, Return, Call,
     context, client, locals, own, ntp, Goto, Cleanup, Fail, Note
<1>6. AnswersInv'
  BY <1>0, <1>q DEF AnswersInv, InTrouble, AddListener, iotNtpClientAddListener, Return,
     Call, context, client, locals, own, ntp, Goto, Cleanup, Fail, Note
<1>7. TidyInv'
  <2>1. ASSUME failures = 0 PROVE listeners = <<"none">>
    BY <1>0, <2>1 DEF TidyInv, Early, AddListener
  <2>2. listeners = <<"none">> => listeners' \in {<<"none">>, <<"callback">>}
    BY FirstListener DEF AddListener, iotNtpClientAddListener
  <2>3. listeners' = listeners \/ pc' = "start"
    BY DEF AddListener, iotNtpClientAddListener, Return, Goto
  <2>4. /\ failures' = failures /\ call' = "none" /\ pc = "add" /\ pc' \in {"start", "cleanup"}
        /\ UNCHANGED <<state, queue, tpc, started, timer, troubles, alive>>
    BY DEF AddListener, iotNtpClientAddListener, Return, Goto, Fail, Cleanup, locals
  <2>5. failures = 0 => listeners' = <<"none">> \/ (listeners' = <<"callback">> /\ pc' = "start")
    BY <2>1, <2>2, <2>3
  <2> QED
    BY <1>0, <1>q, <2>4, <2>5 DEF TidyInv, Uninitialised, Early, Ending
<1>8. ReadyInv'
  BY <1>0 DEF ReadyInv, Ending, AddListener, iotNtpClientAddListener, Return, Call, context,
     client, locals, own, ntp, Goto, Cleanup, Fail, Note
<1>9. TeardownSafe'
  BY <1>0 DEF TeardownSafe, FreedUnderTaskOnlyIfLate, ListenersSafeUntilFailure,
     DeinitFailsOnlyInTrouble, AddListener, iotNtpClientAddListener, Return, Call, context,
     client, locals, own, ntp, Goto, Cleanup, Fail, Note
<1>10. RunningMeansAnswered'
  BY <1>0 DEF RunningMeansAnswered, AddListener, iotNtpClientAddListener, Return, Call,
     context, client, locals, own, ntp, Goto, Cleanup, Fail, Note
<1> QED
  BY <1>1, <1>2, <1>3, <1>4, <1>5, <1>6, <1>7, <1>8, <1>9, <1>10 DEF PlatformInv

\* platform_init takes its listener back.
LEMMA ClearStep == ASSUME PlatformInv, undefined = {}, ClearListeners PROVE PlatformInv'
<1>0. /\ Typed /\ Fresh /\ TaskInv /\ ErrorInv /\ CallInv /\ AnswersInv /\ TidyInv /\ ReadyInv
      /\ TeardownSafe /\ RunningMeansAnswered
  BY DEF PlatformInv
<1>q. queue' = queue => (StopOnce' = StopOnce /\ \A x : Queued(x)' = Queued(x))
  BY DEF StopOnce, Queued
<1>s. failures = 0 => ~FreesHead
  <2>1. failures = 0 => Len(listeners) = 1
    BY <1>0 DEF TidyInv
  <2>2. Len(listeners) = 1 => ~(Len(listeners) > 1)
    OBVIOUS
  <2> QED
    BY <2>1, <2>2 DEF FreesHead
<1>1. Typed'
  <2>1. queue' \in Seq(Events)
    BY <1>0 DEF Typed, ClearListeners, iotNtpClientClearListeners, FreesHead, Return, Call,
       context, client, locals, own, ntp, Goto, Cleanup, Fail, Note
  <2>2. ScalarsTyped'
    BY <1>0 DEF Typed, ScalarsTyped, TaskPlaces, Results, ClearListeners,
       iotNtpClientClearListeners, FreesHead, Return, Call, context, client, locals, own,
       ntp, Goto, Cleanup, Fail, Note
  <2>3. BooleansTyped'
    BY <1>0 DEF Typed, BooleansTyped, ClearListeners, iotNtpClientClearListeners, FreesHead,
       Return, Call, context, client, locals, own, ntp, Goto, Cleanup, Fail, Note
  <2>4. SetsTyped'
    BY <1>0 DEF Typed, SetsTyped, Flags, Troubles, ClearListeners,
       iotNtpClientClearListeners, FreesHead, Return, Call, context, client, locals, own,
       ntp, Goto, Cleanup, Fail, Note
  <2>5. OwnTyped'
    BY <1>0 DEF Typed, OwnTyped, Places, ClearListeners, iotNtpClientClearListeners,
       FreesHead, Return, Call, context, client, locals, own, ntp, Goto, Cleanup, Fail, Note
  <2> QED
    BY <2>1, <2>2, <2>3, <2>4, <2>5 DEF Typed
<1>2. Fresh'
  BY <1>0 DEF Fresh, Uninitialised, ClearListeners, iotNtpClientClearListeners, FreesHead,
     Return, Call, context, client, locals, own, ntp, Goto, Cleanup, Fail, Note
<1>3. TaskInv'
  BY <1>0 DEF TaskInv, ClearListeners, iotNtpClientClearListeners, FreesHead, Return, Call,
     context, client, locals, own, ntp, Goto, Cleanup, Fail, Note
<1>4. ErrorInv'
  BY <1>0 DEF ErrorInv, Results, ClearListeners, iotNtpClientClearListeners, FreesHead,
     Return, Call, context, client, locals, own, ntp, Goto, Cleanup, Fail, Note
<1>5. CallInv'
  BY <1>0 DEF CallInv, Uninitialised, ClearListeners, iotNtpClientClearListeners, FreesHead,
     Return, Call, context, client, locals, own, ntp, Goto, Cleanup, Fail, Note
<1>6. AnswersInv'
  BY <1>0, <1>q DEF AnswersInv, InTrouble, ClearListeners, iotNtpClientClearListeners,
     FreesHead, Return, Call, context, client, locals, own, ntp, Goto, Cleanup, Fail, Note
<1>7. TidyInv'
  BY <1>0, <1>q DEF TidyInv, Uninitialised, Early, Ending, ClearListeners,
     iotNtpClientClearListeners, FreesHead, Return, Call, context, client, locals, own, ntp,
     Goto, Cleanup, Fail, Note
<1>8. ReadyInv'
  BY <1>0 DEF ReadyInv, Ending, ClearListeners, iotNtpClientClearListeners, FreesHead,
     Return, Call, context, client, locals, own, ntp, Goto, Cleanup, Fail, Note
<1>9. TeardownSafe'
  <2>1. failures' = failures /\ troubles' = troubles
    BY DEF ClearListeners, iotNtpClientClearListeners
  <2>2. undefined' # {} => failures > 0 /\ undefined' = {"listener"}
    <3>1. undefined' = {} \/ (undefined' = {"listener"} /\ FreesHead)
      BY DEF ClearListeners, iotNtpClientClearListeners
    <3>2. failures \in Nat
      BY <1>0 DEF Typed, ScalarsTyped
    <3>3. failures = 0 => undefined' = {}
      BY <3>1, <1>s
    <3>4. failures # 0 => failures > 0
      BY <3>2
    <3> QED
      BY <3>1, <3>3, <3>4
  <2> QED
    BY <1>0, <2>1, <2>2 DEF TeardownSafe, FreedUnderTaskOnlyIfLate,
       ListenersSafeUntilFailure, DeinitFailsOnlyInTrouble
<1>10. RunningMeansAnswered'
  BY <1>0 DEF RunningMeansAnswered, ClearListeners, iotNtpClientClearListeners, FreesHead,
     Return, Call, context, client, locals, own, ntp, Goto, Cleanup, Fail, Note
<1> QED
  BY <1>1, <1>2, <1>3, <1>4, <1>5, <1>6, <1>7, <1>8, <1>9, <1>10 DEF PlatformInv

\* platform_init starts the client.
LEMMA StartClientStep == ASSUME PlatformInv, undefined = {}, StartClient PROVE PlatformInv'
<1>0. /\ Typed /\ Fresh /\ TaskInv /\ ErrorInv /\ CallInv /\ AnswersInv /\ TidyInv /\ ReadyInv
      /\ TeardownSafe /\ RunningMeansAnswered
  BY DEF PlatformInv
<1>q. /\ queue' \in Seq(Events)
      /\ (\A x : Queued(x)' => Queued(x) \/ x = "START") /\ (StopOnce => StopOnce')
  <2>1. CASE Put("START")
    BY <1>0, <2>1, PutEvent DEF Typed, Events
  <2>2. CASE queue' = queue
    BY <1>0, <2>2 DEF Typed, Queued, StopOnce
  <2> QED
    BY <2>1, <2>2 DEF StartClient, iotNtpClientStart
<1>r. queue' = queue \/ (state = "STOPPED" /\ call' = "start")
  BY DEF StartClient, iotNtpClientStart, Put, Call
<1>s. queue' = queue => (StopOnce' = StopOnce /\ \A x : Queued(x)' = Queued(x))
  BY DEF StopOnce, Queued
<1>1. Typed'
  <2>1. queue' \in Seq(Events)
    BY <1>0, <1>q, <1>r, <1>s DEF Typed, StartClient, iotNtpClientStart, Started,
       AfterStart, Refused, Return, Call, context, client, locals, own, ntp, Goto, Cleanup,
       Fail, Note
  <2>2. ScalarsTyped'
    BY <1>0, <1>q, <1>r, <1>s DEF Typed, ScalarsTyped, TaskPlaces, Results, StartClient,
       iotNtpClientStart, Started, AfterStart, Refused, Return, Call, context, client,
       locals, own, ntp, Goto, Cleanup, Fail, Note
  <2>3. BooleansTyped'
    BY <1>0, <1>q, <1>r, <1>s DEF Typed, BooleansTyped, StartClient, iotNtpClientStart,
       Started, AfterStart, Refused, Return, Call, context, client, locals, own, ntp, Goto,
       Cleanup, Fail, Note
  <2>4. SetsTyped'
    BY <1>0, <1>q, <1>r, <1>s DEF Typed, SetsTyped, Flags, Troubles, StartClient,
       iotNtpClientStart, Started, AfterStart, Refused, Return, Call, context, client,
       locals, own, ntp, Goto, Cleanup, Fail, Note
  <2>5. OwnTyped'
    BY <1>0, <1>q, <1>r, <1>s DEF Typed, OwnTyped, Places, StartClient, iotNtpClientStart,
       Started, AfterStart, Refused, Return, Call, context, client, locals, own, ntp, Goto,
       Cleanup, Fail, Note
  <2> QED
    BY <2>1, <2>2, <2>3, <2>4, <2>5 DEF Typed
<1>2. Fresh'
  BY <1>0, <1>q, <1>r, <1>s DEF Fresh, Uninitialised, StartClient, iotNtpClientStart,
     Started, AfterStart, Refused, Return, Call, context, client, locals, own, ntp, Goto,
     Cleanup, Fail, Note
<1>3. TaskInv'
  BY <1>0 DEF TaskInv, StartClient, iotNtpClientStart, Started, AfterStart, Refused, Return,
     Call, context, client, locals, own, ntp, Goto, Cleanup, Fail, Note
<1>4. ErrorInv'
  BY <1>0 DEF ErrorInv, Results, StartClient, iotNtpClientStart, Started, AfterStart,
     Refused, Return, Call, context, client, locals, own, ntp, Goto, Cleanup, Fail, Note
<1>5. CallInv'
  BY <1>0 DEF CallInv, Uninitialised, StartClient, iotNtpClientStart, Started, AfterStart,
     Refused, Return, Call, context, client, locals, own, ntp, Goto, Cleanup, Fail, Note
<1>6. AnswersInv'
  BY <1>0, <1>q, <1>r, <1>s DEF AnswersInv, InTrouble, CallInv, StartClient,
     iotNtpClientStart, Started, AfterStart, Refused, Return, Call, context, client, locals,
     own, ntp, Goto, Cleanup, Fail, Note
<1>7. TidyInv'
  BY <1>0, <1>q, <1>r, <1>s DEF TidyInv, Uninitialised, Early, Ending, StartClient,
     iotNtpClientStart, Started, AfterStart, Refused, Return, Call, context, client, locals,
     own, ntp, Goto, Cleanup, Fail, Note
<1>8. ReadyInv'
  BY <1>0 DEF ReadyInv, Ending, StartClient, iotNtpClientStart, Started, AfterStart,
     Refused, Return, Call, context, client, locals, own, ntp, Goto, Cleanup, Fail, Note
<1>9. TeardownSafe'
  BY <1>0 DEF TeardownSafe, FreedUnderTaskOnlyIfLate, ListenersSafeUntilFailure,
     DeinitFailsOnlyInTrouble, StartClient, iotNtpClientStart, Started, AfterStart, Refused,
     Return, Call, context, client, locals, own, ntp, Goto, Cleanup, Fail, Note
<1>10. RunningMeansAnswered'
  BY <1>0 DEF RunningMeansAnswered, StartClient, iotNtpClientStart, Started, AfterStart,
     Refused, Return, Call, context, client, locals, own, ntp, Goto, Cleanup, Fail, Note
<1> QED
  BY <1>1, <1>2, <1>3, <1>4, <1>5, <1>6, <1>7, <1>8, <1>9, <1>10 DEF PlatformInv

\* iotNtpClientStart returns: the task has answered, has failed, or is late.
LEMMA AwaitStartStep == ASSUME PlatformInv, undefined = {}, AwaitStart PROVE PlatformInv'
<1>0. /\ Typed /\ Fresh /\ TaskInv /\ ErrorInv /\ CallInv /\ AnswersInv /\ TidyInv /\ ReadyInv
      /\ TeardownSafe /\ RunningMeansAnswered
  BY DEF PlatformInv
<1> DEFINE r == wait_for_ntp_event("START")
<1>e. /\ call = "start" /\ pc = "starting" /\ ret' = r /\ call' = "none"
      /\ state' = IF r = "OK" THEN "RUNNING" ELSE state
      /\ flags' = flags \ {"START", "ERROR"}
      /\ troubles' = troubles \cup (IF Flagged("START") THEN {} ELSE {"late"})
      /\ IF r = "OK" THEN pc' = "time_wait" /\ UNCHANGED <<res, event_flags>>
         ELSE pc' = "cleanup" /\ res' = "FAILURE" /\ event_flags' = {}
      /\ UNCHANGED <<error, thread, listeners, time, queue, failures, tpc, socket, working, started,
                     err, timer, undefined, alive, network_up, network_task>>
  BY DEF AwaitStart, StartReturns, WaitEnds, Cleared, AwaitedFlags, Note, Return, Started, AfterStart,
     Goto, Fail, Cleanup, locals
<1>r. /\ r \in Results
      /\ r = "OK" /\ Flagged("START") => flags = {"START"}
      /\ r # "OK" /\ Flagged("START") /\ "fault" \notin troubles =>
           "STOP" \in flags \/ "TERMINATED" \in flags
      /\ r # "OK" /\ ~Flagged("START") => error = "ERR"
  BY <1>0, WaitResult
<1> HIDE DEF r
<1>a. ~InTrouble' => ~InTrouble /\ r = "OK" /\ started
  BY <1>0, <1>e, <1>r DEF InTrouble, AnswersInv, TaskInv
<1>b. ~Uninitialised /\ ~Uninitialised'
  BY <1>0, <1>e DEF CallInv, Uninitialised
<1>q. queue' = queue => (StopOnce' = StopOnce /\ \A x : Queued(x)' = Queued(x))
  BY DEF StopOnce, Queued
<1>1. Typed'
  <2>1. queue' \in Seq(Events)
    BY <1>0, <1>e, <1>r DEF Typed, Flagged
  <2>2. ScalarsTyped'
    BY <1>0, <1>e, <1>r DEF Typed, ScalarsTyped, TaskPlaces, Results, Flagged
  <2>3. BooleansTyped'
    BY <1>0, <1>e, <1>r DEF Typed, BooleansTyped, Flagged
  <2>4. SetsTyped'
    BY <1>0, <1>e, <1>r DEF Typed, SetsTyped, Flags, Troubles, Flagged
  <2>5. OwnTyped'
    BY <1>0, <1>e, <1>r DEF Typed, OwnTyped, Places, Flagged
  <2> QED
    BY <2>1, <2>2, <2>3, <2>4, <2>5 DEF Typed
<1>2. Fresh'
  BY <1>0, <1>e, <1>r, <1>a, <1>q, <1>b DEF Fresh, Uninitialised
<1>3. TaskInv'
  BY <1>0, <1>e, <1>r, <1>a, <1>q, <1>b DEF TaskInv
<1>4. ErrorInv'
  BY <1>0, <1>e, <1>r, <1>a, <1>q, <1>b DEF ErrorInv, Results
<1>5. CallInv'
  BY <1>0, <1>e, <1>r, <1>a, <1>q, <1>b DEF CallInv, Uninitialised
<1>6. AnswersInv'
  BY <1>0, <1>e, <1>r, <1>a, <1>q, <1>b DEF AnswersInv, InTrouble
<1>7. TidyInv'
  BY <1>0, <1>e, <1>r, <1>a, <1>q, <1>b DEF TidyInv, Uninitialised, Early, Ending
<1>8. ReadyInv'
  BY <1>0, <1>e, <1>r, <1>a, <1>q, <1>b DEF ReadyInv, Ending, TaskInv
<1>9. TeardownSafe'
  BY <1>0, <1>e, <1>r, <1>a, <1>q, <1>b DEF TeardownSafe, FreedUnderTaskOnlyIfLate,
     ListenersSafeUntilFailure, DeinitFailsOnlyInTrouble
<1>10. RunningMeansAnswered'
  BY <1>0, <1>e, <1>r, <1>a, <1>q, <1>b DEF RunningMeansAnswered, TaskInv
<1> QED
  BY <1>1, <1>2, <1>3, <1>4, <1>5, <1>6, <1>7, <1>8, <1>9, <1>10 DEF PlatformInv

\* platform_init creates the flags and the lock, initialises the client and starts the
\* network task, or fails on the way.
LEMMA InitStep == ASSUME PlatformInv, undefined = {}, platform_init PROVE PlatformInv'
<1>0. /\ Typed /\ Fresh /\ TaskInv /\ ErrorInv /\ CallInv /\ AnswersInv /\ TidyInv /\ ReadyInv
      /\ TeardownSafe /\ RunningMeansAnswered
  BY DEF PlatformInv
<1>f. failures' \in {0, failures} /\ (queue' = queue \/ queue' = <<>>) /\ <<>> \in Seq(Events)
  BY DEF platform_init, iotNtpClientInit, ClearContext, ntp, client
<1>q. queue' = queue => (StopOnce' = StopOnce /\ \A x : Queued(x)' = Queued(x))
  BY DEF StopOnce, Queued
<1>e. queue' = <<>> => StopOnce' /\ \A x : ~Queued(x)'
  BY DEF StopOnce, Queued
<1>1. Typed'
  <2>1. queue' \in Seq(Events)
    BY <1>0, <1>q, <1>e, <1>f DEF Typed, platform_init, iotNtpClientInit, ClearContext,
       Return, Call, context, client, locals, own, ntp
  <2>2. ScalarsTyped'
    BY <1>0, <1>q, <1>e, <1>f DEF Typed, ScalarsTyped, TaskPlaces, Results, platform_init,
       iotNtpClientInit, ClearContext, Return, Call, context, client, locals, own, ntp
  <2>3. BooleansTyped'
    BY <1>0, <1>q, <1>e, <1>f DEF Typed, BooleansTyped, platform_init, iotNtpClientInit,
       ClearContext, Return, Call, context, client, locals, own, ntp
  <2>4. SetsTyped'
    BY <1>0, <1>q, <1>e, <1>f DEF Typed, SetsTyped, Flags, Troubles, platform_init,
       iotNtpClientInit, ClearContext, Return, Call, context, client, locals, own, ntp
  <2>5. OwnTyped'
    BY <1>0, <1>q, <1>e, <1>f DEF Typed, OwnTyped, Places, platform_init, iotNtpClientInit,
       ClearContext, Return, Call, context, client, locals, own, ntp
  <2> QED
    BY <2>1, <2>2, <2>3, <2>4, <2>5 DEF Typed
<1>2. Fresh'
  BY <1>0 DEF Fresh, Uninitialised, platform_init, iotNtpClientInit, ClearContext, Return,
     Call, context, client, locals, own, ntp
<1>3. TaskInv'
  BY <1>0 DEF TaskInv, Fresh, Uninitialised, platform_init, iotNtpClientInit, ClearContext,
     Return, Call, context, client, locals, own, ntp
<1>4. ErrorInv'
  BY <1>0 DEF ErrorInv, Results, Fresh, Uninitialised, platform_init, iotNtpClientInit,
     ClearContext, Return, Call, context, client, locals, own, ntp
<1>5. CallInv'
  BY <1>0 DEF CallInv, Uninitialised, platform_init, iotNtpClientInit, ClearContext, Return,
     Call, context, client, locals, own, ntp
<1>6. AnswersInv'
  BY <1>0, <1>q, <1>e, <1>f DEF AnswersInv, InTrouble, Fresh, Uninitialised, platform_init,
     iotNtpClientInit, ClearContext, Return, Call, context, client, locals, own, ntp
<1>7. TidyInv'
  BY <1>0, <1>q, <1>e, <1>f DEF TidyInv, Uninitialised, Early, Ending, platform_init,
     iotNtpClientInit, ClearContext, Return, Call, context, client, locals, own, ntp
<1>8. ReadyInv'
  BY <1>0 DEF ReadyInv, Ending, platform_init, iotNtpClientInit, ClearContext, Return, Call,
     context, client, locals, own, ntp
<1>9. TeardownSafe'
  BY <1>0 DEF TeardownSafe, FreedUnderTaskOnlyIfLate, ListenersSafeUntilFailure,
     DeinitFailsOnlyInTrouble, platform_init, iotNtpClientInit, ClearContext, Return, Call,
     context, client, locals, own, ntp
<1>10. RunningMeansAnswered'
  BY <1>0 DEF RunningMeansAnswered, platform_init, iotNtpClientInit, ClearContext, Return,
     Call, context, client, locals, own, ntp
<1> QED
  BY <1>1, <1>2, <1>3, <1>4, <1>5, <1>6, <1>7, <1>8, <1>9, <1>10 DEF PlatformInv

-----------------------------------------------------------------------------
(* The application: platform_deinit and the cleanup of platform_init.       *)

\* iotNtpClientDeinit of a running client stops it first.
LEMMA StopClientStep == ASSUME PlatformInv, undefined = {}, pc = "cleanup",
         iotNtpClientStop, Goto("deinit") PROVE PlatformInv'
<1>0. /\ Typed /\ Fresh /\ TaskInv /\ ErrorInv /\ CallInv /\ AnswersInv /\ TidyInv /\ ReadyInv
      /\ TeardownSafe /\ RunningMeansAnswered
  BY DEF PlatformInv
<1>q. queue' \in Seq(Events) /\ (\A x : Queued(x)' => Queued(x) \/ x = "STOP")
      /\ (StopOnce /\ ~Queued("STOP") => StopOnce')
  BY <1>0, PutEvent DEF iotNtpClientStop, Typed, Events
<1>1. Typed'
  <2>1. queue' \in Seq(Events)
    BY <1>0, <1>q DEF Typed, iotNtpClientStop, Goto, Refused, Note, Return, Call, context,
       client, locals, own, ntp
  <2>2. ScalarsTyped'
    BY <1>0, <1>q DEF Typed, ScalarsTyped, TaskPlaces, Results, iotNtpClientStop, Goto,
       Refused, Note, Return, Call, context, client, locals, own, ntp
  <2>3. BooleansTyped'
    BY <1>0, <1>q DEF Typed, BooleansTyped, iotNtpClientStop, Goto, Refused, Note, Return,
       Call, context, client, locals, own, ntp
  <2>4. SetsTyped'
    BY <1>0, <1>q DEF Typed, SetsTyped, Flags, Troubles, iotNtpClientStop, Goto, Refused,
       Note, Return, Call, context, client, locals, own, ntp
  <2>5. OwnTyped'
    BY <1>0, <1>q DEF Typed, OwnTyped, Places, iotNtpClientStop, Goto, Refused, Note,
       Return, Call, context, client, locals, own, ntp
  <2> QED
    BY <2>1, <2>2, <2>3, <2>4, <2>5 DEF Typed
<1>2. Fresh'
  BY <1>0 DEF Fresh, Uninitialised, iotNtpClientStop, Goto, Refused, Note, Return, Call,
     context, client, locals, own, ntp
<1>3. TaskInv'
  BY <1>0 DEF TaskInv, iotNtpClientStop, Goto, Refused, Note, Return, Call, context, client,
     locals, own, ntp
<1>4. ErrorInv'
  BY <1>0 DEF ErrorInv, Results, iotNtpClientStop, Goto, Refused, Note, Return, Call,
     context, client, locals, own, ntp
<1>5. CallInv'
  BY <1>0 DEF CallInv, Uninitialised, iotNtpClientStop, Goto, Refused, Note, Return, Call,
     context, client, locals, own, ntp
<1>6. AnswersInv'
  BY <1>0, <1>q DEF AnswersInv, InTrouble, CallInv, iotNtpClientStop, Goto, Refused, Note,
     Return, Call, context, client, locals, own, ntp
<1>7. TidyInv'
  BY <1>0, <1>q DEF TidyInv, Uninitialised, Early, Ending, Typed, ScalarsTyped,
     iotNtpClientStop, Goto, Refused, Note, Return, Call, context, client, locals, own, ntp
<1>8. ReadyInv'
  BY <1>0 DEF ReadyInv, Ending, iotNtpClientStop, Goto, Refused, Note, Return, Call,
     context, client, locals, own, ntp
<1>9. TeardownSafe'
  BY <1>0 DEF TeardownSafe, FreedUnderTaskOnlyIfLate, ListenersSafeUntilFailure,
     DeinitFailsOnlyInTrouble, iotNtpClientStop, Goto, Refused, Note, Return, Call, context,
     client, locals, own, ntp
<1>10. RunningMeansAnswered'
  BY <1>0 DEF RunningMeansAnswered, iotNtpClientStop, Goto, Refused, Note, Return, Call,
     context, client, locals, own, ntp
<1> QED
  BY <1>1, <1>2, <1>3, <1>4, <1>5, <1>6, <1>7, <1>8, <1>9, <1>10 DEF PlatformInv

\* iotNtpClientDeinit of a client with a task tells the task to end.
LEMMA TerminateStep == ASSUME PlatformInv, undefined = {}, Terminate, thread,
         pc \in {"cleanup", "deinit"}, Goto("deinit") PROVE PlatformInv'
<1>0. /\ Typed /\ Fresh /\ TaskInv /\ ErrorInv /\ CallInv /\ AnswersInv /\ TidyInv /\ ReadyInv
      /\ TeardownSafe /\ RunningMeansAnswered
  BY DEF PlatformInv
<1>q. queue' \in Seq(Events) /\ (\A x : Queued(x)' => Queued(x) \/ x = "TERMINATE")
      /\ (StopOnce => StopOnce')
  BY <1>0, PutEvent DEF Terminate, MustTerminate, Typed, Events
<1>1. Typed'
  <2>1. queue' \in Seq(Events)
    BY <1>0, <1>q DEF Typed, Terminate, MustTerminate, Goto, Refused, Note, Return, Call,
       context, client, locals, own, ntp
  <2>2. ScalarsTyped'
    BY <1>0, <1>q DEF Typed, ScalarsTyped, TaskPlaces, Results, Terminate, MustTerminate,
       Goto, Refused, Note, Return, Call, context, client, locals, own, ntp
  <2>3. BooleansTyped'
    BY <1>0, <1>q DEF Typed, BooleansTyped, Terminate, MustTerminate, Goto, Refused, Note,
       Return, Call, context, client, locals, own, ntp
  <2>4. SetsTyped'
    BY <1>0, <1>q DEF Typed, SetsTyped, Flags, Troubles, Terminate, MustTerminate, Goto,
       Refused, Note, Return, Call, context, client, locals, own, ntp
  <2>5. OwnTyped'
    BY <1>0, <1>q DEF Typed, OwnTyped, Places, Terminate, MustTerminate, Goto, Refused,
       Note, Return, Call, context, client, locals, own, ntp
  <2> QED
    BY <2>1, <2>2, <2>3, <2>4, <2>5 DEF Typed
<1>2. Fresh'
  BY <1>0 DEF Fresh, Uninitialised, Terminate, MustTerminate, Goto, Refused, Note, Return,
     Call, context, client, locals, own, ntp
<1>3. TaskInv'
  BY <1>0 DEF TaskInv, Terminate, MustTerminate, Goto, Refused, Note, Return, Call, context,
     client, locals, own, ntp
<1>4. ErrorInv'
  BY <1>0 DEF ErrorInv, Results, Terminate, MustTerminate, Goto, Refused, Note, Return,
     Call, context, client, locals, own, ntp
<1>5. CallInv'
  BY <1>0 DEF CallInv, Uninitialised, Fresh, Terminate, MustTerminate, Goto, Refused, Note,
     Return, Call, context, client, locals, own, ntp
<1>6. AnswersInv'
  BY <1>0, <1>q DEF AnswersInv, InTrouble, CallInv, Terminate, MustTerminate, Goto, Refused,
     Note, Return, Call, context, client, locals, own, ntp
<1>7. TidyInv'
  BY <1>0, <1>q DEF TidyInv, Uninitialised, Early, Ending, Typed, ScalarsTyped, Terminate,
     MustTerminate, Goto, Refused, Note, Return, Call, context, client, locals, own, ntp
<1>8. ReadyInv'
  BY <1>0 DEF ReadyInv, Ending, Terminate, MustTerminate, Goto, Refused, Note, Return, Call,
     context, client, locals, own, ntp
<1>9. TeardownSafe'
  BY <1>0 DEF TeardownSafe, FreedUnderTaskOnlyIfLate, ListenersSafeUntilFailure,
     DeinitFailsOnlyInTrouble, Terminate, MustTerminate, Goto, Refused, Note, Return, Call,
     context, client, locals, own, ntp
<1>10. RunningMeansAnswered'
  BY <1>0 DEF RunningMeansAnswered, Terminate, MustTerminate, Goto, Refused, Note, Return,
     Call, context, client, locals, own, ntp
<1> QED
  BY <1>1, <1>2, <1>3, <1>4, <1>5, <1>6, <1>7, <1>8, <1>9, <1>10 DEF PlatformInv

\* iotNtpClientDeinit of a client without a task has nothing to wait for.
LEMMA FreeStep == ASSUME PlatformInv, undefined = {}, Terminate, ~thread,
         pc \in {"cleanup", "deinit"}, Goto("deinit") PROVE PlatformInv'
<1>0. /\ Typed /\ Fresh /\ TaskInv /\ ErrorInv /\ CallInv /\ AnswersInv /\ TidyInv /\ ReadyInv
      /\ TeardownSafe /\ RunningMeansAnswered
  BY DEF PlatformInv
<1>e. queue' = <<>> /\ StopOnce' /\ (\A x : ~Queued(x)') /\ <<>> \in Seq(Events)
  BY DEF Terminate, MustTerminate, FreeAll, ClearContext, StopOnce, Queued
<1>1. Typed'
  <2>1. queue' \in Seq(Events)
    BY <1>0, <1>e DEF Typed, Terminate, MustTerminate, FreeAll, ClearContext, Goto, Return,
       Call, context, client, locals, own, ntp
  <2>2. ScalarsTyped'
    BY <1>0, <1>e DEF Typed, ScalarsTyped, TaskPlaces, Results, Terminate, MustTerminate,
       FreeAll, ClearContext, Goto, Return, Call, context, client, locals, own, ntp
  <2>3. BooleansTyped'
    BY <1>0, <1>e DEF Typed, BooleansTyped, Terminate, MustTerminate, FreeAll, ClearContext,
       Goto, Return, Call, context, client, locals, own, ntp
  <2>4. SetsTyped'
    BY <1>0, <1>e DEF Typed, SetsTyped, Flags, Troubles, Terminate, MustTerminate, FreeAll,
       ClearContext, Goto, Return, Call, context, client, locals, own, ntp
  <2>5. OwnTyped'
    BY <1>0, <1>e DEF Typed, OwnTyped, Places, Terminate, MustTerminate, FreeAll,
       ClearContext, Goto, Return, Call, context, client, locals, own, ntp
  <2> QED
    BY <2>1, <2>2, <2>3, <2>4, <2>5 DEF Typed
<1>2. Fresh'
  BY <1>0 DEF Fresh, Uninitialised, Terminate, MustTerminate, FreeAll, ClearContext, Goto,
     Return, Call, context, client, locals, own, ntp
<1>3. TaskInv'
  BY <1>0 DEF TaskInv, Fresh, Uninitialised, Terminate, MustTerminate, FreeAll,
     ClearContext, Goto, Return, Call, context, client, locals, own, ntp
<1>4. ErrorInv'
  BY <1>0 DEF ErrorInv, Results, Terminate, MustTerminate, FreeAll, ClearContext, Goto,
     Return, Call, context, client, locals, own, ntp
<1>5. CallInv'
  BY <1>0 DEF CallInv, Uninitialised, Terminate, MustTerminate, FreeAll, ClearContext, Goto,
     Return, Call, context, client, locals, own, ntp
<1>6. AnswersInv'
  BY <1>0, <1>e DEF AnswersInv, InTrouble, Fresh, Uninitialised, Terminate, MustTerminate,
     FreeAll, ClearContext, Goto, Return, Call, context, client, locals, own, ntp
<1>7. TidyInv'
  BY <1>0, <1>e DEF TidyInv, Uninitialised, Early, Ending, Fresh, Terminate, MustTerminate,
     FreeAll, ClearContext, Goto, Return, Call, context, client, locals, own, ntp
<1>8. ReadyInv'
  BY <1>0 DEF ReadyInv, Ending, Terminate, MustTerminate, FreeAll, ClearContext, Goto,
     Return, Call, context, client, locals, own, ntp
<1>9. TeardownSafe'
  BY <1>0 DEF TeardownSafe, FreedUnderTaskOnlyIfLate, ListenersSafeUntilFailure,
     DeinitFailsOnlyInTrouble, Fresh, Uninitialised, Terminate, MustTerminate, FreeAll,
     ClearContext, Goto, Return, Call, context, client, locals, own, ntp
<1>10. RunningMeansAnswered'
  BY <1>0 DEF RunningMeansAnswered, Terminate, MustTerminate, FreeAll, ClearContext, Goto,
     Return, Call, context, client, locals, own, ntp
<1> QED
  BY <1>1, <1>2, <1>3, <1>4, <1>5, <1>6, <1>7, <1>8, <1>9, <1>10 DEF PlatformInv

\* The platform deletes its lock and its flags.
LEMMA DeletedStep == ASSUME PlatformInv, undefined = {}, pc = "deinit", call = "none",
         pc' = "idle", DeleteOwn, UNCHANGED <<ntp, res, network_up, network_task>> PROVE PlatformInv'
<1>0. /\ Typed /\ Fresh /\ TaskInv /\ ErrorInv /\ CallInv /\ AnswersInv /\ TidyInv /\ ReadyInv
      /\ TeardownSafe /\ RunningMeansAnswered
  BY DEF PlatformInv
<1>q. queue' = queue => (StopOnce' = StopOnce /\ \A x : Queued(x)' = Queued(x))
  BY DEF StopOnce, Queued
<1>1. Typed'
  <2>1. queue' \in Seq(Events)
    BY <1>0 DEF Typed, DeleteOwn, context, client, locals, own, ntp
  <2>2. ScalarsTyped'
    BY <1>0 DEF Typed, ScalarsTyped, TaskPlaces, Results, DeleteOwn, context, client,
       locals, own, ntp
  <2>3. BooleansTyped'
    BY <1>0 DEF Typed, BooleansTyped, DeleteOwn, context, client, locals, own, ntp
  <2>4. SetsTyped'
    BY <1>0 DEF Typed, SetsTyped, Flags, Troubles, DeleteOwn, context, client, locals, own,
       ntp
  <2>5. OwnTyped'
    BY <1>0 DEF Typed, OwnTyped, Places, DeleteOwn, context, client, locals, own, ntp
  <2> QED
    BY <2>1, <2>2, <2>3, <2>4, <2>5 DEF Typed
<1>2. Fresh'
  BY <1>0 DEF Fresh, Uninitialised, DeleteOwn, context, client, locals, own, ntp
<1>3. TaskInv'
  BY <1>0 DEF TaskInv, DeleteOwn, context, client, locals, own, ntp
<1>4. ErrorInv'
  BY <1>0 DEF ErrorInv, Results, DeleteOwn, context, client, locals, own, ntp
<1>5. CallInv'
  BY <1>0 DEF CallInv, Uninitialised, DeleteOwn, context, client, locals, own, ntp
<1>6. AnswersInv'
  BY <1>0, <1>q DEF AnswersInv, InTrouble, DeleteOwn, context, client, locals, own, ntp
<1>7. TidyInv'
  BY <1>0, <1>q, EmptyQueue DEF TidyInv, Uninitialised, Early, Ending, Fresh, DeleteOwn,
     context, client, locals, own, ntp
<1>8. ReadyInv'
  BY <1>0 DEF ReadyInv, Ending, DeleteOwn, context, client, locals, own, ntp
<1>9. TeardownSafe'
  BY <1>0 DEF TeardownSafe, FreedUnderTaskOnlyIfLate, ListenersSafeUntilFailure,
     DeinitFailsOnlyInTrouble, DeleteOwn, context, client, locals, own, ntp
<1>10. RunningMeansAnswered'
  BY <1>0 DEF RunningMeansAnswered, DeleteOwn, context, client, locals, own, ntp
<1> QED
  BY <1>1, <1>2, <1>3, <1>4, <1>5, <1>6, <1>7, <1>8, <1>9, <1>10 DEF PlatformInv

\* iotNtpClientStop returns: the client has stopped, or iotNtpClientDeinit fails.
LEMMA StopReturnsStep == ASSUME PlatformInv, undefined = {}, StopReturns, Goto("deinit"),
         pc = "deinit" PROVE PlatformInv'
<1>0. /\ Typed /\ Fresh /\ TaskInv /\ ErrorInv /\ CallInv /\ AnswersInv /\ TidyInv /\ ReadyInv
      /\ TeardownSafe /\ RunningMeansAnswered
  BY DEF PlatformInv
<1> DEFINE r == wait_for_ntp_event("STOP")
<1>e. /\ call = "stop" /\ pc' = "deinit" /\ flags' = flags \ {"STOP", "ERROR"}
      /\ troubles' = troubles \cup (IF Flagged("STOP") THEN {} ELSE {"late"})
      /\ IF r = "OK" THEN state' = "STOPPED" /\ call' = "terminate" /\ ret' = "OK" /\ failures' = failures
         ELSE state' = state /\ call' = "none" /\ ret' = r /\ failures' = failures + 1
      /\ UNCHANGED <<error, thread, listeners, time, queue, tpc, socket, working, started, err, timer,
                     undefined, res, alive, event_flags, network_up, network_task>>
  BY DEF StopReturns, WaitEnds, Cleared, AwaitedFlags, Note, Return, Call, Goto, locals
<1>r. /\ r \in Results
      /\ r = "OK" /\ Flagged("STOP") => flags = {"STOP"}
      /\ r # "OK" /\ Flagged("STOP") /\ "fault" \notin troubles =>
           "START" \in flags \/ "TERMINATED" \in flags
      /\ r # "OK" /\ ~Flagged("STOP") => error = "ERR"
  BY <1>0, WaitResult
<1> HIDE DEF r
<1>a. ~InTrouble' => ~InTrouble /\ r = "OK" /\ flags = {"STOP"}
  BY <1>0, <1>e, <1>r DEF InTrouble, AnswersInv
<1>n. failures \in Nat
  BY <1>0 DEF Typed, ScalarsTyped
<1>q. queue' = queue => (StopOnce' = StopOnce /\ \A x : Queued(x)' = Queued(x))
  BY DEF StopOnce, Queued
<1>1. Typed'
  <2>1. queue' \in Seq(Events)
    BY <1>0, <1>e, <1>r DEF Typed
  <2>2. ScalarsTyped'
    BY <1>0, <1>e, <1>r DEF Typed, ScalarsTyped, TaskPlaces, Results
  <2>3. BooleansTyped'
    BY <1>0, <1>e, <1>r DEF Typed, BooleansTyped
  <2>4. SetsTyped'
    BY <1>0, <1>e, <1>r DEF Typed, SetsTyped, Flags, Troubles
  <2>5. OwnTyped'
    BY <1>0, <1>e, <1>r DEF Typed, OwnTyped, Places
  <2> QED
    BY <2>1, <2>2, <2>3, <2>4, <2>5 DEF Typed
<1>2. Fresh'
  BY <1>0, <1>e, <1>r, <1>a, <1>n, <1>q DEF Fresh, Uninitialised, CallInv
<1>3. TaskInv'
  BY <1>0, <1>e, <1>r, <1>a, <1>n, <1>q DEF TaskInv
<1>4. ErrorInv'
  BY <1>0, <1>e, <1>r, <1>a, <1>n, <1>q DEF ErrorInv, Results
<1>5. CallInv'
  BY <1>0, <1>e, <1>r, <1>a, <1>n, <1>q DEF CallInv, Uninitialised
<1>6. AnswersInv'
  BY <1>0, <1>e, <1>r, <1>a, <1>n, <1>q DEF AnswersInv, InTrouble
<1>7. TidyInv'
  BY <1>0, <1>e, <1>r, <1>a, <1>n, <1>q DEF TidyInv, Uninitialised, Early, Ending, CallInv
<1>8. ReadyInv'
  BY <1>0, <1>e, <1>r, <1>a, <1>n, <1>q DEF ReadyInv, Ending
<1>9. TeardownSafe'
  BY <1>0, <1>e, <1>r, <1>a, <1>n, <1>q DEF TeardownSafe, FreedUnderTaskOnlyIfLate,
     ListenersSafeUntilFailure, DeinitFailsOnlyInTrouble, InTrouble, ErrorInv, AnswersInv
<1>10. RunningMeansAnswered'
  BY <1>0, <1>e, <1>r, <1>a, <1>n, <1>q DEF RunningMeansAnswered
<1> QED
  BY <1>1, <1>2, <1>3, <1>4, <1>5, <1>6, <1>7, <1>8, <1>9, <1>10 DEF PlatformInv

\* iotNtpClientDeinit frees the client, or fails.
LEMMA TerminateReturnsStep == ASSUME PlatformInv, undefined = {}, TerminateReturns, Goto("deinit"),
         pc = "deinit" PROVE PlatformInv'
<1>0. /\ Typed /\ Fresh /\ TaskInv /\ ErrorInv /\ CallInv /\ AnswersInv /\ TidyInv /\ ReadyInv
      /\ TeardownSafe /\ RunningMeansAnswered
  BY DEF PlatformInv
<1> DEFINE r == wait_for_ntp_event("TERMINATED")
<1>e. /\ call = "terminating" /\ pc' = "deinit" /\ call' = "none" /\ ret' = r
      /\ troubles' = troubles \cup (IF Flagged("TERMINATED") THEN {} ELSE {"late"})
      /\ IF r = "OK"
           THEN /\ state' = "UNINITIALISED" /\ error' = "OK" /\ thread' = FALSE
                /\ listeners' = <<"none">> /\ time' = 0 /\ queue' = <<>> /\ flags' = {}
                /\ undefined' = undefined \cup (IF tpc = "none" THEN {} ELSE {"deleted"})
                /\ failures' = failures
           ELSE /\ flags' = flags \ {"TERMINATED", "ERROR"} /\ failures' = failures + 1
                /\ UNCHANGED <<state, error, thread, listeners, time, queue, undefined>>
      /\ UNCHANGED <<tpc, socket, working, started, err, timer, res, alive, event_flags, network_up,
                     network_task>>
  BY DEF TerminateReturns, WaitEnds, Cleared, AwaitedFlags, Note, Return, Call, Goto, locals, FreeAll, ClearContext, context
<1>r. /\ r \in Results
      /\ r = "OK" /\ Flagged("TERMINATED") => flags = {"TERMINATED"}
      /\ r # "OK" /\ Flagged("TERMINATED") /\ "fault" \notin troubles =>
           "START" \in flags \/ "STOP" \in flags
      /\ r # "OK" /\ ~Flagged("TERMINATED") => error = "ERR"
  BY <1>0, WaitResult
<1> HIDE DEF r
<1>a. ~InTrouble' => ~InTrouble /\ r = "OK" /\ flags = {"TERMINATED"}
  BY <1>0, <1>e, <1>r DEF InTrouble, AnswersInv
<1>n. failures \in Nat
  BY <1>0 DEF Typed, ScalarsTyped
<1>t. r = "OK" /\ Flagged("TERMINATED") => tpc = "none"
  BY <1>0, <1>r DEF TaskInv
<1>z. /\ <<>> \in Seq(Events) /\ (queue' = queue \/ queue' = <<>>)
      /\ queue' = <<>> => StopOnce' /\ (\A x : ~Queued(x)')
  BY <1>e DEF StopOnce, Queued
<1>q. queue' = queue => (StopOnce' = StopOnce /\ \A x : Queued(x)' = Queued(x))
  BY DEF StopOnce, Queued
<1>1. Typed'
  <2>1. queue' \in Seq(Events)
    BY <1>0, <1>e, <1>r, <1>z DEF Typed
  <2>2. ScalarsTyped'
    BY <1>0, <1>e, <1>r, <1>z DEF Typed, ScalarsTyped, TaskPlaces, Results
  <2>3. BooleansTyped'
    BY <1>0, <1>e, <1>r, <1>z DEF Typed, BooleansTyped
  <2>4. SetsTyped'
    BY <1>0, <1>e, <1>r, <1>z DEF Typed, SetsTyped, Flags, Troubles
  <2>5. OwnTyped'
    BY <1>0, <1>e, <1>r, <1>z DEF Typed, OwnTyped, Places
  <2> QED
    BY <2>1, <2>2, <2>3, <2>4, <2>5 DEF Typed
<1>2. Fresh'
  BY <1>0, <1>e, <1>r, <1>a, <1>n, <1>t, <1>z, <1>q DEF Fresh, Uninitialised, CallInv
<1>3. TaskInv'
  BY <1>0, <1>e, <1>r, <1>a, <1>n, <1>t, <1>z, <1>q DEF TaskInv
<1>4. ErrorInv'
  BY <1>0, <1>e, <1>r, <1>a, <1>n, <1>t, <1>z, <1>q DEF ErrorInv, Results
<1>5. CallInv'
  BY <1>0, <1>e, <1>r, <1>a, <1>n, <1>t, <1>z, <1>q DEF CallInv, Uninitialised
<1>6. AnswersInv'
  BY <1>0, <1>e, <1>r, <1>a, <1>n, <1>t, <1>z, <1>q DEF AnswersInv, InTrouble
<1>7. TidyInv'
  BY <1>0, <1>e, <1>r, <1>a, <1>n, <1>t, <1>z, <1>q DEF TidyInv, Uninitialised, Early,
     Ending, CallInv
<1>8. ReadyInv'
  BY <1>0, <1>e, <1>r, <1>a, <1>n, <1>t, <1>z, <1>q DEF ReadyInv, Ending
<1>9. TeardownSafe'
  BY <1>0, <1>e, <1>r, <1>a, <1>n, <1>t, <1>z, <1>q DEF TeardownSafe,
     FreedUnderTaskOnlyIfLate, ListenersSafeUntilFailure, DeinitFailsOnlyInTrouble,
     InTrouble, ErrorInv, AnswersInv
<1>10. RunningMeansAnswered'
  BY <1>0, <1>e, <1>r, <1>a, <1>n, <1>t, <1>z, <1>q DEF RunningMeansAnswered
<1> QED
  BY <1>1, <1>2, <1>3, <1>4, <1>5, <1>6, <1>7, <1>8, <1>9, <1>10 DEF PlatformInv

-----------------------------------------------------------------------------
(* The theorems.                                                            *)

\* Before the first platform_init.
LEMMA PlatformStart == Init => PlatformInv
<1> SUFFICES ASSUME Init PROVE PlatformInv
  OBVIOUS
<1>1. Typed
  <2>1. queue \in Seq(Events)
    BY DEF Init, NtpInit
  <2>2. ScalarsTyped
    BY DEF Init, NtpInit, ScalarsTyped, TaskPlaces, Results
  <2>3. BooleansTyped /\ SetsTyped
    BY DEF Init, NtpInit, BooleansTyped, SetsTyped
  <2>4. OwnTyped
    BY DEF Init, NtpInit, OwnTyped, Places
  <2> QED
    BY <2>1, <2>2, <2>3, <2>4 DEF Typed
<1>2. StopOnce /\ \A x : ~Queued(x)
  BY EmptyQueue DEF Init, NtpInit
<1>3. Fresh /\ TaskInv /\ ErrorInv /\ CallInv /\ ReadyInv /\ RunningMeansAnswered
  BY DEF Init, NtpInit, Fresh, TaskInv, ErrorInv, CallInv, ReadyInv, RunningMeansAnswered,
     Uninitialised, Ending
<1>4. AnswersInv /\ TidyInv
  BY <1>2 DEF Init, NtpInit, AnswersInv, TidyInv, Uninitialised, Early, Ending
<1>5. TeardownSafe
  BY DEF Init, NtpInit, TeardownSafe, FreedUnderTaskOnlyIfLate, ListenersSafeUntilFailure,
     DeinitFailsOnlyInTrouble
<1> QED
  BY <1>1, <1>3, <1>4, <1>5 DEF PlatformInv

\* Every step of the application, the task, the timer and the network.
LEMMA PlatformStep == PlatformInv /\ [Next]_vars => PlatformInv'
<1> SUFFICES ASSUME PlatformInv, [Next]_vars PROVE PlatformInv'
  OBVIOUS
<1>1. CASE UNCHANGED vars
  <2>1. UNCHANGED <<state, error, thread, listeners, time, queue, flags, call, ret, failures, tpc,
                    socket, working, started, err, timer, undefined, troubles,
                    pc, res, alive, event_flags, network_up, network_task>>
    BY <1>1 DEF vars, ntp, own, context, client, locals
  <2>2. Typed'
    BY <2>1 DEF PlatformInv, Typed, ScalarsTyped, BooleansTyped, SetsTyped, OwnTyped
  <2>3. StopOnce' = StopOnce /\ (\A x : Queued(x)' = Queued(x)) /\ InTrouble' = InTrouble
    BY <2>1 DEF StopOnce, Queued, InTrouble
  <2>4. AnswersInv' /\ TidyInv'
    BY <2>1, <2>3 DEF PlatformInv, AnswersInv, TidyInv, Uninitialised, Early, Ending
  <2>5. Fresh' /\ TaskInv' /\ ErrorInv' /\ CallInv' /\ ReadyInv' /\ RunningMeansAnswered'
    BY <2>1 DEF PlatformInv, Fresh, TaskInv, ErrorInv, CallInv, ReadyInv, RunningMeansAnswered,
       Uninitialised, Ending
  <2>6. TeardownSafe'
    BY <2>1 DEF PlatformInv, TeardownSafe, FreedUnderTaskOnlyIfLate, ListenersSafeUntilFailure,
       DeinitFailsOnlyInTrouble
  <2> QED
    BY <2>2, <2>4, <2>5, <2>6 DEF PlatformInv
<1>2. CASE Next
  <2>0. undefined = {}
    BY <1>2 DEF Next
  <2>1. CASE platform_init \/ platform_deinit \/ \E up \in BOOLEAN : network_state_callback(up)
    BY <2>0, <2>1, InitStep, DeinitStep, NetworkStep
  <2>2. CASE NtpTask \/ (TimerFires /\ UNCHANGED own)
    BY <2>0, <2>2, GetStep, StartStep, UnansweredStep, FailsStep, AnsweredStep, ArmStep, StopStep,
       ReportStep, EndStep, TimerStep DEF NtpTask
  <2>3. CASE DeinitClient
    BY <2>0, <2>3, StopClientStep, TerminateStep, FreeStep DEF DeinitClient
  <2>4. CASE AwaitDeinit
    BY <2>0, <2>4, StopReturnsStep, TerminateStep, FreeStep, TerminateReturnsStep, DeletedStep
       DEF AwaitDeinit
  <2>5. CASE Application
    BY <2>0, <2>3, <2>4, <2>5, UpStep, NetWaitStep, RecheckStep, AddStep, StartClientStep,
       AwaitStartStep, TimeWaitStep, ClearStep DEF Application
  <2> QED
    BY <1>2, <2>1, <2>2, <2>5 DEF Next
<1> QED
  BY <1>1, <1>2

\* The whole invariant of the platform and its NTP client.
THEOREM PlatformSafe == Spec => []PlatformInv
BY PlatformStart, PlatformStep, PTL DEF Spec

\* platform_deinit, and the cleanup of a platform_init that failed, free nothing that
\* the NTP task still uses unless a wait timed out, leave no listener behind unless a
\* deinit failed, and fail only after a timeout, a full queue or a failed call.
THEOREM Teardown == Spec => []TeardownSafe
<1>1. PlatformInv => TeardownSafe
  BY DEF PlatformInv
<1> QED
  BY <1>1, PlatformSafe, PTL

\* A platform_init that reports success with the network up has the time, a running
\* client has been answered unless a wait timed out, and the timer goes on asking
\* unless the task has retried or a deinit failed.
THEOREM TimeSafe == Spec => []TimeKept
<1>1. PlatformInv => TimeKept
  <2> SUFFICES ASSUME PlatformInv PROVE TimeKept
    OBVIOUS
  <2>1. SuccessMeansTimeKnown
    BY DEF PlatformInv, ReadyInv, SuccessMeansTimeKnown, time_read
  <2>2. UpdatesContinue
    <3>1. failures = 0 \/ failures > 0
      BY DEF PlatformInv, Typed, ScalarsTyped
    <3> QED
      BY <3>1 DEF PlatformInv, TidyInv, UpdatesContinue, Ending
  <2> QED
    BY <2>1, <2>2 DEF PlatformInv, TimeKept
<1> QED
  BY <1>1, PlatformSafe, PTL

-----------------------------------------------------------------------------
(* The Azure thread adapter.  Contexts are numbered in the order in which   *)
(* they are allocated, so the list is in order until its end is destroyed.  *)

Active(c) == os_thread[c].state \in {"run", "walk", "put"}
CreatingAt(c, at) == op.name = "create" /\ op.c = c /\ op.at = at

\* threads_last is the context allocated last, destroyed or not, and prev the one
\* allocated before: destroying a context changes neither.
AllocationInv ==
    /\ \A c \in Context : memory[c] # "unused" => c <= threads_last
    /\ \A c \in Context : c <= threads_last => memory[c] # "unused"
    /\ threads_head = IF threads_last = NULL THEN NULL ELSE 1
    /\ \A c \in Context : memory[c] # "unused" => prev[c] = c - 1
    /\ \A c \in Context : memory[c] = "unused" =>
          next[c] = NULL /\ prev[c] = NULL /\ thread_id[c] = NULL /\ os_thread[c].state = "none"
              /\ exit_queue[c] = NoQueue

\* The call in progress.
OpInv ==
    \/ op = NoOp
    \/ /\ op.c \in Context /\ memory[op.c] = "live"
       /\ \/ /\ op.name = "create" /\ op.at \in {"queue", "thread"}
             /\ os_thread[op.c].state = "none" /\ thread_id[op.c] = NULL
          \/ /\ op.name = "create" /\ op.at = "assign"
             /\ os_thread[op.c].state # "none" /\ thread_id[op.c] = NULL
             /\ \A d \in Context : d # op.c /\ Active(d) => os_thread[d].id # os_thread[op.c].id
          \/ /\ op.name = "join" /\ op.at \in {"get", "destroy"}
             /\ thread_id[op.c] # NULL
             /\ op.at = "destroy" => os_thread[op.c].state = "ended"

\* A context outlives its thread, and its queue has a code only after the end.
Life(c) ==
    /\ memory[c] = "freed" => os_thread[c].state \in {"none", "ended"}
    /\ os_thread[c].state = "none" <=> os_thread[c].id = NULL
    /\ thread_id[c] # NULL => thread_id[c] = os_thread[c].id
    /\ memory[c] = "live" /\ thread_id[c] = NULL => op.name = "create" /\ op.c = c
    /\ exit_queue[c] # NoQueue => memory[c] = "live"
    /\ memory[c] = "live" /\ ~CreatingAt(c, "queue") => exit_queue[c] # NoQueue
    /\ CreatingAt(c, "queue") => exit_queue[c] = NoQueue
    /\ \A d \in Context : exit_queue[c] = <<d>> =>
          os_thread[c].state = "ended" /\ (d = c \/ history.reused)
LifeInv == \A c \in Context : Life(c)

\* Threads that have not ended differ in their ids; one has the id of another
\* context only if the id was used again or the context is freed.
IdsInv ==
    \A c, d \in Context : c # d /\ Active(c) =>
        /\ Active(d) => os_thread[c].id # os_thread[d].id
        /\ memory[d] = "live" /\ thread_id[d] = os_thread[c].id => history.reused
        /\ os_thread[c].state = "put" /\ os_thread[c].walk = d => thread_id[d] = os_thread[c].id

\* Until it is damaged the list links each live context to the next live one.
Follows(c, d) ==
    /\ d # NULL => d > c /\ memory[d] = "live"
    /\ d = NULL => c = threads_last
    /\ \A e \in Context : c < e /\ e < d => memory[e] # "live"
ChainInv ==
    history.damaged \/
    /\ threads_last # NULL => memory[threads_last] = "live" /\ memory[threads_head] = "live"
    /\ \A c \in Context : memory[c] = "live" => Follows(c, next[c])
    /\ \A d \in Context : memory[d] = "live" /\ d # threads_head =>
          \E c \in Context : memory[c] = "live" /\ next[c] = d

\* A thread that looks for its context has not passed it, and is at a live one.
WalkInv ==
    /\ \A c \in Context : os_thread[c].state = "walk" =>
          \/ history.damaged \/ history.overtaken
          \/ /\ os_thread[c].walk # NULL => memory[os_thread[c].walk] = "live"
             /\ history.early \/ (os_thread[c].walk # NULL /\ os_thread[c].walk <= c)
    /\ \A c \in Context : os_thread[c].state = "put" =>
          /\ os_thread[c].walk # NULL
          /\ os_thread[c].walk # c =>
                history.reused \/ history.overtaken \/ history.damaged
    /\ history.misused => history.overtaken \/ history.reused \/ history.damaged
    /\ history.unfound => history.early \/ history.damaged \/ history.overtaken
    /\ history.misposted \/ history.wrong => history.reused

ThreadApiInv ==
    ThreadApiTypeOK /\ AllocationInv /\ OpInv /\ LifeInv /\ IdsInv /\ ChainInv /\ WalkInv

-----------------------------------------------------------------------------
\* Queues of one code.
LEMMA QueueFacts ==
  /\ NoQueue # <<>>
  /\ \A d \in Context : /\ <<d>> # <<>> /\ <<d>> # NoQueue
                        /\ Head(<<d>>) = d /\ Tail(<<d>>) = <<>>
                        /\ \A e \in Context : <<d>> = <<e>> => d = e
BY ThreadApiAssumption DEF NoQueue, NULL, Context

\* What a move of one thread changes.
LEMMA MovesFacts ==
  ASSUME ThreadApiTypeOK, NEW c \in Context,
         NEW s \in {"run", "walk", "put", "ended"}, NEW w \in Context \cup {NULL},
         Moves(c, s, w)
  PROVE  /\ os_thread' \in [Context -> OsThreads]
         /\ os_thread'[c].state = s /\ os_thread'[c].walk = w /\ os_thread'[c].id = os_thread[c].id
         /\ \A d \in Context : d # c => os_thread'[d] = os_thread[d]
<1> DEFINE r == [os_thread[c] EXCEPT !.state = s]
           q == [r EXCEPT !.walk = w]
<1> USE DEF OsThreads
<1>1. os_thread \in [Context -> OsThreads] /\ os_thread[c] \in OsThreads
  BY DEF ThreadApiTypeOK
<1>2. r \in OsThreads /\ r.state = s /\ r.id = os_thread[c].id
  BY <1>1
<1>3. q \in OsThreads /\ q.state = s /\ q.id = os_thread[c].id /\ q.walk = w
  BY <1>2
<1>4. os_thread' = [os_thread EXCEPT ![c] = q]
  BY <1>1 DEF Moves
<1> QED
  BY <1>1, <1>3, <1>4

\* Initially there are no contexts.
LEMMA ThreadApiInitial == ThreadApiInit => ThreadApiInv
<1> SUFFICES ASSUME ThreadApiInit PROVE ThreadApiInv
  OBVIOUS
<1> USE ThreadApiAssumption DEF ThreadApiInit, Context, NULL
<1>1. ThreadApiTypeOK
  BY DEF ThreadApiTypeOK, Calls, OsThreads, Histories, NoOp, NoThread, NoHistory
<1>2. AllocationInv /\ OpInv
  BY DEF AllocationInv, OpInv, NoThread
<1>3. LifeInv /\ IdsInv
  BY QueueFacts DEF LifeInv, Life, IdsInv, NoThread, NoOp, Active, CreatingAt
<1>4. ChainInv /\ WalkInv
  BY DEF ChainInv, WalkInv, NoThread, NoHistory
<1> QED
  BY <1>1, <1>2, <1>3, <1>4 DEF ThreadApiInv

\* The invariant says what the runs check.
LEMMA ThreadApiImplied == ThreadApiInv => ChainSoundUntilEndDestroyed /\ ExitHeard
<1> SUFFICES ASSUME ThreadApiInv PROVE ChainSoundUntilEndDestroyed /\ ExitHeard
  OBVIOUS
<1> USE ThreadApiAssumption DEF ThreadApiInv
<1>1. ExitHeard
  BY DEF WalkInv, ExitHeard
<1>2. ASSUME ~history.damaged
      PROVE  /\ {threads_head} \cup {next[c] : c \in Live} = Live \cup {NULL}
             /\ \A c \in Live : next[c] # NULL => next[c] > c
  <2>1. \A c \in Live : next[c] = NULL \/ (next[c] \in Live /\ next[c] > c)
    BY <1>2 DEF ChainInv, Follows, Live, ThreadApiTypeOK
  <2>2. threads_head \in Live \cup {NULL}
    BY <1>2 DEF ChainInv, AllocationInv, Live, ThreadApiTypeOK, NULL, Context
  <2>3. \A d \in Live : d = threads_head \/ \E c \in Live : next[c] = d
    BY <1>2 DEF ChainInv, Live
  <2>4. threads_head = NULL \/ \E c \in Live : next[c] = NULL
    <3>1. CASE threads_last = NULL
      BY <3>1 DEF AllocationInv
    <3>2. CASE threads_last # NULL
      <4>1. threads_last \in Live
        BY <1>2, <3>2 DEF ChainInv, Live, ThreadApiTypeOK
      <4>2. next[threads_last] = NULL
        <5>1. ASSUME next[threads_last] # NULL PROVE FALSE
          <6>1. next[threads_last] \in Live /\ next[threads_last] > threads_last
            BY <2>1, <4>1, <5>1
          <6>2. next[threads_last] <= threads_last
            BY <6>1 DEF AllocationInv, Live
          <6> QED
            BY <6>1, <6>2, <4>1 DEF Live, Context
        <5> QED
          BY <5>1
      <4> QED
        BY <4>1, <4>2
    <3> QED
      BY <3>1, <3>2
  <2> QED
    BY <2>1, <2>2, <2>3, <2>4
<1> QED
  BY <1>1, <1>2 DEF ChainSoundUntilEndDestroyed, WalkInv

\* Destroying the context of the call in progress, whose thread has ended or was
\* never started.  Inside the list the predecessor takes over the link.
LEMMA Destroys ==
  ASSUME ThreadApiInv, NEW c \in Context, op.c = c, op # NoOp,
         os_thread[c].state \in {"none", "ended"},
         destroy_thread_context(c), op' = NoOp, UNCHANGED <<thread_id, os_thread>>
  PROVE  ThreadApiInv'
<1> USE ThreadApiAssumption DEF Calls, OsThreads, Histories
<1>0. ThreadApiTypeOK /\ AllocationInv /\ OpInv /\ LifeInv /\ IdsInv /\ ChainInv /\ WalkInv
  BY DEF ThreadApiInv
<1>1. memory[c] = "live" /\ c \in Nat /\ c > 0 /\ prev[c] = c - 1
  BY <1>0 DEF OpInv, AllocationInv, Context
<1>2. /\ exit_queue' = [exit_queue EXCEPT ![c] = NoQueue]
      /\ memory' = [memory EXCEPT ![c] = "freed"]
      /\ UNCHANGED <<threads_head, threads_last, prev, thread_id, os_thread>>
  BY DEF destroy_thread_context
<1>3. next' = IF prev[c] = NULL THEN next ELSE [next EXCEPT ![prev[c]] = next[c]]
  BY DEF destroy_thread_context, Unlink
<1>4. /\ history'.misused <=> history.misused \/ Freed(prev[c])
      /\ history'.overtaken <=>
            history.overtaken \/ \E d \in Context : os_thread[d].state = "walk" /\ os_thread[d].walk = c
      /\ history'.damaged <=> history.damaged \/ Freed(prev[c]) \/ c \in {threads_head, threads_last}
      /\ history'.unfound = history.unfound /\ history'.early = history.early
      /\ history'.misposted = history.misposted /\ history'.reused = history.reused
      /\ history'.wrong = history.wrong
  BY <1>0 DEF destroy_thread_context, ThreadApiTypeOK
<1>5. ThreadApiTypeOK'
  <2>1. history' \in Histories
    <3> DEFINE h1 == [history EXCEPT !.misused = @ \/ Freed(prev[c])]
               h2 == [h1 EXCEPT !.overtaken =
                         @ \/ \E d \in Context : os_thread[d].state = "walk" /\ os_thread[d].walk = c]
               h3 == [h2 EXCEPT !.damaged = @ \/ Freed(prev[c]) \/ c \in {threads_head, threads_last}]
    <3>1. h1 \in Histories
      BY <1>0 DEF ThreadApiTypeOK
    <3>2. h2 \in Histories
      <4> HIDE DEF h1
      <4> QED
        BY <3>1
    <3>3. h3 \in Histories
      <4> HIDE DEF h2
      <4> QED
        BY <3>2
    <3>4. history' = h3
      BY DEF destroy_thread_context
    <3> QED
      BY <3>3, <3>4
  <2>2. next' \in [Context -> Context \cup {NULL}]
    BY <1>0, <1>3 DEF ThreadApiTypeOK
  <2>3. op' \in Calls
    BY DEF NoOp
  <2> QED
    BY <1>0, <1>2, <2>1, <2>2, <2>3 DEF ThreadApiTypeOK
<1>6. AllocationInv'
  BY <1>0, <1>1, <1>2, <1>3 DEF AllocationInv, ThreadApiTypeOK, Context, NULL
<1>7. OpInv'
  BY DEF OpInv
<1>8. LifeInv'
  <2>1. op' = NoOp /\ NoOp.name = "none"
    BY DEF NoOp
  <2>2. ASSUME NEW d \in Context, d # c, memory[d] = "live"
        PROVE  thread_id[d] # NULL /\ exit_queue[d] # NoQueue
    BY <1>0, <2>2 DEF LifeInv, Life, CreatingAt
  <2>3. ASSUME NEW d \in Context, d # c
        PROVE  memory'[d] = memory[d] /\ exit_queue'[d] = exit_queue[d]
    BY <1>0, <1>2, <2>3 DEF ThreadApiTypeOK
  <2>4. memory'[c] = "freed" /\ exit_queue'[c] = NoQueue
    BY <1>0, <1>2 DEF ThreadApiTypeOK
  <2>5. ASSUME NEW d \in Context PROVE ~CreatingAt(d, "queue")'
    BY <2>1 DEF CreatingAt
  <2>6. Life(c)'
    <3>1. Life(c)
      BY <1>0 DEF LifeInv
    <3>2. memory'[c] # "live" /\ \A d \in Context : exit_queue'[c] # <<d>>
      BY <2>4, QueueFacts
    <3> QED
      BY <1>2, <2>4, <2>5, <3>1, <3>2 DEF Life
  <2>7. ASSUME NEW d \in Context, d # c PROVE Life(d)'
    BY <1>0, <1>2, <1>4, <2>2, <2>3, <2>5, <2>7 DEF LifeInv, Life
  <2> QED
    BY <2>6, <2>7 DEF LifeInv
<1>9. IdsInv'
  BY <1>0, <1>2, <1>4 DEF IdsInv, Active, ThreadApiTypeOK
<1>10. ChainInv'
  <2> SUFFICES ASSUME ~history'.damaged PROVE ChainInv'
    BY DEF ChainInv
  <2>1. ~history.damaged /\ c # threads_head /\ c # threads_last /\ ~Freed(prev[c])
    BY <1>4
  <2>2. c > 1 /\ prev[c] = c - 1 /\ c - 1 \in Context /\ c - 1 # NULL
    BY <1>0, <1>1, <2>1 DEF AllocationInv, Context, NULL
  <2>3. memory[c - 1] = "live"
    <3>1. c <= threads_last /\ threads_last \in Int
      BY <1>0, <1>1 DEF AllocationInv, ThreadApiTypeOK, Context, NULL
    <3>2. memory[c - 1] # "unused"
      BY <1>0, <1>1, <2>2, <3>1 DEF AllocationInv
    <3> QED
      BY <1>0, <2>1, <2>2, <3>2 DEF Freed, ThreadApiTypeOK
  <2>4. /\ threads_last # NULL => memory[threads_last] = "live" /\ memory[threads_head] = "live"
        /\ \A d \in Context : memory[d] = "live" => Follows(d, next[d])
        /\ \A d \in Context : memory[d] = "live" /\ d # threads_head =>
              \E e \in Context : memory[e] = "live" /\ next[e] = d
    BY <1>0, <2>1 DEF ChainInv
  <2>5. next[c - 1] = c
    <3>1. Follows(c - 1, next[c - 1]) /\ next[c - 1] \in Context \cup {NULL}
      BY <1>0, <2>2, <2>3, <2>4 DEF ThreadApiTypeOK
    <3>2. next[c - 1] # NULL
      BY <1>0, <1>1, <2>2, <3>1 DEF Follows, AllocationInv, Context
    <3> QED
      BY <1>1, <2>2, <3>1, <3>2 DEF Follows, Context
  <2>6. next' = [next EXCEPT ![c - 1] = next[c]]
    BY <1>3, <2>2
  <2>7. \A d \in Context : memory'[d] = "live" <=> memory[d] = "live" /\ d # c
    BY <1>0, <1>2 DEF ThreadApiTypeOK
  <2>8. ASSUME NEW d \in Context, memory'[d] = "live" PROVE Follows(d, next[d])' 
    <3>1. memory[d] = "live" /\ d # c /\ Follows(d, next[d]) /\ next[d] \in Context \cup {NULL}
          /\ Follows(c, next[c]) /\ next[c] \in Context \cup {NULL}
      BY <1>0, <1>1, <2>4, <2>7, <2>8 DEF ThreadApiTypeOK
    <3>2. CASE d = c - 1
      <4>1. next'[d] = next[c]
        BY <1>0, <2>6, <3>2, <2>2 DEF ThreadApiTypeOK
      <4> QED
        BY <1>1, <1>2, <2>1, <2>7, <3>1, <3>2, <4>1 DEF Follows, Context, NULL
    <3>3. CASE d # c - 1
      <4>1. next'[d] = next[d]
        BY <1>0, <2>6, <3>3 DEF ThreadApiTypeOK
      <4>2. next[d] # c
        <5>1. ASSUME next[d] = c PROVE FALSE
          <6>1. d < c /\ ~(d < c - 1)
            BY <2>2, <2>3, <3>1, <5>1 DEF Follows, Context, NULL
          <6> QED
            BY <1>1, <3>3, <6>1 DEF Context
        <5> QED
          BY <5>1
      <4> QED
        BY <1>1, <1>2, <2>7, <3>1, <4>1, <4>2 DEF Follows, Context, NULL
    <3> QED
      BY <3>2, <3>3
  <2>9. ASSUME NEW d \in Context, memory'[d] = "live", d # threads_head'
        PROVE  \E e \in Context : memory'[e] = "live" /\ next'[e] = d
    <3>1. memory[d] = "live" /\ d # c /\ d # threads_head
      BY <1>2, <2>7, <2>9
    <3>2. PICK e \in Context : memory[e] = "live" /\ next[e] = d
      BY <2>4, <3>1
    <3>3. CASE e = c
      <4>1. next'[c - 1] = d /\ memory'[c - 1] = "live"
        BY <1>0, <1>1, <2>2, <2>3, <2>6, <2>7, <3>2, <3>3 DEF ThreadApiTypeOK, Context
      <4> QED
        BY <2>2, <4>1
    <3>4. CASE e # c
      <4>1. e # c - 1
        BY <2>5, <3>1, <3>2
      <4>2. next'[e] = d /\ memory'[e] = "live"
        BY <1>0, <2>6, <2>7, <3>2, <3>4, <4>1 DEF ThreadApiTypeOK
      <4> QED
        BY <4>2
    <3> QED
      BY <3>3, <3>4
  <2>10. threads_last' # NULL => memory'[threads_last'] = "live" /\ memory'[threads_head'] = "live"
    BY <1>0, <1>2, <2>1, <2>4, <2>7 DEF ThreadApiTypeOK, AllocationInv, NULL, Context
  <2> QED
    BY <2>8, <2>9, <2>10 DEF ChainInv
<1>11. WalkInv'
  <2>1. ASSUME NEW d \in Context, os_thread[d].state = "walk", ~history'.damaged, ~history'.overtaken
        PROVE  os_thread[d].walk # c
    BY <1>4, <2>1
  <2> QED
    BY <1>0, <1>2, <1>4, <2>1 DEF WalkInv, ThreadApiTypeOK
<1> QED
  BY <1>5, <1>6, <1>7, <1>8, <1>9, <1>10, <1>11 DEF ThreadApiInv

\* A context is allocated at the end of the list.
LEMMA Creates == ThreadApiInv /\ ThreadAPI_Create => ThreadApiInv'
<1> SUFFICES ASSUME ThreadApiInv, ThreadAPI_Create PROVE ThreadApiInv'
  OBVIOUS
<1> USE ThreadApiAssumption DEF Calls, OsThreads, Histories
<1>0. ThreadApiTypeOK /\ AllocationInv /\ OpInv /\ LifeInv /\ IdsInv /\ ChainInv /\ WalkInv
  BY DEF ThreadApiInv
<1>1. PICK c \in Context :
          /\ memory[c] = "unused" /\ \A d \in 1..(c - 1) : memory[d] # "unused"
          /\ memory' = [memory EXCEPT ![c] = "live"]
          /\ op' = [name |-> "create", c |-> c, at |-> "queue"]
          /\ threads_last' = c
          /\ \/ /\ threads_last # NULL
                /\ prev' = [prev EXCEPT ![c] = threads_last]
                /\ next' = [next EXCEPT ![threads_last] = c]
                /\ Mark("misused", Freed(threads_last))
                /\ UNCHANGED threads_head
             \/ /\ threads_last = NULL
                /\ threads_head' = c
                /\ UNCHANGED <<prev, next, history>>
  BY DEF ThreadAPI_Create
<1>2. UNCHANGED <<thread_id, exit_queue, os_thread>> /\ op = NoOp
  BY DEF ThreadAPI_Create
<1>3. threads_last = c - 1 /\ c \in Nat /\ c > 0
  <2>1. ~(c <= threads_last) /\ threads_last \in Nat /\ c \in Nat /\ c > 0
    BY <1>0, <1>1 DEF AllocationInv, ThreadApiTypeOK, Context, NULL
  <2>2. c > 1 => c - 1 \in Context /\ memory[c - 1] # "unused"
    BY <1>1, <2>1 DEF Context
  <2>3. c > 1 => c - 1 <= threads_last
    BY <1>0, <2>2 DEF AllocationInv
  <2> QED
    BY <2>1, <2>3
<1>4. /\ history' \in Histories
      /\ history'.misused => history.misused \/ Freed(threads_last)
      /\ history'.damaged = history.damaged /\ history'.overtaken = history.overtaken
      /\ history'.unfound = history.unfound /\ history'.early = history.early
      /\ history'.misposted = history.misposted /\ history'.reused = history.reused
      /\ history'.wrong = history.wrong
  BY <1>0, <1>1 DEF Mark, ThreadApiTypeOK
<1>5. /\ prev' = [prev EXCEPT ![c] = c - 1]
      /\ next' = IF c = 1 THEN next ELSE [next EXCEPT ![c - 1] = c]
      /\ threads_head' = 1
  BY <1>0, <1>1, <1>3 DEF AllocationInv, ThreadApiTypeOK, NULL
<1>6. \A d \in Context : memory'[d] = IF d = c THEN "live" ELSE memory[d]
  BY <1>0, <1>1 DEF ThreadApiTypeOK
<1>7. ThreadApiTypeOK'
  <2>1. next' \in [Context -> Context \cup {NULL}] /\ prev' \in [Context -> Context \cup {NULL}]
    BY <1>0, <1>3, <1>5 DEF ThreadApiTypeOK, Context, NULL
  <2>2. threads_head' \in Context /\ threads_last' \in Context
    BY <1>1, <1>3, <1>5 DEF Context
  <2>3. op' \in Calls
    BY <1>1
  <2> QED
    BY <1>0, <1>1, <1>2, <1>4, <2>1, <2>2, <2>3 DEF ThreadApiTypeOK
<1>8. AllocationInv'
  <2>1. \A d \in Context : memory'[d] # "unused" <=> d <= c
    BY <1>0, <1>3, <1>6 DEF AllocationInv, Context
  <2>2. \A d \in Context : memory'[d] # "unused" => prev'[d] = d - 1
    BY <1>0, <1>3, <1>5, <1>6 DEF AllocationInv, ThreadApiTypeOK
  <2>3. \A d \in Context : memory'[d] = "unused" => next'[d] = NULL /\ prev'[d] = NULL
    BY <1>0, <1>3, <1>5, <1>6, <2>1 DEF AllocationInv, ThreadApiTypeOK, Context
  <2> QED
    BY <1>0, <1>1, <1>2, <1>3, <1>5, <1>6, <2>1, <2>2, <2>3 DEF AllocationInv, NULL
<1>9. OpInv'
  BY <1>0, <1>1, <1>2, <1>6 DEF OpInv, AllocationInv
<1>10. LifeInv'
  <2>1. \A d \in Context : ~CreatingAt(d, "queue")
    BY <1>2 DEF CreatingAt, NoOp
  <2>2. \A d \in Context : CreatingAt(d, "queue")' <=> d = c
    BY <1>1 DEF CreatingAt
  <2>3. Life(c)'
    BY <1>0, <1>1, <1>2, <1>6, <2>2, QueueFacts DEF LifeInv, Life, AllocationInv
  <2>4. ASSUME NEW d \in Context, d # c PROVE Life(d)'
    <3>1. ~(memory[d] = "live" /\ thread_id[d] = NULL)
      BY <1>0, <1>2 DEF LifeInv, Life, NoOp
    <3> QED
      BY <1>0, <1>2, <1>4, <1>6, <2>1, <2>2, <2>4, <3>1 DEF LifeInv, Life
  <2> QED
    BY <2>3, <2>4 DEF LifeInv
<1>11. IdsInv'
  <2>1. \A d \in Context : memory'[d] = "live" => memory[d] = "live" \/ thread_id[d] = NULL
    BY <1>0, <1>1, <1>6 DEF AllocationInv
  <2>2. \A d \in Context : Active(d) => os_thread[d].id # NULL
    BY <1>0 DEF LifeInv, Life, Active
  <2> QED
    BY <1>0, <1>2, <1>4, <2>1, <2>2 DEF IdsInv, Active
<1>12. ChainInv'
  <2> SUFFICES ASSUME ~history.damaged PROVE ChainInv'
    BY <1>4 DEF ChainInv
  <2>1. /\ threads_last # NULL => memory[threads_last] = "live" /\ memory[threads_head] = "live"
        /\ \A d \in Context : memory[d] = "live" => Follows(d, next[d])
        /\ \A d \in Context : memory[d] = "live" /\ d # threads_head =>
              \E e \in Context : memory[e] = "live" /\ next[e] = d
    BY <1>0 DEF ChainInv
  <2>2. \A d \in Context : memory[d] = "live" => d < c
    BY <1>0, <1>3 DEF AllocationInv, Context
  <2>3. ASSUME NEW d \in Context, memory'[d] = "live" PROVE Follows(d, next[d])'
    <3>1. CASE d = c
      <4>1. next'[d] = NULL
        BY <1>0, <1>1, <1>3, <1>5, <3>1 DEF AllocationInv, ThreadApiTypeOK
      <4> QED
        BY <1>1, <1>3, <3>1, <4>1 DEF Follows, Context, NULL
    <3>2. CASE d # c
      <4>1. memory[d] = "live" /\ d < c /\ d \in Nat /\ d > 0
        BY <1>6, <2>2, <2>3, <3>2 DEF Context
      <4>2. CASE d = c - 1
        <5>1. next'[d] = c /\ memory'[c] = "live"
          BY <1>0, <1>5, <1>6, <4>1, <4>2 DEF ThreadApiTypeOK
        <5> QED
          BY <1>3, <4>2, <5>1 DEF Follows, Context, NULL
      <4>3. CASE d # c - 1
        <5>1. next'[d] = next[d] /\ Follows(d, next[d]) /\ next[d] \in Context \cup {NULL}
          BY <1>0, <1>5, <2>1, <4>1, <4>3 DEF ThreadApiTypeOK
        <5>2. next[d] # NULL /\ next[d] \in Context /\ memory[next[d]] = "live" /\ next[d] < c
          BY <1>3, <2>2, <4>1, <4>3, <5>1 DEF Follows
        <5> QED
          BY <1>1, <1>3, <1>6, <4>1, <5>1, <5>2 DEF Follows, Context, NULL
      <4> QED
        BY <4>2, <4>3
    <3> QED
      BY <3>1, <3>2
  <2>4. ASSUME NEW d \in Context, memory'[d] = "live", d # threads_head'
        PROVE  \E e \in Context : memory'[e] = "live" /\ next'[e] = d
    <3>1. d # 1
      BY <1>5, <2>4
    <3>2. CASE d = c
      <4>1. c - 1 \in Context /\ next'[c - 1] = c
        BY <1>0, <1>3, <1>5, <3>1, <3>2 DEF ThreadApiTypeOK, Context
      <4>2. memory'[c - 1] = "live"
        BY <1>3, <1>6, <2>1, <3>1, <3>2, <4>1 DEF NULL
      <4> QED
        BY <3>2, <4>1, <4>2
    <3>3. CASE d # c
      <4>1. memory[d] = "live" /\ d < c /\ d # threads_head
        BY <1>0, <1>3, <1>6, <2>2, <2>4, <3>1, <3>3 DEF AllocationInv, Context, NULL
      <4>2. PICK e \in Context : memory[e] = "live" /\ next[e] = d
        BY <2>1, <4>1
      <4>3. e # c - 1
        <5>1. Follows(e, d) /\ d # NULL
          BY <2>1, <4>2 DEF Context, NULL
        <5> QED
          BY <1>3, <4>1, <5>1 DEF Follows, Context
      <4>4. next'[e] = d /\ memory'[e] = "live"
        BY <1>0, <1>5, <1>6, <4>2, <4>3 DEF ThreadApiTypeOK
      <4> QED
        BY <4>4
    <3> QED
      BY <3>2, <3>3
  <2>5. memory'[threads_last'] = "live" /\ memory'[threads_head'] = "live"
    <3>1. c = 1 \/ memory[1] = "live"
      BY <1>0, <1>3, <2>1 DEF AllocationInv, NULL
    <3>2. 1 \in Context
      BY <1>3 DEF Context
    <3> QED
      BY <1>1, <1>5, <1>6, <3>1, <3>2
  <2> QED
    BY <2>3, <2>4, <2>5 DEF ChainInv
<1>13. WalkInv'
  <2>1. \A d \in Context : memory[d] = "live" => memory'[d] = "live"
    BY <1>6
  <2>2. Freed(threads_last) => history.damaged
    BY <1>0 DEF Freed, ChainInv
  <2> QED
    BY <1>0, <1>2, <1>4, <2>1, <2>2 DEF WalkInv, ThreadApiTypeOK
<1> QED
  BY <1>7, <1>8, <1>9, <1>10, <1>11, <1>12, <1>13 DEF ThreadApiInv

\* The list is as it was when neither it nor the contexts' memory changed.
LEMMA ListKept ==
  ASSUME ThreadApiInv, UNCHANGED <<list, memory>>, history.damaged => history'.damaged
  PROVE  ChainInv'
<1>1. ChainInv
  BY DEF ThreadApiInv
<1>2. \A c \in Context : Follows(c, next[c])' <=> Follows(c, next[c])
  BY DEF Follows, list
<1> QED
  BY <1>1, <1>2 DEF ChainInv, list

\* The rest of ThreadAPI_Create: the queue and the thread, or the context goes.
LEMMA CreatesQueue == ThreadApiInv /\ CreateQueue => ThreadApiInv'
<1> SUFFICES ASSUME ThreadApiInv, CreateQueue PROVE ThreadApiInv'
  OBVIOUS
<1> USE ThreadApiAssumption DEF Calls, OsThreads, Histories
<1>0. ThreadApiTypeOK /\ AllocationInv /\ OpInv /\ LifeInv /\ IdsInv /\ ChainInv /\ WalkInv
  BY DEF ThreadApiInv
<1>1. /\ op.name = "create" /\ op.at = "queue" /\ op.c \in Context /\ memory[op.c] = "live"
      /\ os_thread[op.c].state = "none" /\ thread_id[op.c] = NULL
      /\ UNCHANGED <<thread_id, os_thread>>
  BY <1>0 DEF CreateQueue, At, OpInv, NoOp
<1>2. CASE destroy_thread_context(op.c) /\ Finish
  BY <1>1, <1>2, Destroys DEF Finish, NoOp
<1>3. CASE /\ exit_queue' = [exit_queue EXCEPT ![op.c] = <<>>]
           /\ GoTo("thread")
           /\ UNCHANGED <<list, memory, history>>
  <2>1. /\ op'.name = "create" /\ op'.c = op.c /\ op'.at = "thread"
        /\ op' \in Calls
    BY <1>0, <1>1, <1>3 DEF GoTo, ThreadApiTypeOK
  <2>2. ThreadApiTypeOK'
    BY <1>0, <1>1, <1>3, <2>1 DEF ThreadApiTypeOK, list
  <2>3. AllocationInv' /\ OpInv'
    BY <1>0, <1>1, <1>3, <2>1 DEF AllocationInv, OpInv, ThreadApiTypeOK, list
  <2>4. LifeInv'
    <3>1. \A d \in Context : d # op.c => exit_queue'[d] = exit_queue[d] /\ ~CreatingAt(d, "queue")
      BY <1>0, <1>3 DEF ThreadApiTypeOK, CreatingAt
    <3>2. exit_queue'[op.c] = <<>> /\ \A d \in Context : ~CreatingAt(d, "queue")'
      BY <1>0, <1>1, <1>3, <2>1 DEF ThreadApiTypeOK, CreatingAt
    <3>3. Life(op.c)'
      BY <1>0, <1>1, <1>3, <2>1, <3>2, QueueFacts DEF LifeInv, Life
    <3>4. ASSUME NEW d \in Context, d # op.c PROVE Life(d)'
      BY <1>0, <1>1, <1>3, <2>1, <3>1, <3>2, <3>4 DEF LifeInv, Life
    <3>5. ASSUME NEW d \in Context PROVE Life(d)'
      <4>1. CASE d = op.c
        BY <3>3, <4>1, <2>1 DEF Life, CreatingAt
      <4> QED
        BY <3>4, <4>1
    <3> QED
      BY <3>5 DEF LifeInv
  <2>5. IdsInv' /\ WalkInv'
    BY <1>0, <1>1, <1>3 DEF IdsInv, WalkInv, Active, list
  <2> QED
    BY <1>3, <2>2, <2>3, <2>4, <2>5, ListKept DEF ThreadApiInv
<1> QED
  BY <1>2, <1>3 DEF CreateQueue

\* osThreadNew starts the thread, with an id no thread has that has not ended.
LEMMA CreatesThread == ThreadApiInv /\ CreateThread => ThreadApiInv'
<1> SUFFICES ASSUME ThreadApiInv, CreateThread PROVE ThreadApiInv'
  OBVIOUS
<1> USE ThreadApiAssumption DEF Calls, OsThreads, Histories
<1>0. ThreadApiTypeOK /\ AllocationInv /\ OpInv /\ LifeInv /\ IdsInv /\ ChainInv /\ WalkInv
  BY DEF ThreadApiInv
<1>1. /\ op.name = "create" /\ op.at = "thread" /\ op.c \in Context /\ memory[op.c] = "live"
      /\ os_thread[op.c].state = "none" /\ thread_id[op.c] = NULL
      /\ UNCHANGED thread_id
  BY <1>0 DEF CreateThread, At, OpInv, NoOp
<1>2. CASE destroy_thread_context(op.c) /\ Finish /\ UNCHANGED os_thread
  BY <1>1, <1>2, Destroys DEF Finish, NoOp
<1>3. ASSUME NEW tid \in ThreadId,
             ~InUse(tid),
             os_thread' = [os_thread EXCEPT ![op.c] = [state |-> "run", id |-> tid, walk |-> NULL]],
             Mark("reused", \E c \in Context : memory[c] = "live" /\ thread_id[c] = tid),
             GoTo("assign"),
             UNCHANGED <<list, exit_queue, memory>>
      PROVE  ThreadApiInv'
  <2>1. /\ op'.name = "create" /\ op'.c = op.c /\ op'.at = "assign"
        /\ op' \in Calls
    BY <1>0, <1>1, <1>3 DEF GoTo, ThreadApiTypeOK
  <2>2. /\ history' \in Histories
        /\ history'.reused <=> history.reused \/ \E c \in Context : memory[c] = "live" /\ thread_id[c] = tid
        /\ history'.damaged = history.damaged /\ history'.overtaken = history.overtaken
        /\ history'.unfound = history.unfound /\ history'.early = history.early
        /\ history'.misposted = history.misposted /\ history'.misused = history.misused
        /\ history'.wrong = history.wrong
    BY <1>0, <1>3 DEF Mark, ThreadApiTypeOK
  <2>3. /\ os_thread'[op.c].state = "run" /\ os_thread'[op.c].id = tid
        /\ \A d \in Context : d # op.c => os_thread'[d] = os_thread[d]
    BY <1>0, <1>1, <1>3 DEF ThreadApiTypeOK
  <2>4. tid # NULL /\ \A d \in Context : Active(d) => os_thread[d].id # tid
    BY <1>3 DEF InUse, Active, NULL
  <2>5. ThreadApiTypeOK'
    BY <1>0, <1>1, <1>3, <2>1, <2>2 DEF ThreadApiTypeOK, list
  <2>6. AllocationInv'
    <3>1. \A d \in Context : memory[d] = "unused" => d # op.c
      BY <1>1
    <3> QED
      BY <1>0, <1>1, <1>3, <2>3, <3>1 DEF AllocationInv, list
  <2>7. OpInv'
    BY <1>0, <1>1, <1>3, <2>1, <2>3, <2>4 DEF OpInv, Active
  <2>8. LifeInv'
    <3>1. \A d \in Context : ~CreatingAt(d, "queue") /\ ~CreatingAt(d, "queue")'
      BY <1>1, <2>1 DEF CreatingAt
    <3>2. ASSUME NEW d \in Context, d # op.c PROVE Life(d)'
      BY <1>0, <1>1, <1>3, <2>1, <2>2, <2>3, <3>1, <3>2 DEF LifeInv, Life
    <3>3. ASSUME NEW d \in Context, d = op.c PROVE Life(d)'
      BY <1>0, <1>1, <1>3, <2>1, <2>2, <2>3, <2>4, <3>1, <3>3 DEF LifeInv, Life
    <3> QED
      BY <3>2, <3>3 DEF LifeInv
  <2>9. IdsInv'
    <3>1. \A d \in Context : d # op.c => (Active(d)' <=> Active(d))
      BY <2>3 DEF Active
    <3>2. Active(op.c)' /\ os_thread'[op.c].state # "put"
      BY <2>1, <2>3 DEF Active
    <3>3. ASSUME NEW c \in Context, NEW d \in Context, c # d, Active(c)'
          PROVE  /\ Active(d)' => os_thread'[c].id # os_thread'[d].id
                 /\ memory'[d] = "live" /\ thread_id'[d] = os_thread'[c].id => history'.reused
                 /\ os_thread'[c].state = "put" /\ os_thread'[c].walk = d => thread_id'[d] = os_thread'[c].id
      <4>1. CASE c = op.c
        BY <1>1, <1>3, <2>2, <2>3, <2>4, <3>1, <3>2, <3>3, <4>1
      <4>2. CASE c # op.c
        <5>1. Active(c) /\ os_thread'[c] = os_thread[c]
          BY <2>3, <3>1, <3>3, <4>2
        <5> QED
          BY <1>0, <1>1, <1>3, <2>2, <2>3, <2>4, <3>1, <3>3, <5>1 DEF IdsInv
      <4> QED
        BY <4>1, <4>2
    <3> QED
      BY <3>3 DEF IdsInv, Active
  <2>10. WalkInv'
    BY <1>0, <1>1, <1>3, <2>2, <2>3 DEF WalkInv
  <2>11. ChainInv'
    BY <1>3, <2>2, ListKept
  <2> QED
    BY <2>5, <2>6, <2>7, <2>8, <2>9, <2>10, <2>11 DEF ThreadApiInv
<1> QED
  BY <1>2, <1>3 DEF CreateThread

\* The id is stored after the thread was started.
LEMMA AssignsId == ThreadApiInv /\ AssignId => ThreadApiInv'
<1> SUFFICES ASSUME ThreadApiInv, AssignId PROVE ThreadApiInv'
  OBVIOUS
<1> USE ThreadApiAssumption DEF Calls, OsThreads, Histories
<1>0. ThreadApiTypeOK /\ AllocationInv /\ OpInv /\ LifeInv /\ IdsInv /\ ChainInv /\ WalkInv
  BY DEF ThreadApiInv
<1>1. /\ op.name = "create" /\ op.at = "assign" /\ op.c \in Context /\ memory[op.c] = "live"
      /\ os_thread[op.c].state # "none" /\ thread_id[op.c] = NULL
      /\ \A d \in Context : d # op.c /\ Active(d) => os_thread[d].id # os_thread[op.c].id
  BY <1>0 DEF AssignId, At, OpInv, NoOp
<1>2. /\ thread_id' = [thread_id EXCEPT ![op.c] = os_thread[op.c].id]
      /\ op' = NoOp
      /\ UNCHANGED <<list, exit_queue, memory, os_thread, history>>
  BY DEF AssignId, Finish
<1>3. ThreadApiTypeOK'
  BY <1>0, <1>1, <1>2 DEF ThreadApiTypeOK, NoOp, list
<1>4. /\ thread_id'[op.c] = os_thread[op.c].id /\ os_thread[op.c].id # NULL
      /\ \A d \in Context : d # op.c => thread_id'[d] = thread_id[d]
  BY <1>0, <1>1, <1>2 DEF ThreadApiTypeOK, LifeInv, Life
<1>5. AllocationInv' /\ OpInv'
  BY <1>0, <1>1, <1>2, <1>4 DEF AllocationInv, OpInv, list
<1>6. LifeInv'
  <2>1. \A d \in Context : ~CreatingAt(d, "queue") /\ ~CreatingAt(d, "queue")'
    BY <1>1, <1>2 DEF CreatingAt, NoOp
  <2>2. ASSUME NEW d \in Context, d # op.c PROVE Life(d)'
    BY <1>0, <1>1, <1>2, <1>4, <2>1, <2>2 DEF LifeInv, Life
  <2>3. ASSUME NEW d \in Context, d = op.c PROVE Life(d)'
    BY <1>0, <1>1, <1>2, <1>4, <2>1, <2>3 DEF LifeInv, Life
  <2> QED
    BY <2>2, <2>3 DEF LifeInv
<1>7. IdsInv'
  <2>1. ASSUME NEW c \in Context, c # op.c, os_thread[c].walk = op.c
        PROVE  ~(Active(c) /\ os_thread[c].state = "put")
    <3>1. ASSUME Active(c), os_thread[c].state = "put" PROVE FALSE
      BY <1>0, <1>1, <2>1, <3>1 DEF IdsInv, LifeInv, Life
    <3> QED
      BY <3>1
  <2> QED
    BY <1>0, <1>1, <1>2, <1>4, <2>1 DEF IdsInv, Active
<1>8. WalkInv'
  BY <1>0, <1>2 DEF WalkInv, list
<1> QED
  BY <1>2, <1>3, <1>5, <1>6, <1>7, <1>8, ListKept DEF ThreadApiInv

\* ThreadAPI_Join: the wait, the code, the end of the context.
LEMMA Joins ==
  ThreadApiInv /\ (JoinGet \/ JoinDestroy \/ \E c \in Context : ThreadAPI_Join(c)) => ThreadApiInv'
<1> SUFFICES ASSUME ThreadApiInv, JoinGet \/ JoinDestroy \/ \E c \in Context : ThreadAPI_Join(c)
             PROVE  ThreadApiInv'
  OBVIOUS
<1> USE ThreadApiAssumption DEF Calls, OsThreads, Histories
<1>0. ThreadApiTypeOK /\ AllocationInv /\ OpInv /\ LifeInv /\ IdsInv /\ ChainInv /\ WalkInv
  BY DEF ThreadApiInv
<1>1. ASSUME NEW c \in Context, ThreadAPI_Join(c) PROVE ThreadApiInv'
  <2>1. /\ op = NoOp /\ memory[c] = "live" /\ thread_id[c] # NULL
        /\ op' = [name |-> "join", c |-> c, at |-> "get"]
        /\ UNCHANGED <<list, thread_id, exit_queue, memory, os_thread, history>>
    BY <1>1 DEF ThreadAPI_Join
  <2>2. ThreadApiTypeOK'
    BY <1>0, <2>1 DEF ThreadApiTypeOK, list
  <2>3. AllocationInv' /\ OpInv'
    BY <1>0, <2>1 DEF AllocationInv, OpInv, list
  <2>4. \A d \in Context : ~CreatingAt(d, "queue") /\ ~CreatingAt(d, "queue")' /\ op.name # "create"
    BY <2>1 DEF CreatingAt, NoOp
  <2>5. LifeInv'
    BY <1>0, <2>1, <2>4 DEF LifeInv, Life
  <2>6. IdsInv' /\ WalkInv'
    BY <1>0, <2>1 DEF IdsInv, WalkInv, Active, list
  <2> QED
    BY <2>1, <2>2, <2>3, <2>5, <2>6, ListKept DEF ThreadApiInv
<1>2. CASE JoinDestroy
  <2>1. op.c \in Context /\ os_thread[op.c].state = "ended" /\ op.name = "join" /\ op' = NoOp
        /\ destroy_thread_context(op.c) /\ UNCHANGED <<thread_id, os_thread>>
    BY <1>0, <1>2 DEF JoinDestroy, At, OpInv, NoOp, Finish
  <2> QED
    BY <2>1, Destroys DEF NoOp
<1>3. CASE JoinGet
  <2>1. /\ op.name = "join" /\ op.at = "get" /\ op.c \in Context /\ memory[op.c] = "live"
        /\ thread_id[op.c] # NULL
    BY <1>0, <1>3 DEF JoinGet, At, OpInv, NoOp
  <2>2. PICK x \in Context : exit_queue[op.c] = <<x>>
    <3>1. exit_queue[op.c] # NoQueue
      BY <1>0, <2>1 DEF LifeInv, Life, CreatingAt
    <3> QED
      BY <1>0, <1>3, <2>1, <3>1 DEF JoinGet, ThreadApiTypeOK
  <2>3. os_thread[op.c].state = "ended" /\ (x # op.c => history.reused)
    BY <1>0, <2>1, <2>2 DEF LifeInv, Life
  <2>4. /\ exit_queue' = [exit_queue EXCEPT ![op.c] = <<>>]
        /\ Mark("wrong", x # op.c)
        /\ GoTo("destroy")
        /\ UNCHANGED <<list, thread_id, memory, os_thread>>
    BY <1>0, <1>3, <2>1, <2>2, QueueFacts DEF JoinGet, ThreadApiTypeOK
  <2>5. /\ op'.name = "join" /\ op'.c = op.c /\ op'.at = "destroy"
        /\ op' \in Calls
    BY <1>0, <2>1, <2>4 DEF GoTo, ThreadApiTypeOK
  <2>6. /\ history' \in Histories
        /\ history'.wrong <=> history.wrong \/ x # op.c
        /\ history'.damaged = history.damaged /\ history'.overtaken = history.overtaken
        /\ history'.unfound = history.unfound /\ history'.early = history.early
        /\ history'.misposted = history.misposted /\ history'.misused = history.misused
        /\ history'.reused = history.reused
    BY <1>0, <2>4 DEF Mark, ThreadApiTypeOK
  <2>7. ThreadApiTypeOK'
    BY <1>0, <2>1, <2>4, <2>5, <2>6 DEF ThreadApiTypeOK, list
  <2>8. /\ exit_queue'[op.c] = <<>> /\ \A d \in Context : d # op.c => exit_queue'[d] = exit_queue[d]
    BY <1>0, <2>1, <2>4 DEF ThreadApiTypeOK
  <2>9. AllocationInv' /\ OpInv'
    <3>1. \A d \in Context : memory[d] = "unused" => d # op.c
      BY <2>1
    <3> QED
      BY <1>0, <2>1, <2>3, <2>4, <2>5, <2>8, <3>1 DEF AllocationInv, OpInv, list
  <2>10. LifeInv'
    <3>1. \A d \in Context : ~CreatingAt(d, "queue") /\ ~CreatingAt(d, "queue")'
      BY <2>1, <2>5 DEF CreatingAt
    <3>2. ASSUME NEW d \in Context, d # op.c PROVE Life(d)'
      BY <1>0, <2>1, <2>4, <2>5, <2>6, <2>8, <3>1, <3>2 DEF LifeInv, Life
    <3>3. ASSUME NEW d \in Context, d = op.c PROVE Life(d)'
      BY <1>0, <2>1, <2>4, <2>5, <2>6, <2>8, <3>1, <3>3, QueueFacts DEF LifeInv, Life
    <3> QED
      BY <3>2, <3>3 DEF LifeInv
  <2>11. IdsInv' /\ WalkInv'
    BY <1>0, <2>3, <2>4, <2>6 DEF IdsInv, WalkInv, Active
  <2>12. ChainInv'
    BY <2>4, <2>6, ListKept
  <2> QED
    BY <2>7, <2>9, <2>10, <2>11, <2>12 DEF ThreadApiInv
<1> QED
  BY <1>1, <1>2, <1>3

-----------------------------------------------------------------------------
\* A thread that moves on, to its end or not, keeps everything but WalkInv and what
\* is in the queues, if it puts its code only in its own queue or, after its id was
\* used again, in that of the thread that had it.
LEMMA ThreadGoes ==
  ASSUME ThreadApiInv, NEW c \in Context, Active(c),
         NEW s \in {"walk", "put", "ended"}, NEW w \in Context \cup {NULL}, Moves(c, s, w),
         UNCHANGED <<list, thread_id, memory, op>>,
         history' \in Histories,
         history'.damaged = history.damaged, history'.reused = history.reused,
         s = "put" /\ w # c => w # NULL /\ thread_id[w] = os_thread[c].id,
         \/ UNCHANGED exit_queue
         \/ \E d \in Context :
               /\ s = "ended" /\ exit_queue[d] = <<>> /\ exit_queue' = [exit_queue EXCEPT ![d] = <<c>>]
               /\ d # c => history.reused /\ os_thread[d].state = "ended"
  PROVE  ThreadApiTypeOK' /\ AllocationInv' /\ OpInv' /\ LifeInv' /\ IdsInv' /\ ChainInv'
<1> USE ThreadApiAssumption DEF Calls, OsThreads, Histories
<1>0. ThreadApiTypeOK /\ AllocationInv /\ OpInv /\ LifeInv /\ IdsInv /\ ChainInv /\ WalkInv
  BY DEF ThreadApiInv
<1>1. /\ os_thread' \in [Context -> OsThreads]
      /\ os_thread'[c].state = s /\ os_thread'[c].walk = w /\ os_thread'[c].id = os_thread[c].id
      /\ \A d \in Context : d # c => os_thread'[d] = os_thread[d]
  BY <1>0, MovesFacts
<1>2. \A d \in Context : /\ os_thread'[d].id = os_thread[d].id
                         /\ Active(d)' => Active(d)
                         /\ os_thread'[d].state = "none" <=> os_thread[d].state = "none"
                         /\ os_thread[d].state = "ended" => os_thread'[d].state = "ended"
  BY <1>1 DEF Active
<1>3. memory[c] = "live"
  BY <1>0 DEF LifeInv, Life, AllocationInv, Active, ThreadApiTypeOK
<1>4. exit_queue' \in [Context -> {NoQueue, <<>>} \cup {<<d>> : d \in Context}]
      /\ \A d \in Context : \/ exit_queue'[d] = exit_queue[d]
                            \/ /\ exit_queue[d] = <<>> /\ exit_queue'[d] = <<c>> /\ s = "ended"
                               /\ d # c => history.reused /\ os_thread[d].state = "ended"
  BY <1>0 DEF ThreadApiTypeOK
<1>5. ThreadApiTypeOK'
  BY <1>0, <1>1, <1>4 DEF ThreadApiTypeOK, list
<1>6. AllocationInv'
  <2>1. \A d \in Context : memory[d] = "unused" => exit_queue'[d] = NoQueue
    BY <1>0, <1>4, QueueFacts DEF AllocationInv
  <2> QED
    BY <1>0, <1>2, <2>1 DEF AllocationInv, list
<1>7. OpInv'
  BY <1>0, <1>2 DEF OpInv
<1>8. LifeInv'
  <2> SUFFICES ASSUME NEW d \in Context PROVE Life(d)'
    BY DEF LifeInv
  <2>1. Life(d) /\ (CreatingAt(d, "queue")' <=> CreatingAt(d, "queue"))
    BY <1>0 DEF LifeInv, CreatingAt
  <2>2. memory[d] = "freed" => os_thread'[d].state \in {"none", "ended"}
    BY <1>2, <2>1, <1>1, <1>3 DEF Life
  <2>3. CASE exit_queue'[d] = exit_queue[d]
    BY <1>2, <2>1, <2>2, <2>3 DEF Life
  <2>4. CASE /\ exit_queue[d] = <<>> /\ exit_queue'[d] = <<c>> /\ s = "ended"
             /\ d # c => history.reused /\ os_thread[d].state = "ended"
    <3>1. os_thread'[d].state = "ended"
      BY <1>1, <1>2, <2>4
    <3>2. \A e \in Context : exit_queue'[d] = <<e>> => e = d \/ history'.reused
      BY <2>4, QueueFacts
    <3>3. exit_queue[d] # NoQueue /\ exit_queue'[d] # NoQueue
      BY <2>4, QueueFacts
    <3> QED
      BY <1>2, <2>1, <2>2, <3>1, <3>2, <3>3 DEF Life
  <2> QED
    BY <1>4, <2>3, <2>4
<1>9. IdsInv'
  <2>1. ASSUME NEW e \in Context, NEW d \in Context, e # d, Active(e)'
        PROVE  /\ Active(d)' => os_thread'[e].id # os_thread'[d].id
               /\ memory'[d] = "live" /\ thread_id'[d] = os_thread'[e].id => history'.reused
               /\ os_thread'[e].state = "put" /\ os_thread'[e].walk = d => thread_id'[d] = os_thread'[e].id
    <3>1. Active(e) /\ os_thread'[e].id = os_thread[e].id
      BY <1>2, <2>1
    <3>2. CASE e = c
      BY <1>0, <1>1, <1>2, <2>1, <3>1, <3>2 DEF IdsInv
    <3>3. CASE e # c
      BY <1>0, <1>1, <1>2, <2>1, <3>1, <3>3 DEF IdsInv
    <3> QED
      BY <3>2, <3>3
  <2> QED
    BY <2>1 DEF IdsInv, Active
<1>10. ChainInv'
  BY ListKept
<1> QED
  BY <1>5, <1>6, <1>7, <1>8, <1>9, <1>10

\* The function returns, or calls ThreadAPI_Exit, which starts at threads_head.
LEMMA Returns ==
  ASSUME ThreadApiInv, NEW c \in Context, thread_wrapper_callback(c) \/ ThreadAPI_Exit(c)
  PROVE  ThreadApiInv'
<1> USE ThreadApiAssumption DEF Calls, OsThreads, Histories
<1>0. ThreadApiTypeOK /\ AllocationInv /\ LifeInv /\ ChainInv /\ WalkInv
  BY DEF ThreadApiInv
<1>1. Active(c) /\ UNCHANGED <<list, thread_id, exit_queue, memory, op, history>>
  BY DEF thread_wrapper_callback, ThreadAPI_Exit, Active
<1>2. CASE Moves(c, "put", c)
  <2>1. ThreadApiTypeOK' /\ AllocationInv' /\ OpInv' /\ LifeInv' /\ IdsInv' /\ ChainInv'
    BY <1>0, <1>1, <1>2, ThreadGoes DEF ThreadApiTypeOK
  <2>2. /\ os_thread'[c].state = "put" /\ os_thread'[c].walk = c
        /\ \A d \in Context : d # c => os_thread'[d] = os_thread[d]
    BY <1>0, <1>2, MovesFacts
  <2>3. WalkInv'
    BY <1>0, <1>1, <2>2 DEF WalkInv, Context, NULL
  <2> QED
    BY <2>1, <2>3 DEF ThreadApiInv
<1>3. CASE Moves(c, "walk", threads_head)
  <2>0. threads_head \in Context \cup {NULL}
    BY <1>0 DEF ThreadApiTypeOK
  <2>1. ThreadApiTypeOK' /\ AllocationInv' /\ OpInv' /\ LifeInv' /\ IdsInv' /\ ChainInv'
    BY <1>0, <1>1, <1>3, <2>0, ThreadGoes DEF ThreadApiTypeOK
  <2>2. /\ os_thread'[c].state = "walk" /\ os_thread'[c].walk = threads_head
        /\ \A d \in Context : d # c => os_thread'[d] = os_thread[d]
    BY <1>0, <1>3, <2>0, MovesFacts
  <2>3. threads_last # NULL /\ threads_head = 1
    <3>1. memory[c] # "unused" /\ c \in Nat /\ c > 0
      BY <1>0, <1>1 DEF AllocationInv, Active, Context
    <3> QED
      BY <1>0, <3>1 DEF AllocationInv, NULL
  <2>4. threads_head # NULL /\ threads_head <= c
    BY <2>3 DEF Context, NULL
  <2>5. history.damaged \/ memory[threads_head] = "live"
    BY <1>0, <2>3 DEF ChainInv
  <2>6. WalkInv'
    BY <1>0, <1>1, <2>2, <2>4, <2>5 DEF WalkInv
  <2> QED
    BY <2>1, <2>6 DEF ThreadApiInv
<1> QED
  BY <1>2, <1>3 DEF thread_wrapper_callback, ThreadAPI_Exit

\* One context of the list is looked at.  A live context that is not the caller's
\* own has the caller's id only if the id was used again.
LEMMA Walks ==
  ASSUME ThreadApiInv, NEW c \in Context, get_current_thread_context(c)
  PROVE  ThreadApiInv'
<1> USE ThreadApiAssumption DEF Calls, OsThreads, Histories
<1> DEFINE here == os_thread[c].walk
           found == here # NULL /\ thread_id[here] = os_thread[c].id
<1>0. ThreadApiTypeOK /\ AllocationInv /\ OpInv /\ LifeInv /\ IdsInv /\ ChainInv /\ WalkInv
  BY DEF ThreadApiInv
<1>1. /\ os_thread[c].state = "walk" /\ Active(c) /\ here \in Context \cup {NULL}
      /\ UNCHANGED <<list, thread_id, exit_queue, memory, op>>
  BY <1>0 DEF get_current_thread_context, Active, ThreadApiTypeOK
<1>2. memory[c] = "live"
  BY <1>0, <1>1 DEF LifeInv, Life, AllocationInv, ThreadApiTypeOK
<1>3. \/ history.damaged \/ history.overtaken
      \/ /\ here # NULL => memory[here] = "live"
         /\ history.early \/ (here # NULL /\ here <= c)
  BY <1>0, <1>1 DEF WalkInv
<1>4. CASE here = NULL /\ Moves(c, "put", c) /\ Mark("unfound", TRUE)
  <2>1. /\ history' \in Histories
        /\ history'.damaged = history.damaged /\ history'.overtaken = history.overtaken
        /\ history'.early = history.early /\ history'.reused = history.reused
        /\ history'.misposted = history.misposted /\ history'.misused = history.misused
        /\ history'.wrong = history.wrong
    BY <1>0, <1>4 DEF Mark, ThreadApiTypeOK
  <2>2. ThreadApiTypeOK' /\ AllocationInv' /\ OpInv' /\ LifeInv' /\ IdsInv' /\ ChainInv'
    BY <1>1, <1>4, <2>1, ThreadGoes
  <2>3. /\ os_thread'[c].state = "put" /\ os_thread'[c].walk = c
        /\ \A d \in Context : d # c => os_thread'[d] = os_thread[d]
    BY <1>0, <1>4, MovesFacts
  <2>4. WalkInv'
    BY <1>0, <1>1, <1>3, <1>4, <2>1, <2>3 DEF WalkInv, Context, NULL
  <2> QED
    BY <2>2, <2>4 DEF ThreadApiInv
<1>5. CASE /\ here # NULL
           /\ IF found THEN Moves(c, "put", here) ELSE Moves(c, "walk", NextContext(here))
           /\ history' = [history EXCEPT !.misused = @ \/ Freed(here),
                                         !.early = @ \/ (here = c /\ ~found)]
  <2>1. /\ history' \in Histories
        /\ history'.misused <=> history.misused \/ Freed(here)
        /\ history'.early <=> history.early \/ (here = c /\ ~found)
        /\ history'.damaged = history.damaged /\ history'.overtaken = history.overtaken
        /\ history'.unfound = history.unfound /\ history'.reused = history.reused
        /\ history'.misposted = history.misposted /\ history'.wrong = history.wrong
    BY <1>0, <1>5 DEF ThreadApiTypeOK
  <2>2. here \in Context /\ next[here] \in Context \cup {NULL}
    BY <1>0, <1>1, <1>5 DEF ThreadApiTypeOK
  <2>3. Freed(here) => history.damaged \/ history.overtaken
    BY <1>3, <2>2 DEF Freed
  <2>4. CASE found
    <3>1. Moves(c, "put", here)
      BY <1>5, <2>4
    <3>2. ThreadApiTypeOK' /\ AllocationInv' /\ OpInv' /\ LifeInv' /\ IdsInv' /\ ChainInv'
      BY <1>1, <1>5, <2>1, <2>2, <2>4, <3>1, ThreadGoes
    <3>3. /\ os_thread'[c].state = "put" /\ os_thread'[c].walk = here
          /\ \A d \in Context : d # c => os_thread'[d] = os_thread[d]
      BY <1>0, <2>2, <3>1, MovesFacts
    <3>4. here # c => history.reused \/ history.overtaken \/ history.damaged
      BY <1>0, <1>1, <1>3, <2>2, <2>4 DEF IdsInv
    <3>5. WalkInv'
      <4> HIDE DEF here, found
      <4> QED
        BY <1>0, <1>1, <1>5, <2>1, <2>3, <3>3, <3>4 DEF WalkInv
    <3> QED
      BY <3>2, <3>5 DEF ThreadApiInv
  <2>5. CASE ~found
    <3>1. Moves(c, "walk", next[here])
      BY <1>5, <2>5 DEF NextContext
    <3>2. ThreadApiTypeOK' /\ AllocationInv' /\ OpInv' /\ LifeInv' /\ IdsInv' /\ ChainInv'
      BY <1>1, <1>5, <2>1, <2>2, <3>1, ThreadGoes
    <3>3. /\ os_thread'[c].state = "walk" /\ os_thread'[c].walk = next[here]
          /\ \A d \in Context : d # c => os_thread'[d] = os_thread[d]
      BY <1>0, <2>2, <3>1, MovesFacts
    <3>4. ASSUME ~history.damaged, ~history.overtaken
          PROVE  /\ next[here] # NULL => memory[next[here]] = "live"
                 /\ history'.early \/ (next[here] # NULL /\ next[here] <= c)
      <4>1. memory[here] = "live" /\ Follows(here, next[here])
        BY <1>0, <1>3, <2>2, <1>5, <3>4 DEF ChainInv
      <4>2. next[here] # NULL => memory[next[here]] = "live"
        BY <4>1 DEF Follows
      <4>3. ASSUME ~history'.early PROVE next[here] # NULL /\ next[here] <= c
        <5>1. here < c /\ c <= threads_last
          BY <1>0, <1>2, <1>3, <2>1, <2>2, <2>5, <3>4, <4>3 DEF AllocationInv, Context
        <5>2. next[here] # NULL
          BY <1>0, <4>1, <5>1, <2>2 DEF Follows, Context, NULL
        <5>3. ~(c < next[here])
          BY <1>2, <4>1, <5>1 DEF Follows
        <5> QED
          BY <2>2, <5>2, <5>3 DEF Context
      <4> QED
        BY <4>2, <4>3
    <3>5. WalkInv'
      <4> HIDE DEF here, found
      <4> QED
        BY <1>0, <1>1, <1>5, <2>1, <2>3, <3>3, <3>4 DEF WalkInv
    <3> QED
      BY <3>2, <3>5 DEF ThreadApiInv
  <2> QED
    BY <2>4, <2>5
<1> QED
  BY <1>4, <1>5 DEF get_current_thread_context

\* The code goes to the queue of the context that was found.
LEMMA Exits ==
  ASSUME ThreadApiInv, NEW c \in Context, exit_thread(c)
  PROVE  ThreadApiInv'
<1> USE ThreadApiAssumption DEF Calls, OsThreads, Histories
<1> DEFINE here == os_thread[c].walk
<1>0. ThreadApiTypeOK /\ AllocationInv /\ OpInv /\ LifeInv /\ IdsInv /\ ChainInv /\ WalkInv
  BY DEF ThreadApiInv
<1>1. /\ os_thread[c].state = "put" /\ Active(c) /\ here \in Context
      /\ UNCHANGED <<list, thread_id, memory, op>>
  BY <1>0 DEF exit_thread, Active, ThreadApiTypeOK, WalkInv
<1>2. here # c => /\ thread_id[here] = os_thread[c].id
                  /\ history.reused \/ history.overtaken \/ history.damaged
  BY <1>0, <1>1 DEF WalkInv, IdsInv
<1>3. CASE /\ exit_queue[here] = <<>> /\ Posts(c, here)
           /\ Mark("misposted", here # c) /\ Moves(c, "ended", NULL)
  <2>1. /\ history' \in Histories
        /\ history'.misposted <=> history.misposted \/ here # c
        /\ history'.damaged = history.damaged /\ history'.overtaken = history.overtaken
        /\ history'.early = history.early /\ history'.reused = history.reused
        /\ history'.unfound = history.unfound /\ history'.misused = history.misused
        /\ history'.wrong = history.wrong
    BY <1>0, <1>3 DEF Mark, ThreadApiTypeOK
  <2>2. memory[here] = "live"
    BY <1>0, <1>1, <1>3, QueueFacts DEF LifeInv, Life
  <2>3. here # c => history.reused
    BY <1>0, <1>1, <1>2, <2>2 DEF IdsInv
  <2>4. here # c => os_thread[here].state = "ended"
    <3>1. os_thread[c].id # NULL
      BY <1>0, <1>1 DEF LifeInv, Life
    <3>2. here # c => os_thread[here].id = os_thread[c].id /\ os_thread[here].state # "none"
      BY <1>0, <1>1, <1>2, <3>1 DEF LifeInv, Life
    <3>3. here # c => ~Active(here)
      BY <1>0, <1>1, <3>2 DEF IdsInv
    <3>4. os_thread[here].state \in {"none", "run", "walk", "put", "ended"}
      BY <1>0, <1>1 DEF ThreadApiTypeOK
    <3> QED
      BY <3>2, <3>3, <3>4 DEF Active
  <2>5. ThreadApiTypeOK' /\ AllocationInv' /\ OpInv' /\ LifeInv' /\ IdsInv' /\ ChainInv'
    BY <1>1, <1>3, <2>1, <2>3, <2>4, ThreadGoes DEF Posts
  <2>6. /\ os_thread'[c].state = "ended"
        /\ \A d \in Context : d # c => os_thread'[d] = os_thread[d]
    BY <1>0, <1>3, MovesFacts
  <2>7. WalkInv'
    <3> HIDE DEF here
    <3> QED
      BY <1>0, <1>1, <2>1, <2>3, <2>6 DEF WalkInv
  <2> QED
    BY <2>5, <2>7 DEF ThreadApiInv
<1>4. CASE /\ exit_queue[here] = NoQueue
           /\ IF here = c THEN Moves(c, "ended", NULL) ELSE Moves(c, "put", c)
           /\ Mark("misused", Freed(here)) /\ UNCHANGED exit_queue
  <2>1. /\ history' \in Histories
        /\ history'.misused <=> history.misused \/ Freed(here)
        /\ history'.damaged = history.damaged /\ history'.overtaken = history.overtaken
        /\ history'.early = history.early /\ history'.reused = history.reused
        /\ history'.unfound = history.unfound /\ history'.misposted = history.misposted
        /\ history'.wrong = history.wrong
    BY <1>0, <1>4 DEF Mark, ThreadApiTypeOK
  <2>2. here # c
    <3>1. memory[c] = "live" /\ os_thread[c].state # "none"
      BY <1>0, <1>1 DEF LifeInv, Life, AllocationInv, ThreadApiTypeOK
    <3>2. ~CreatingAt(c, "queue")
      BY <1>0, <3>1 DEF OpInv, CreatingAt, NoOp
    <3> QED
      BY <1>0, <1>4, <3>1, <3>2 DEF LifeInv, Life
  <2>3. Moves(c, "put", c)
    BY <1>4, <2>2
  <2>4. ThreadApiTypeOK' /\ AllocationInv' /\ OpInv' /\ LifeInv' /\ IdsInv' /\ ChainInv'
    BY <1>1, <1>4, <2>1, <2>3, ThreadGoes
  <2>5. /\ os_thread'[c].state = "put" /\ os_thread'[c].walk = c
        /\ \A d \in Context : d # c => os_thread'[d] = os_thread[d]
    BY <1>0, <2>3, MovesFacts
  <2>6. c # NULL
    BY DEF Context, NULL
  <2>7. WalkInv'
    <3> HIDE DEF here
    <3> QED
      BY <1>0, <1>1, <1>2, <2>1, <2>2, <2>5, <2>6 DEF WalkInv
  <2> QED
    BY <2>4, <2>7 DEF ThreadApiInv
<1> QED
  BY <1>3, <1>4 DEF exit_thread

\* Every step keeps the invariant.
LEMMA ThreadApiStep == ThreadApiInv /\ [ThreadApiNext]_api_vars => ThreadApiInv'
<1> SUFFICES ASSUME ThreadApiInv, [ThreadApiNext]_api_vars PROVE ThreadApiInv'
  OBVIOUS
<1>1. CASE UNCHANGED api_vars
  <2>1. ThreadApiTypeOK' /\ AllocationInv' /\ OpInv' /\ ChainInv'
    BY <1>1, ListKept DEF ThreadApiInv, ThreadApiTypeOK, AllocationInv, OpInv, Active, api_vars, list
  <2>2. LifeInv' /\ IdsInv' /\ WalkInv'
    BY <1>1 DEF ThreadApiInv, LifeInv, Life, CreatingAt, IdsInv, Active, WalkInv, api_vars, list
  <2> QED
    BY <2>1, <2>2 DEF ThreadApiInv
<1> QED
  BY <1>1, Creates, CreatesQueue, CreatesThread, AssignsId, Joins, Returns, Walks, Exits
     DEF ThreadApiNext

\* The inductive invariant of the contexts, their list and their threads.
THEOREM ThreadApiSafe == ThreadApiSpec => []ThreadApiInv
BY ThreadApiInitial, ThreadApiStep, PTL DEF ThreadApiSpec

\* Until an end of the list, or a context behind a destroyed one, is destroyed, the
\* list is exactly the live contexts in order; freed memory is used earlier only by a
\* thread that looks at a context being destroyed, or if an id was used again
\* (threadapi_openiot.c:49-93).
THEOREM ListSound == ThreadApiSpec => []ChainSoundUntilEndDestroyed
BY ThreadApiImplied, ThreadApiSafe, PTL

\* ThreadAPI_Exit finds the caller's context, and a join returns the code of its own
\* thread, but for the cases named in ExitHeard (threadapi_openiot.c:95-205).
THEOREM ExitsHeard == ThreadApiSpec => []ExitHeard
BY ThreadApiImplied, ThreadApiSafe, PTL

-----------------------------------------------------------------------------
(* The Azure socket adapter.                                                *)

\* Where socketio_dowork stands; an instance holds the connection from its open to
\* its close, and has reported an error only if it met one since.
InstanceInv ==
    /\ step = "idle" <=> work = NoInstance
    /\ work # NoInstance => io_state[work] # "NULL"
    /\ \A i \in Instance :
          /\ tcp[i] <=> io_state[i] \in {"OPEN", "ERROR"}
          /\ errors[i] <= 1
          /\ io_state[i] = "ERROR" => errors[i] = 1
          /\ io_state[i] = "OPEN" => errors[i] = 0

\* The connection object of an instance that is alone: connected while it is held, and
\* not otherwise, though it may still hold a socket that could not be closed.
AloneInv ==
    /\ \A i, j \in Instance : tcp[i] /\ tcp[j] => i = j
    /\ (\E i \in Instance : tcp[i]) => id # ESOCK /\ sockets[id] = "connected" /\ isConnected
    /\ (\A i \in Instance : ~tcp[i]) => ~isConnected
ConnectionInv ==
    /\ id \in 0..Len(sockets)
    /\ NoSocketLeaked
    /\ shared \/ AloneInv

\* While the network takes whole buffers, the bytes accepted, a, are those sent, s,
\* followed by the pending buffers, p: the k-th starts where cut[k] says.
Slices(p, a, s, cut) ==
    /\ cut[1] = Len(s) /\ cut[Len(p) + 1] = Len(a)
    /\ \A k \in 1..Len(p) :
          /\ cut[k + 1] = cut[k] + Len(p[k])
          /\ \A j \in 1..Len(p[k]) : p[k][j] = a[cut[k] + j]
InOrder(p, a, s) ==
    /\ Len(s) <= Len(a)
    /\ \A j \in 1..Len(s) : s[j] = a[j]
    /\ \E cut \in [1..Len(p) + 1 -> 0..Len(a)] : Slices(p, a, s, cut)
BytesInv == partial \/ \A i \in Instance : InOrder(pending[i], accepted[i], sent[i])

SocketIoInv == SocketIoTypeOK /\ InstanceInv /\ ConnectionInv /\ BytesInv

-----------------------------------------------------------------------------
\* Nothing accepted, sent or pending is in order.
LEMMA NothingInOrder == InOrder(<<>>, <<>>, <<>>)
<1>1. [k \in 1..1 |-> 0] \in [1..1 -> 0..0] /\ Slices(<<>>, <<>>, <<>>, [k \in 1..1 |-> 0])
  BY DEF Slices
<1> QED
  BY <1>1 DEF InOrder

\* Initially there are no instances, sockets and bytes.
LEMMA SocketIoInitial == SocketIoInit => SocketIoInv
<1> SUFFICES ASSUME SocketIoInit PROVE SocketIoInv
  OBVIOUS
<1> USE SocketIoAssumption DEF SocketIoInit, ESOCK
<1>1. SocketIoTypeOK
  <2>1. <<>> \in Seq(Byte) /\ <<>> \in Seq(Seq(Byte)) /\ <<>> \in Seq(SocketStates)
    OBVIOUS
  <2>2. /\ pending \in [Instance -> Seq(Seq(Byte))]
        /\ accepted \in [Instance -> Seq(Byte)] /\ sent \in [Instance -> Seq(Byte)]
    BY <2>1
  <2>3. /\ io_state \in [Instance -> {"NULL", "CLOSED", "OPEN", "ERROR"}]
        /\ tcp \in [Instance -> BOOLEAN] /\ errors \in [Instance -> Nat]
    OBVIOUS
  <2>4. id \in 0..MaxSockets /\ sends \in 0..MaxSends
    OBVIOUS
  <2>5. /\ isConnected \in BOOLEAN /\ partial \in BOOLEAN /\ shared \in BOOLEAN
        /\ work \in Instance \cup {NoInstance}
        /\ step \in {"idle", "send", "send_error", "receive", "receive_error"}
        /\ sockets \in Seq(SocketStates) /\ unclosed \subseteq Nat /\ displaced \subseteq Nat
    BY <2>1
  <2> HIDE DEF SocketIoInit
  <2> QED
    BY <2>2, <2>3, <2>4, <2>5 DEF SocketIoTypeOK
<1>2. InstanceInv /\ ConnectionInv
  BY DEF InstanceInv, ConnectionInv, AloneInv, NoSocketLeaked
<1>3. ASSUME NEW i \in Instance PROVE InOrder(pending[i], accepted[i], sent[i])
  <2>1. sent[i] = <<>> /\ accepted[i] = <<>> /\ pending[i] = <<>>
    OBVIOUS
  <2> QED
    BY <2>1, NothingInOrder
<1> QED
  BY <1>1, <1>2, <1>3 DEF SocketIoInv, BytesInv

\* What closing the connection of an instance leaves: a socket of the object that is
\* not closed is one that could not be, and an instance that is alone and whose close
\* does not fail leaves the object empty.
Closed(i) ==
    /\ id' \in 0..MaxSockets /\ isConnected' \in BOOLEAN /\ sockets' \in Seq(SocketStates)
    /\ shared' \in BOOLEAN /\ Len(sockets') = Len(sockets) /\ id' \in 0..Len(sockets')
    /\ shared => shared'
    /\ unclosed \subseteq unclosed' /\ unclosed' \subseteq Nat /\ displaced' = displaced
    /\ ~(io_state[i] # "CLOSED" /\ tcp[i]) => UNCHANGED <<id, isConnected, sockets, shared>>
    /\ io_state[i] # "CLOSED" /\ tcp[i] =>
          /\ \A s \in 1..Len(sockets) :
                IF s = id THEN sockets'[s] = "closed" \/ s \in unclosed' ELSE sockets'[s] = sockets[s]
          /\ shared' \/ ~isConnected'

LEMMA Closes ==
  ASSUME SocketIoTypeOK, ConnectionInv, NEW i \in Instance, close_tcp_connection(i)
  PROVE  Closed(i)
<1> USE SocketIoAssumption DEF ESOCK, SocketStates
<1>0. sockets \in Seq(SocketStates) /\ id \in 0..Len(sockets) /\ id \in 0..MaxSockets
  BY DEF SocketIoTypeOK, ConnectionInv
<1>1. CASE ~(io_state[i] # "CLOSED" /\ tcp[i])
  BY <1>1 DEF Closed, close_tcp_connection, conn, lost, SocketIoTypeOK, ConnectionInv
<1>2. CASE io_state[i] # "CLOSED" /\ tcp[i]
  <2>1. PICK first \in CloseResults, second \in CloseResults : CloseAndDestroy(first, second)
    BY <1>2 DEF close_tcp_connection
  <2>2. /\ first \in BOOLEAN /\ second \in BOOLEAN
        /\ id = 0 => ~first /\ ~second
    BY DEF CloseResults
  <2>3. /\ isConnected' = IF first THEN FALSE ELSE isConnected
        /\ id' = IF first \/ second THEN ESOCK ELSE id
        /\ shared' = (shared \/ ~first)
        /\ displaced' = displaced
    BY <2>1 DEF CloseAndDestroy
  <2>4. /\ sockets' \in Seq(SocketStates) /\ Len(sockets') = Len(sockets)
        /\ unclosed \subseteq unclosed' /\ unclosed' \subseteq Nat
        /\ \A s \in 1..Len(sockets) :
              IF s = id THEN sockets'[s] = "closed" \/ s \in unclosed' ELSE sockets'[s] = sockets[s]
    <3>1. CASE first \/ second
      <4>1. /\ sockets' = [sockets EXCEPT ![id] = "closed"] /\ id \in 1..Len(sockets)
            /\ unclosed' = unclosed
        BY <1>0, <2>1, <2>2, <3>1 DEF CloseAndDestroy
      <4>2. DOMAIN sockets' = 1..Len(sockets)
        BY <1>0, <4>1
      <4>3. sockets' \in Seq(SocketStates)
        BY <1>0, <4>1
      <4>4. Len(sockets') = Len(sockets)
        BY <1>0, <4>1, <4>2, <4>3
      <4> QED
        BY <1>0, <4>1, <4>3, <4>4 DEF SocketIoTypeOK
    <3>2. CASE ~first /\ ~second
      <4>1. sockets' = sockets /\ unclosed' = unclosed \cup ({id} \ {0})
        BY <2>1, <3>2 DEF CloseAndDestroy, Held
      <4>2. \A s \in 1..Len(sockets) : s = id => s \in unclosed'
        BY <1>0, <4>1
      <4>3. unclosed' \subseteq Nat
        BY <1>0, <4>1 DEF SocketIoTypeOK
      <4> QED
        BY <1>0, <4>1, <4>2, <4>3
    <3> QED
      BY <2>2, <3>1, <3>2
  <2>5. id' \in 0..MaxSockets /\ id' \in 0..Len(sockets')
    BY <1>0, <2>3, <2>4
  <2>6. isConnected' \in BOOLEAN /\ shared' \in BOOLEAN /\ (shared => shared') /\ (shared' \/ ~isConnected')
    BY <2>2, <2>3 DEF SocketIoTypeOK
  <2> QED
    BY <1>2, <2>3, <2>4, <2>5, <2>6 DEF Closed
<1> QED
  BY <1>1, <1>2

\* An assignment to one instance keeps a table typed.
LEMMA Stored ==
  ASSUME NEW S, NEW T, NEW f \in [S -> T], NEW x \in S, NEW v \in T
  PROVE  [f EXCEPT ![x] = v] \in [S -> T]
OBVIOUS

\* An open gets a new socket, and keeps it or, when it fails, closes it or fails to.
Opened(i, x) ==
    /\ sockets' = Append(sockets, x)
    /\ \/ /\ x = IF isConnected THEN "created" ELSE "connected"
          /\ id' = Len(sockets) + 1 /\ isConnected' = TRUE
          /\ tcp' = [tcp EXCEPT ![i] = TRUE]
          /\ io_state' = [io_state EXCEPT ![i] = "OPEN"]
          /\ errors' = [errors EXCEPT ![i] = 0]
          /\ unclosed' = unclosed
       \/ /\ x = "closed" /\ id' = ESOCK /\ ~isConnected /\ unclosed' = unclosed
          /\ UNCHANGED <<isConnected, tcp, io_state, errors>>
       \/ /\ x = "created" /\ id' = Len(sockets) + 1 /\ ~isConnected
          /\ unclosed' = unclosed \cup {Len(sockets) + 1}
          /\ UNCHANGED <<isConnected, tcp, io_state, errors>>

LEMMA Opens ==
  ASSUME SocketIoTypeOK, NEW i \in Instance, socketio_open(i)
  PROVE  \E x \in SocketStates : Opened(i, x)
<1>1. ASSUME NEW x \in SocketStates, sockets' = Append(sockets, x),
             \/ /\ x = IF isConnected THEN "created" ELSE "connected"
                /\ id' = NewSocket /\ isConnected' = TRUE
                /\ tcp' = [tcp EXCEPT ![i] = TRUE]
                /\ io_state' = [io_state EXCEPT ![i] = "OPEN"]
                /\ errors' = [errors EXCEPT ![i] = 0]
                /\ unclosed' = unclosed
             \/ /\ x = "closed" /\ id' = ESOCK /\ ~isConnected /\ unclosed' = unclosed
                /\ UNCHANGED <<isConnected, tcp, io_state, errors>>
             \/ /\ x = "created" /\ id' = NewSocket /\ ~isConnected
                /\ unclosed' = unclosed \cup {NewSocket}
                /\ UNCHANGED <<isConnected, tcp, io_state, errors>>
      PROVE  Opened(i, x)
  BY <1>1 DEF Opened, NewSocket
<1>2. isConnected \in BOOLEAN
  BY DEF SocketIoTypeOK
<1>3. {"created", "connected", "closed"} = SocketStates
  BY DEF SocketStates
<1> QED
  BY <1>1, <1>2, <1>3 DEF socketio_open, Store, Connect, FailedOpen

\* Typing is preserved by every step.
LEMMA SocketIoTypeStep == SocketIoInv /\ [SocketIoNext]_io_vars => SocketIoTypeOK'
<1> SUFFICES ASSUME SocketIoInv, [SocketIoNext]_io_vars PROVE SocketIoTypeOK'
  OBVIOUS
<1>0. SocketIoTypeOK /\ InstanceInv /\ ConnectionInv
  BY DEF SocketIoInv
<1> USE <1>0, SocketIoAssumption DEF Store, conn, records, lost
<1>e. <<>> \in Seq(Byte) /\ <<>> \in Seq(Seq(Byte))
  OBVIOUS
<1>1. ASSUME NEW i \in Instance, socketio_create(i) PROVE SocketIoTypeOK'
  BY <1>1 DEF socketio_create, SocketIoTypeOK
<1>2. ASSUME NEW i \in Instance, socketio_destroy(i) PROVE SocketIoTypeOK'
  <2>1. /\ id' \in 0..MaxSockets /\ isConnected' \in BOOLEAN /\ sockets' \in Seq(SocketStates)
        /\ shared' \in BOOLEAN /\ unclosed' \subseteq Nat /\ displaced' = displaced
    BY <1>2, Closes DEF socketio_destroy, Closed
  <2> QED
    BY <1>e, <1>2, <2>1 DEF socketio_destroy, SocketIoTypeOK
<1>3. ASSUME NEW i \in Instance, socketio_open(i) PROVE SocketIoTypeOK'
  <2>0. PICK x \in SocketStates : Opened(i, x)
    BY <1>3, Opens
  <2>1. /\ tcp' \in [Instance -> BOOLEAN] /\ errors' \in [Instance -> Nat]
        /\ io_state' \in [Instance -> {"NULL", "CLOSED", "OPEN", "ERROR"}]
    <3>1. /\ tcp \in [Instance -> BOOLEAN] /\ errors \in [Instance -> Nat]
          /\ io_state \in [Instance -> {"NULL", "CLOSED", "OPEN", "ERROR"}]
      BY DEF SocketIoTypeOK
    <3>2. /\ [tcp EXCEPT ![i] = TRUE] \in [Instance -> BOOLEAN]
          /\ [errors EXCEPT ![i] = 0] \in [Instance -> Nat]
          /\ [io_state EXCEPT ![i] = "OPEN"] \in [Instance -> {"NULL", "CLOSED", "OPEN", "ERROR"}]
      BY <3>1
    <3> QED
      BY <2>0, <3>1, <3>2 DEF Opened
  <2>2. isConnected' \in BOOLEAN /\ shared' \in BOOLEAN
    BY <1>3 DEF socketio_open, SocketIoTypeOK
  <2>3. sockets' \in Seq(SocketStates)
    BY <2>0 DEF SocketIoTypeOK, Opened
  <2>6. unclosed' \subseteq Nat /\ displaced' \subseteq Nat
    <3>1. displaced' = displaced \/ displaced' = displaced \cup Held
      BY <1>3 DEF socketio_open
    <3>2. Len(sockets) + 1 \in Nat /\ Held \subseteq Nat /\ unclosed \subseteq Nat /\ displaced \subseteq Nat
      BY DEF SocketIoTypeOK, Held
    <3> QED
      BY <2>0, <3>1, <3>2 DEF Opened
  <2>4. id' \in 0..MaxSockets
    BY <1>3 DEF socketio_open, SocketIoTypeOK, NewSocket, ESOCK
  <2>5. UNCHANGED <<pending, work, step, sends, accepted, sent, partial>>
    BY <1>3 DEF socketio_open
  <2> QED
    BY <2>1, <2>2, <2>3, <2>4, <2>5, <2>6 DEF SocketIoTypeOK
<1>4. ASSUME NEW i \in Instance, socketio_close(i) PROVE SocketIoTypeOK'
  <2>1. /\ id' \in 0..MaxSockets /\ isConnected' \in BOOLEAN /\ sockets' \in Seq(SocketStates)
        /\ shared' \in BOOLEAN /\ unclosed' \subseteq Nat /\ displaced' = displaced
    BY <1>4, Closes DEF socketio_close, Closed
  <2> QED
    BY <1>4, <2>1 DEF socketio_close, SocketIoTypeOK
<1>5. ASSUME NEW i \in Instance, NEW n \in Sizes, socketio_send(i, n) PROVE SocketIoTypeOK'
  <2>0. sends \in Nat /\ n \in Nat
    BY DEF SocketIoTypeOK
  <2>1. Buffer(n) \in Seq(Byte)
    BY <2>0 DEF Buffer, Byte
  <2>2. accepted[i] \o Buffer(n) \in Seq(Byte) /\ Append(pending[i], Buffer(n)) \in Seq(Seq(Byte))
    BY <2>1 DEF SocketIoTypeOK
  <2>3. /\ accepted' \in [Instance -> Seq(Byte)] /\ pending' \in [Instance -> Seq(Seq(Byte))]
        /\ sends' \in 0..MaxSends
    BY <1>5, <2>2 DEF socketio_send, AddPending, SocketIoTypeOK
  <2> QED
    BY <1>5, <2>3 DEF socketio_send, SocketIoTypeOK
<1>6. ASSUME NEW i \in Instance, socketio_dowork(i) PROVE SocketIoTypeOK'
  BY <1>6 DEF socketio_dowork, SocketIoTypeOK
<1>7. ASSUME NEW k \in Nat, SendHead(k) PROVE SocketIoTypeOK'
  <2>1. work \in Instance /\ pending[work] \in Seq(Seq(Byte)) /\ pending[work] # <<>> /\ sent[work] \in Seq(Byte)
    BY <1>7 DEF SendHead, SocketIoTypeOK, InstanceInv
  <2> DEFINE b == Head(pending[work])
  <2>2. b \in Seq(Byte) /\ Tail(pending[work]) \in Seq(Seq(Byte)) /\ k \in 0..Len(b)
    BY <1>7, <2>1 DEF SendHead
  <2>3. SubSeq(b, 1, k) \in Seq(Byte) /\ Shift(b, k) \in Seq(Byte)
    <3> HIDE DEF b
    <3>1. /\ SubSeq(b, 1, k) \in Seq(Byte) /\ SubSeq(b, k + 1, Len(b)) \in Seq(Byte)
          /\ SubSeq(b, Len(b) - k + 1, Len(b)) \in Seq(Byte)
      BY <2>2
    <3> QED
      BY <3>1 DEF Shift
  <2>4. sent[work] \o SubSeq(b, 1, k) \in Seq(Byte) /\ <<Shift(b, k)>> \o Tail(pending[work]) \in Seq(Seq(Byte))
    <3> HIDE DEF b
    <3> QED
      BY <2>1, <2>2, <2>3
  <2>5. sent' \in [Instance -> Seq(Byte)] /\ pending' \in [Instance -> Seq(Seq(Byte))]
    <3>1. /\ sent' = [sent EXCEPT ![work] = sent[work] \o SubSeq(b, 1, k)]
          /\ \/ pending' = [pending EXCEPT ![work] = Tail(pending[work])]
             \/ pending' = [pending EXCEPT ![work] = <<Shift(b, k)>> \o Tail(pending[work])]
      BY <1>7 DEF SendHead
    <3>2. pending \in [Instance -> Seq(Seq(Byte))] /\ sent \in [Instance -> Seq(Byte)]
      BY DEF SocketIoTypeOK
    <3>3. /\ [sent EXCEPT ![work] = sent[work] \o SubSeq(b, 1, k)] \in [Instance -> Seq(Byte)]
          /\ [pending EXCEPT ![work] = Tail(pending[work])] \in [Instance -> Seq(Seq(Byte))]
          /\ [pending EXCEPT ![work] = <<Shift(b, k)>> \o Tail(pending[work])] \in [Instance -> Seq(Seq(Byte))]
      BY <2>1, <2>2, <2>4, <3>2, Stored, Zenon
    <3> QED
      BY <3>1, <3>3
  <2>6. partial' \in BOOLEAN
    BY <1>7 DEF SendHead
  <2> QED
    BY <1>7, <2>5, <2>6 DEF SendHead, SocketIoTypeOK
<1>8. CASE SendFails
  <2>1. work \in Instance
    BY <1>8 DEF SendFails, SocketIoTypeOK, InstanceInv
  <2>2. CASE AlreadyIndicated(work)
    BY <1>8, <2>2 DEF SendFails, indicate_error, SocketIoTypeOK
  <2>3. CASE ~AlreadyIndicated(work)
    <3>1. io_state' = [io_state EXCEPT ![work] = "ERROR"] /\ errors' = [errors EXCEPT ![work] = errors[work] + 1]
      BY <1>8, <2>3 DEF SendFails, indicate_error
    <3>2. io_state' \in [Instance -> {"NULL", "CLOSED", "OPEN", "ERROR"}] /\ errors' \in [Instance -> Nat]
      <4>1. io_state \in [Instance -> {"NULL", "CLOSED", "OPEN", "ERROR"}] /\ errors \in [Instance -> Nat]
        BY DEF SocketIoTypeOK
      <4> QED
        BY <2>1, <3>1, <4>1
    <3> QED
      BY <1>8, <2>3, <3>2 DEF SendFails, indicate_error, SocketIoTypeOK
  <2> QED
    BY <2>2, <2>3
<1>9. CASE QueueSent \/ ErrorHandled \/ ReceiveEnds
  BY <1>9 DEF QueueSent, ErrorHandled, ReceiveEnds, SocketIoTypeOK
<1>10. CASE ReceiveFails
  <2>1. work \in Instance
    BY <1>10 DEF ReceiveFails, SocketIoTypeOK, InstanceInv
  <2>2. CASE AlreadyIndicated(work)
    BY <1>10, <2>2 DEF ReceiveFails, indicate_error, SocketIoTypeOK
  <2>3. CASE ~AlreadyIndicated(work)
    <3>1. io_state' = [io_state EXCEPT ![work] = "ERROR"] /\ errors' = [errors EXCEPT ![work] = errors[work] + 1]
      BY <1>10, <2>3 DEF ReceiveFails, indicate_error
    <3>2. io_state' \in [Instance -> {"NULL", "CLOSED", "OPEN", "ERROR"}] /\ errors' \in [Instance -> Nat]
      <4>1. io_state \in [Instance -> {"NULL", "CLOSED", "OPEN", "ERROR"}] /\ errors \in [Instance -> Nat]
        BY DEF SocketIoTypeOK
      <4> QED
        BY <2>1, <3>1, <4>1
    <3> QED
      BY <1>10, <2>3, <3>2 DEF ReceiveFails, indicate_error, SocketIoTypeOK
  <2> QED
    BY <2>2, <2>3
<1>11. CASE UNCHANGED io_vars
  BY <1>11 DEF io_vars, SocketIoTypeOK
<1>12. \A n \in Sizes : \A k \in 0..n : k \in Nat
  OBVIOUS
<1> QED
  BY <1>1, <1>2, <1>3, <1>4, <1>5, <1>6, <1>7, <1>8, <1>9, <1>10, <1>11, <1>12 DEF SocketIoNext

\* So are the places of the instances, whatever fails and whatever the error
\* callback does.
LEMMA InstanceStep == SocketIoInv /\ [SocketIoNext]_io_vars => InstanceInv'
<1> SUFFICES ASSUME SocketIoInv, [SocketIoNext]_io_vars PROVE InstanceInv'
  OBVIOUS
<1>0. SocketIoTypeOK /\ InstanceInv
  BY DEF SocketIoInv
<1> USE <1>0, SocketIoAssumption DEF Store, SocketIoTypeOK, InstanceInv, Callable, records, lost
<1>1. ASSUME NEW i \in Instance, socketio_create(i) PROVE InstanceInv'
  BY <1>1 DEF socketio_create
<1>2. ASSUME NEW i \in Instance, socketio_destroy(i) PROVE InstanceInv'
  BY <1>2 DEF socketio_destroy
<1>3. ASSUME NEW i \in Instance, socketio_open(i) PROVE InstanceInv'
  <2>1. UNCHANGED <<work, step>> /\ io_state[i] = "CLOSED"
    BY <1>3 DEF socketio_open
  <2>2. CASE /\ tcp' = [tcp EXCEPT ![i] = TRUE]
             /\ io_state' = [io_state EXCEPT ![i] = "OPEN"]
             /\ errors' = [errors EXCEPT ![i] = 0]
    BY <2>1, <2>2
  <2>3. CASE UNCHANGED <<tcp, io_state, errors>>
    BY <2>1, <2>3
  <2> QED
    BY <1>3, <2>2, <2>3, Opens DEF Opened
<1>4. ASSUME NEW i \in Instance, socketio_close(i) PROVE InstanceInv'
  BY <1>4 DEF socketio_close
<1>5. ASSUME NEW i \in Instance, NEW n \in Sizes, socketio_send(i, n) PROVE InstanceInv'
  BY <1>5 DEF socketio_send
<1>6. ASSUME NEW i \in Instance, socketio_dowork(i) PROVE InstanceInv'
  BY <1>6 DEF socketio_dowork
<1>7. ASSUME NEW k \in Nat, SendHead(k) PROVE InstanceInv'
  BY <1>7 DEF SendHead
<1>8. CASE SendFails
  <2>1. step = "send" /\ work \in Instance /\ io_state[work] # "NULL" /\ UNCHANGED <<tcp, work>>
    BY <1>8 DEF SendFails
  <2>2. CASE AlreadyIndicated(work)
    BY <1>8, <2>1, <2>2 DEF SendFails, indicate_error
  <2>3. CASE ~AlreadyIndicated(work)
    <3>1. /\ io_state' = [io_state EXCEPT ![work] = "ERROR"]
          /\ errors' = [errors EXCEPT ![work] = errors[work] + 1]
          /\ step' = "send_error"
      BY <1>8, <2>3 DEF SendFails, indicate_error
    <3>2. io_state[work] = "OPEN" /\ errors[work] = 0
      BY <2>1, <2>3 DEF AlreadyIndicated
    <3> QED
      BY <2>1, <3>1, <3>2
  <2> QED
    BY <2>2, <2>3
<1>9. CASE QueueSent \/ ErrorHandled \/ ReceiveEnds
  BY <1>9 DEF QueueSent, ErrorHandled, ReceiveEnds
<1>10. CASE ReceiveFails
  BY <1>10 DEF ReceiveFails, indicate_error, AlreadyIndicated
<1>11. CASE UNCHANGED io_vars
  BY <1>11 DEF io_vars
<1>12. \A n \in Sizes : \A k \in 0..n : k \in Nat
  OBVIOUS
<1> QED
  BY <1>1, <1>2, <1>3, <1>4, <1>5, <1>6, <1>7, <1>8, <1>9, <1>10, <1>11, <1>12 DEF SocketIoNext

\* So is the connection object: no call loses its socket unrecorded, and an instance
\* that is alone leaves it unconnected.
LEMMA ConnectionStep == SocketIoInv /\ [SocketIoNext]_io_vars => ConnectionInv'
<1> SUFFICES ASSUME SocketIoInv, [SocketIoNext]_io_vars PROVE ConnectionInv'
  OBVIOUS
<1>0. SocketIoTypeOK /\ InstanceInv /\ ConnectionInv
  BY DEF SocketIoInv
<1> USE <1>0, SocketIoAssumption DEF ESOCK
<1>1. ASSUME UNCHANGED <<tcp, id, isConnected, sockets, shared, unclosed, displaced>> PROVE ConnectionInv'
  BY <1>1 DEF ConnectionInv, AloneInv, NoSocketLeaked
<1>a. /\ sockets \in Seq(SocketStates) /\ DOMAIN sockets = 1..Len(sockets) /\ Len(sockets) \in Nat
      /\ id \in 0..Len(sockets)
      /\ \A s \in 1..Len(sockets) : sockets[s] # "closed" =>
            (s = id /\ \E j \in Instance : tcp[j]) \/ s \in unclosed \/ s \in displaced
  <2>1. sockets \in Seq(SocketStates)
    BY DEF SocketIoTypeOK
  <2> QED
    BY <2>1 DEF ConnectionInv, NoSocketLeaked
<1>2. ASSUME NEW i \in Instance, socketio_destroy(i) \/ socketio_close(i) PROVE ConnectionInv'
  <2>1. close_tcp_connection(i) /\ tcp' = [tcp EXCEPT ![i] = FALSE]
    BY <1>2 DEF socketio_destroy, socketio_close, Store
  <2>2. Closed(i)
    BY <2>1, Closes
  <2>3. tcp[i] => io_state[i] # "CLOSED"
    BY DEF InstanceInv
  <2>4. \A j \in Instance : tcp'[j] <=> j # i /\ tcp[j]
    BY <2>1 DEF SocketIoTypeOK
  <2>5. DOMAIN sockets' = 1..Len(sockets)
    BY <2>2 DEF Closed
  <2>6. CASE ~tcp[i]
    <3>1. tcp' = tcp
      BY <2>1, <2>6 DEF SocketIoTypeOK
    <3>2. UNCHANGED <<id, isConnected, sockets, shared, displaced>> /\ unclosed \subseteq unclosed'
      BY <2>2, <2>6 DEF Closed
    <3> QED
      BY <3>1, <3>2 DEF ConnectionInv, AloneInv, NoSocketLeaked
  <2>7. CASE tcp[i]
    <3>1. /\ \A s \in 1..Len(sockets) :
               IF s = id THEN sockets'[s] = "closed" \/ s \in unclosed' ELSE sockets'[s] = sockets[s]
          /\ shared' \/ ~isConnected'
          /\ shared => shared'
          /\ unclosed \subseteq unclosed' /\ displaced' = displaced /\ id' \in 0..Len(sockets')
      BY <2>2, <2>3, <2>7 DEF Closed
    <3>2. NoSocketLeaked'
      BY <1>a, <2>5, <3>1 DEF NoSocketLeaked
    <3>3. shared' \/ AloneInv'
      BY <2>4, <2>7, <3>1 DEF ConnectionInv, AloneInv
    <3> QED
      BY <3>1, <3>2, <3>3 DEF ConnectionInv
  <2> QED
    BY <2>6, <2>7 DEF SocketIoTypeOK
<1>3. ASSUME NEW i \in Instance, socketio_open(i) PROVE ConnectionInv'
  <2>0. PICK x \in SocketStates : Opened(i, x)
    BY <1>3, Opens
  <2>1. /\ shared' = (shared \/ \E j \in Instance : tcp[j])
        /\ displaced' = IF \E j \in Instance : tcp[j] THEN displaced \cup Held ELSE displaced
    BY <1>3 DEF socketio_open
  <2>2. /\ Len(sockets') = Len(sockets) + 1 /\ sockets'[Len(sockets) + 1] = x
        /\ \A s \in 1..Len(sockets) : sockets'[s] = sockets[s]
        /\ DOMAIN sockets' = 1..Len(sockets) + 1
    BY <1>a, <2>0 DEF Opened
  <2>3. id' \in 0..Len(sockets') /\ unclosed \subseteq unclosed'
    BY <1>a, <2>0, <2>2 DEF Opened
  <2>4. ASSUME NEW s \in 1..Len(sockets), sockets'[s] # "closed" PROVE s \in unclosed' \/ s \in displaced'
    <3>1. (s = id /\ \E j \in Instance : tcp[j]) \/ s \in unclosed \/ s \in displaced
      BY <1>a, <2>2, <2>4
    <3>2. s = id => s \in Held
      BY <2>4 DEF Held
    <3> QED
      BY <2>1, <2>3, <3>1, <3>2
  <2>5. x # "closed" => \/ id' = Len(sockets) + 1 /\ \E j \in Instance : tcp'[j]
                        \/ Len(sockets) + 1 \in unclosed'
    BY <2>0 DEF Opened, SocketIoTypeOK
  <2>6. NoSocketLeaked'
    <3>1. 1..Len(sockets) + 1 = (1..Len(sockets)) \cup {Len(sockets) + 1}
      BY <1>a
    <3> QED
      BY <2>2, <2>4, <2>5, <3>1 DEF NoSocketLeaked
  <2>7. ASSUME ~shared' PROVE AloneInv'
    <3>0. ~shared /\ \A j \in Instance : ~tcp[j]
      BY <2>1, <2>7
    <3>1. ~isConnected
      BY <3>0 DEF ConnectionInv, AloneInv
    <3>2. CASE UNCHANGED <<isConnected, tcp>>
      BY <3>0, <3>1, <3>2 DEF AloneInv
    <3>3. CASE x = "connected" /\ id' = Len(sockets) + 1 /\ isConnected' = TRUE /\ tcp' = [tcp EXCEPT ![i] = TRUE]
      <4>1. \A j \in Instance : tcp'[j] <=> j = i
        BY <3>0, <3>3 DEF SocketIoTypeOK
      <4>2. id' # 0
        BY <1>a, <3>3
      <4> QED
        BY <2>2, <3>3, <4>1, <4>2 DEF AloneInv
    <3> QED
      BY <2>0, <3>1, <3>2, <3>3 DEF Opened
  <2> QED
    BY <2>3, <2>6, <2>7 DEF ConnectionInv
<1>4. CASE \E i \in Instance : socketio_create(i) \/ socketio_dowork(i) \/ \E n \in Sizes : socketio_send(i, n)
  BY <1>1, <1>4 DEF socketio_create, socketio_dowork, socketio_send, conn, records, lost
<1>5. CASE (\E n \in Sizes : \E k \in 0..n : SendHead(k)) \/ SendFails \/ QueueSent \/ ErrorHandled
           \/ ReceiveEnds \/ ReceiveFails \/ UNCHANGED io_vars
  BY <1>1, <1>5 DEF SendHead, SendFails, QueueSent, ErrorHandled, ReceiveEnds, ReceiveFails, conn, records, lost, io_vars
<1> QED
  BY <1>2, <1>3, <1>4, <1>5 DEF SocketIoNext

-----------------------------------------------------------------------------
\* A buffer queued for sending starts where the bytes accepted so far end.
LEMMA QueuedInOrder ==
  ASSUME NEW S, NEW p \in Seq(Seq(S)), NEW a \in Seq(S), NEW s \in Seq(S), NEW b \in Seq(S),
         InOrder(p, a, s)
  PROVE  InOrder(Append(p, b), a \o b, s)
<1> DEFINE P == Len(p)  A == Len(a)  n == Len(b)  q == Append(p, b)  c == a \o b
<1>1. P \in Nat /\ A \in Nat /\ n \in Nat /\ Len(s) \in Nat
  OBVIOUS
<1>2. /\ Len(q) = P + 1 /\ q[P + 1] = b
      /\ \A k \in 1..P : q[k] = p[k] /\ p[k] \in Seq(S) /\ Len(p[k]) \in Nat
  OBVIOUS
<1>3. /\ Len(c) = A + n
      /\ \A j \in 1..A : c[j] = a[j]
  OBVIOUS
<1>4. \A j \in 1..n : c[A + j] = b[j]
  <2>1. \A j \in 1..A + n : c[j] = IF j <= A THEN a[j] ELSE b[j - A]
    BY ConcatProperties
  <2> HIDE DEF c, A, n
  <2>2. ASSUME NEW j \in 1..n PROVE c[A + j] = b[j]
    <3> DEFINE x == A + j
    <3> HIDE DEF x
    <3>2. x \in 1..A + n /\ ~(x <= A) /\ x - A = j
      BY <1>1, <2>2 DEF x
    <3>3. c[x] = b[x - A]
      BY <2>1, <3>2
    <3> QED
      BY <3>2, <3>3 DEF x
  <2> QED
    BY <2>2
<1>5. PICK cut \in [1..P + 1 -> 0..A] : Slices(p, a, s, cut)
  BY DEF InOrder
<1> DEFINE new == [k \in 1..P + 2 |-> IF k = P + 2 THEN A + n ELSE cut[k]]
<1>6. /\ cut[1] = Len(s) /\ cut[P + 1] = A
      /\ \A k \in 1..P : /\ cut[k + 1] = cut[k] + Len(p[k])
                         /\ \A j \in 1..Len(p[k]) : p[k][j] = a[cut[k] + j]
  BY <1>5 DEF Slices
<1>7. Len(s) <= A /\ \A j \in 1..Len(s) : s[j] = a[j]
  BY DEF InOrder
<1> HIDE DEF P, A, n, q, c
<1>8. new \in [1..P + 2 -> 0..A + n]
  BY <1>1, <1>5
<1>9. \A k \in 1..P + 1 : new[k] = cut[k] /\ new[k] \in 0..A
  BY <1>1, <1>5
<1>10. new[P + 2] = A + n
  BY <1>1
<1> HIDE DEF new
<1>11. ASSUME NEW k \in 1..P
       PROVE  new[k + 1] = new[k] + Len(q[k]) /\ \A j \in 1..Len(q[k]) : q[k][j] = c[new[k] + j]
  <2>1. k \in 1..P + 1 /\ k + 1 \in 1..P + 1
    BY <1>1
  <2>2. /\ new[k] = cut[k] /\ new[k + 1] = cut[k + 1] /\ cut[k] \in 0..A /\ cut[k + 1] \in 0..A
        /\ q[k] = p[k] /\ Len(p[k]) \in Nat /\ cut[k + 1] = cut[k] + Len(p[k])
    BY <1>2, <1>6, <1>9, <2>1
  <2>3. ASSUME NEW j \in 1..Len(p[k]) PROVE p[k][j] = c[cut[k] + j]
    <3>0. cut[k] \in Nat /\ cut[k] + Len(p[k]) <= A /\ j \in 1..Len(p[k])
      BY <1>1, <2>2, <2>3
    <3> DEFINE x == cut[k]  l == Len(p[k])
    <3>1. cut[k] + j \in 1..A
      <4>1. x \in Nat /\ l \in Nat /\ x + l <= A /\ j \in 1..l
        BY <2>2, <3>0
      <4> HIDE DEF x, l
      <4>2. x + j \in 1..A
        BY <1>1, <4>1
      <4> QED
        BY <4>2 DEF x
    <3> QED
      BY <1>3, <1>6, <3>1
  <2> QED
    BY <2>2, <2>3
<1>12. /\ new[P + 1] = A /\ new[P + 2] = new[P + 1] + Len(q[P + 1])
       /\ \A j \in 1..Len(q[P + 1]) : q[P + 1][j] = c[new[P + 1] + j]
  <2>1. new[P + 1] = A
    BY <1>1, <1>6, <1>9
  <2>2. Len(q[P + 1]) = n
    BY <1>2 DEF n
  <2> QED
    BY <1>2, <1>4, <1>10, <2>1, <2>2
<1>13. Slices(q, c, s, new)
  <2>1. Len(q) + 1 = P + 2 /\ P + 1 + 1 = P + 2 /\ 1..Len(q) = (1..P) \cup {P + 1}
    BY <1>1, <1>2
  <2>2. new[1] = Len(s)
    BY <1>1, <1>6, <1>9
  <2>3. \A k \in 1..Len(q) : /\ new[k + 1] = new[k] + Len(q[k])
                             /\ \A j \in 1..Len(q[k]) : q[k][j] = c[new[k] + j]
    BY <1>11, <1>12, <2>1
  <2> QED
    BY <1>3, <1>10, <2>1, <2>2, <2>3 DEF Slices
<1>14. new \in [1..Len(q) + 1 -> 0..Len(c)]
  <2>1. Len(q) + 1 = P + 2
    BY <1>1, <1>2
  <2> QED
    BY <1>3, <1>8, <2>1
<1>15. Len(s) <= Len(c) /\ \A j \in 1..Len(s) : s[j] = c[j]
  <2>1. \A j \in 1..Len(s) : j \in 1..A
    BY <1>1, <1>7
  <2> QED
    BY <1>1, <1>3, <1>7, <2>1
<1>16. InOrder(q, c, s)
  BY <1>13, <1>14, <1>15 DEF InOrder
<1> QED
  BY <1>16 DEF q, c

\* A buffer sent whole is the next of the bytes accepted.
LEMMA SentInOrder ==
  ASSUME NEW S, NEW p \in Seq(Seq(S)), NEW a \in Seq(S), NEW s \in Seq(S), p # <<>>,
         InOrder(p, a, s)
  PROVE  InOrder(Tail(p), a, s \o Head(p))
<1> DEFINE P == Len(p)  A == Len(a)  b == Head(p)  n == Len(b)  N == Len(s)  q == Tail(p)  t == s \o b
<1>1. b = p[1] /\ b \in Seq(S) /\ n \in Nat /\ N \in Nat /\ A \in Nat /\ P \in Nat \ {0}
  OBVIOUS
<1>2. Len(q) = P - 1 /\ \A k \in 1..P - 1 : q[k] = p[k + 1]
  BY HeadTailProperties
<1>3. Len(t) = N + n /\ \A j \in 1..N + n : t[j] = IF j <= N THEN s[j] ELSE b[j - N]
  BY <1>1, ConcatProperties
<1>4. PICK cut \in [1..P + 1 -> 0..A] : Slices(p, a, s, cut)
  BY DEF InOrder
<1>5. /\ cut[1] = N /\ cut[P + 1] = A
      /\ \A k \in 1..P : /\ cut[k + 1] = cut[k] + Len(p[k])
                         /\ \A j \in 1..Len(p[k]) : p[k][j] = a[cut[k] + j]
  BY <1>4 DEF Slices
<1>6. N <= A /\ \A j \in 1..N : s[j] = a[j]
  BY DEF InOrder
<1> HIDE DEF P, A, b, N, q, t
<1> DEFINE new == [k \in 1..P |-> cut[k + 1]]
<1>7. new \in [1..P -> 0..A] /\ \A k \in 1..P : new[k] = cut[k + 1]
  BY <1>1, <1>4
<1> HIDE DEF new
<1>8. cut[2] = N + n /\ cut[2] \in 0..A /\ \A j \in 1..n : b[j] = a[N + j]
  <2>1. 1 \in 1..P /\ 2 \in 1..P + 1 /\ 1 + 1 = 2
    BY <1>1
  <2> QED
    BY <1>1, <1>4, <1>5, <2>1
<1> HIDE DEF n
<1>9. Len(t) <= A /\ \A j \in 1..Len(t) : t[j] = a[j]
  <2>1. Len(t) <= A
    BY <1>1, <1>3, <1>8
  <2>2. ASSUME NEW j \in 1..N + n, ~(j <= N) PROVE t[j] = a[j]
    <3>1. j - N \in 1..n /\ N + (j - N) = j
      BY <1>1, <2>2
    <3> QED
      BY <1>3, <1>8, <2>2, <3>1
  <2>3. ASSUME NEW j \in 1..N + n, j <= N PROVE t[j] = a[j]
    <3>1. j \in 1..N
      BY <1>1, <2>3
    <3> QED
      BY <1>3, <1>6, <2>3, <3>1
  <2> QED
    BY <1>3, <2>1, <2>2, <2>3
<1>10. Slices(q, a, t, new)
  <2>1. Len(q) + 1 = P /\ P \in 1..P /\ 1 \in 1..P /\ 1..Len(q) = 1..P - 1
    BY <1>1, <1>2
  <2>2. new[1] = Len(t) /\ new[Len(q) + 1] = A
    <3>1. 1 + 1 = 2
      OBVIOUS
    <3> QED
      BY <1>3, <1>5, <1>7, <1>8, <2>1, <3>1
  <2>3. ASSUME NEW k \in 1..Len(q)
        PROVE  new[k + 1] = new[k] + Len(q[k]) /\ \A j \in 1..Len(q[k]) : q[k][j] = a[new[k] + j]
    <3>1. k \in 1..P - 1 /\ k \in 1..P /\ k + 1 \in 1..P
      BY <1>1, <2>1
    <3>2. q[k] = p[k + 1] /\ new[k] = cut[k + 1] /\ new[k + 1] = cut[k + 1 + 1]
      BY <1>2, <1>7, <3>1
    <3> QED
      BY <1>5, <3>1, <3>2
  <2> QED
    BY <2>2, <2>3 DEF Slices, A
<1>11. new \in [1..Len(q) + 1 -> 0..A]
  <2>1. Len(q) + 1 = P
    BY <1>1, <1>2
  <2> QED
    BY <1>7, <2>1
<1>12. InOrder(q, a, t)
  BY <1>9, <1>10, <1>11 DEF InOrder, A
<1> QED
  BY <1>12 DEF q, t, b

\* Every step keeps the bytes in order.
LEMMA BytesStep == SocketIoInv /\ [SocketIoNext]_io_vars => BytesInv'
<1> SUFFICES ASSUME SocketIoInv, [SocketIoNext]_io_vars, ~partial' PROVE BytesInv'
  BY DEF BytesInv
<1> USE SocketIoAssumption
<1>0. SocketIoTypeOK /\ InstanceInv /\ BytesInv
  BY DEF SocketIoInv
<1> SUFFICES ASSUME NEW m \in Instance PROVE InOrder(pending'[m], accepted'[m], sent'[m])
  BY DEF BytesInv
<1>1. /\ pending[m] \in Seq(Seq(Byte)) /\ accepted[m] \in Seq(Byte) /\ sent[m] \in Seq(Byte)
      /\ ~partial => InOrder(pending[m], accepted[m], sent[m])
  BY <1>0 DEF SocketIoTypeOK, BytesInv
<1>2. ASSUME NEW i \in Instance, socketio_destroy(i) PROVE InOrder(pending'[m], accepted'[m], sent'[m])
  <2>1. CASE m = i
    <3>1. pending'[m] = <<>> /\ accepted'[m] = <<>> /\ sent'[m] = <<>>
      BY <1>0, <1>2, <2>1 DEF socketio_destroy, Store, SocketIoTypeOK
    <3> QED
      BY <3>1, NothingInOrder
  <2>2. CASE m # i
    BY <1>0, <1>1, <1>2, <2>2 DEF socketio_destroy, Store, SocketIoTypeOK
  <2> QED
    BY <2>1, <2>2
<1>3. ASSUME NEW i \in Instance, NEW n \in Sizes, socketio_send(i, n)
      PROVE  InOrder(pending'[m], accepted'[m], sent'[m])
  <2>1. CASE m = i
    <3>0. sends \in Nat /\ n \in Nat
      BY <1>0 DEF SocketIoTypeOK
    <3>1. Buffer(n) \in Seq(Byte)
      BY <3>0 DEF Buffer, Byte
    <3>2. /\ pending'[m] = Append(pending[m], Buffer(n)) /\ ~partial
          /\ accepted'[m] = accepted[m] \o Buffer(n) /\ sent'[m] = sent[m]
      BY <1>0, <1>3, <2>1 DEF socketio_send, Store, AddPending, SocketIoTypeOK
    <3> QED
      BY <1>1, <3>1, <3>2, QueuedInOrder
  <2>2. CASE m # i
    BY <1>0, <1>1, <1>3, <2>2 DEF socketio_send, Store, SocketIoTypeOK
  <2> QED
    BY <2>1, <2>2
<1>4. ASSUME NEW n \in Sizes, NEW k \in 0..n, SendHead(k)
      PROVE  InOrder(pending'[m], accepted'[m], sent'[m])
  <2>0. work \in Instance
    BY <1>0, <1>4 DEF SendHead, InstanceInv, SocketIoTypeOK
  <2>1. CASE m = work
    <3> DEFINE b == Head(pending[m])
    <3>0. pending[m] # <<>> /\ b \in Seq(Byte) /\ Len(b) \in Nat
      BY <1>1, <1>4, <2>1 DEF SendHead
    <3>a. k \in 0..Len(b) /\ partial' = (partial \/ k < Len(b))
      BY <1>4, <2>1 DEF SendHead
    <3>1. k = Len(b) /\ ~partial
      <4> HIDE DEF b
      <4>1. ~(k < Len(b)) /\ ~partial
        BY <3>a, Zenon
      <4> QED
        BY <3>a, <3>0, <4>1
    <3>2. SubSeq(b, 1, k) = b
      BY <3>0, <3>1, SubSeqFull
    <3>3. /\ pending'[m] = Tail(pending[m]) /\ accepted'[m] = accepted[m]
          /\ sent'[m] = sent[m] \o b
      BY <1>0, <1>4, <2>0, <2>1, <3>1, <3>2 DEF SendHead, Store, SocketIoTypeOK
    <3> QED
      BY <1>1, <3>0, <3>1, <3>3, SentInOrder
  <2>2. CASE m # work
    <3>1. ~partial
      BY <1>4 DEF SendHead
    <3>2. pending'[m] = pending[m] /\ accepted'[m] = accepted[m] /\ sent'[m] = sent[m]
      BY <1>0, <1>4, <2>0, <2>2 DEF SendHead, Store, SocketIoTypeOK
    <3> QED
      BY <1>1, <3>1, <3>2
  <2> QED
    BY <2>1, <2>2
<1>5. CASE UNCHANGED <<pending, accepted, sent, partial>>
  BY <1>1, <1>5
<1>6. CASE \/ \E i \in Instance : socketio_create(i) \/ socketio_open(i) \/ socketio_close(i) \/ socketio_dowork(i)
           \/ SendFails \/ QueueSent \/ ErrorHandled \/ ReceiveEnds \/ ReceiveFails \/ UNCHANGED io_vars
  BY <1>5, <1>6 DEF socketio_create, socketio_open, socketio_close, socketio_dowork, SendFails, QueueSent,
     ErrorHandled, ReceiveEnds, ReceiveFails, records, io_vars
<1> QED
  BY <1>2, <1>3, <1>4, <1>6 DEF SocketIoNext

\* The invariant is inductive.
LEMMA SocketIoStep == SocketIoInv /\ [SocketIoNext]_io_vars => SocketIoInv'
BY SocketIoTypeStep, InstanceStep, ConnectionStep, BytesStep DEF SocketIoInv

\* The invariant implies what the runs check.
LEMMA SocketIoImplied == SocketIoInv => WholeBuffersInOrder /\ InstancesSound
<1> SUFFICES ASSUME SocketIoInv PROVE WholeBuffersInOrder /\ InstancesSound
  OBVIOUS
<1>0. SocketIoTypeOK /\ InstanceInv /\ ConnectionInv /\ BytesInv
  BY DEF SocketIoInv
<1>1. WholeBuffersInOrder
  <2>1. ASSUME NEW i \in Instance, ~partial PROVE IsPrefix(sent[i], accepted[i])
    <3>1. sent[i] \in Seq(Byte) /\ accepted[i] \in Seq(Byte) /\ InOrder(pending[i], accepted[i], sent[i])
      BY <1>0, <2>1 DEF SocketIoTypeOK, BytesInv
    <3>2. /\ Len(sent[i]) <= Len(accepted[i]) /\ Len(sent[i]) \in Nat /\ Len(accepted[i]) \in Nat
          /\ \A j \in 1..Len(sent[i]) : sent[i][j] = accepted[i][j]
      BY <3>1 DEF InOrder
    <3>3. sent[i] = SubSeq(accepted[i], 1, Len(sent[i]))
      BY <3>1, <3>2
    <3> QED
      BY <3>1, <3>2, <3>3 DEF IsPrefix
  <2> QED
    BY <2>1 DEF WholeBuffersInOrder, SentIsPrefixOfAccepted
<1>2. AloneMeansConnected
  BY <1>0 DEF AloneMeansConnected, OpenMeansConnected, SocketUp, InstanceInv, ConnectionInv, AloneInv
<1>3. NoSocketLeaked
  BY <1>0 DEF ConnectionInv
<1>4. ErrorIndicatedOnce
  BY <1>0 DEF ErrorIndicatedOnce, InstanceInv
<1> QED
  BY <1>1, <1>2, <1>3, <1>4 DEF InstancesSound

\* The adapter keeps its invariant over every sequence of calls and callbacks.
THEOREM SocketIoSafe == SocketIoSpec => []SocketIoInv
BY SocketIoInitial, SocketIoStep, PTL DEF SocketIoSpec

\* While the network takes whole buffers, send_queued_data hands over the bytes given
\* to socketio_send in order, across errors, closes and reopenings.
THEOREM BuffersInOrder == SocketIoSpec => []WholeBuffersInOrder
BY SocketIoSafe, SocketIoImplied, PTL

\* An instance that has the connection object to itself is connected when open; a socket
\* is lost only when it cannot be closed or another instance opens over it; and one error
\* is reported per open (socketio_openiot.c:322-404, tcpsocketconnection_openiot.c:63-136).
THEOREM InstancesSafe == SocketIoSpec => []InstancesSound
BY SocketIoSafe, SocketIoImplied, PTL
=============================================================================
