----------------------------- MODULE NtpClient -----------------------------
(***************************************************************************)
(* The Azure port's NTP client (ntp-client/src/iot_ntp_client.c): the task *)
(* ntp_task, its periodic timer, and the API calls of one client thread.   *)
(* They talk through the bounded event_queue and the event_flags.  Mutex   *)
(* sections are single steps.  Network and timer calls may fail; kernel    *)
(* calls on live objects do not.                                           *)
(***************************************************************************)
EXTENDS Naturals, Sequences, SequencesExt

CONSTANTS QueueSize,      \* osMessageQueueNew(5, ...)
          MaxFailures     \* bound on the retries: a client that has failed to end
                          \* this often is not initialised again

ASSUME SizesAreReal == QueueSize \in Nat \ {0} /\ MaxFailures \in Nat \ {0}

VARIABLES state, error, thread, listeners, time,  \* ntp_context; thread: not NULL
          queue, flags,                           \* the kernel objects it names
          call, ret,      \* the client's call in progress; result of the last one
          tpc, socket, working, started, err, \* ntp_task and its locals
          timer,          \* is ntp_timer running
          undefined,      \* kinds of undefined behaviour met: the model stops there
          \* history, since the last Init from UNINITIALISED: what has gone wrong;
          \* how often has Deinit reported an error
          troubles, failures

context == <<state, error, thread, listeners, time>>
client == <<call, ret, failures>>
locals == <<socket, working, started, err, timer>>
ntp == <<context, queue, flags, client, tpc, locals, undefined, troubles>>

Events == {"START", "GET_TIME", "STOP", "TERMINATE"}
Flags == {"START", "STOP", "ERROR", "TERMINATED"}
Results == {"OK", "ERR"}   \* IOT_NTP_CLIENT_OK, any IOT_NTP_CLIENT_ERR_...
\* late: a wait timed out; fault: a full queue, or a network or timer call that
\* failed; retried: the task went back to START.
Troubles == {"late", "fault", "retried"}

NtpTypeOK ==
    /\ state \in {"UNINITIALISED", "STOPPED", "RUNNING"}
    /\ error \in Results /\ err \in Results /\ ret \in Results
    /\ thread \in BOOLEAN /\ working \in BOOLEAN /\ started \in BOOLEAN
    /\ timer \in BOOLEAN /\ failures \in 0..MaxFailures
    /\ listeners \in BoundedSeq({"none", "callback", "garbage"}, 2 * MaxFailures + 1)
    /\ listeners # <<>>
    /\ time \in {0, 1}
    /\ queue \in BoundedSeq(Events, QueueSize)
    /\ flags \subseteq Flags
    /\ call \in {"none", "start", "stop", "terminate", "terminating"}
    /\ tpc \in {"none", "wait", "start", "exchange", "arm", "stop", "report",
               "last", "end"}
    /\ socket \in {"ESOCK", "open", "invalid"}
    /\ undefined \subseteq {"deleted", "listener", "stale"}
    /\ troubles \subseteq Troubles

NtpInit ==
    /\ state = "UNINITIALISED" /\ error = "OK" /\ thread = FALSE
    /\ listeners = <<"none">> /\ time = 0
    /\ queue = <<>> /\ flags = {}
    /\ call = "none" /\ ret = "OK" /\ failures = 0
    /\ tpc = "none" /\ socket = "ESOCK"
    /\ working = FALSE /\ started = FALSE /\ err = "OK" /\ timer = FALSE
    /\ undefined = {} /\ troubles = {}

Note(t) == troubles' = troubles \cup t

\* osMessageQueuePut with timeout 0: a full queue refuses.
HasRoom == Len(queue) < QueueSize
Put(e) == queue' = IF HasRoom THEN Append(queue, e) ELSE queue
Refused == IF HasRoom THEN {} ELSE {"fault"}

-----------------------------------------------------------------------------
(* The API calls of the client thread.                                      *)
(* A definition Name_Slip, just above Name, is a plausible slip in the code *)
(* of Name: with it in Name's place the runs must report a violation.       *)

\* ret is meaningful between calls only.
Return(r) == ret' = r /\ call' = "none"
Call(c) == call' = c /\ ret' = "OK"

\* wait_for_ntp_event(e) ends: on e or ERROR, comparing all the flags with e; or
\* after 60 s, with the last error reported, which may be OK.
AwaitedFlags(e) == {e, "ERROR"}
Flagged(e) == flags \cap AwaitedFlags(e) # {}
Cleared(e) == AwaitedFlags(e)
WaitEnds(e) == Note(IF Flagged(e) THEN {} ELSE {"late"})
wait_for_ntp_event(e) ==
    CASE ~Flagged(e) -> error
      [] flags = {e} -> "OK"
      [] "ERROR" \in flags -> error
      [] OTHER -> "ERR"

\* memset(&ntp_context, 0, ...), the kernel objects gone.
ClearContext ==
    /\ state' = "UNINITIALISED" /\ error' = "OK" /\ thread' = FALSE
    /\ listeners' = <<"none">> /\ time' = 0 /\ queue' = <<>> /\ flags' = {}

\* A mutex, queue, event flags or thread that cannot be created: iotNtpClientDeinit
\* undoes the others.  The task returns at once when it gets no timer.
iotNtpClientInit ==
    /\ call = "none"
    /\ \/ state # "UNINITIALISED" /\ Return("OK")
          /\ UNCHANGED <<context, queue, flags, tpc, locals, troubles, failures>>
       \/ state = "UNINITIALISED" /\ Return("ERR") /\ ClearContext
          /\ UNCHANGED <<tpc, locals, troubles, failures>>
       \/ /\ state = "UNINITIALISED"
          /\ Return("OK")
          /\ state' = "STOPPED" /\ error' = "OK" /\ thread' = TRUE
          /\ listeners' = <<"none">> /\ time' = 0 /\ queue' = <<>> /\ flags' = {}
          /\ tpc' \in {"wait", "none"}
          /\ socket' = "ESOCK" /\ working' = FALSE
          /\ started' = FALSE /\ err' = "OK" /\ timer' = FALSE
          /\ troubles' = {} /\ failures' = 0
    /\ UNCHANGED undefined

iotNtpClientStart ==
    /\ call = "none"
    /\ \/ state = "UNINITIALISED" /\ Return("ERR") /\ UNCHANGED <<queue, troubles>>
       \/ /\ state = "STOPPED"
          /\ IF HasRoom THEN Call("start") ELSE Return("ERR")
          /\ Put("START") /\ Note(Refused)
       \/ state = "RUNNING" /\ Call("start") /\ UNCHANGED <<queue, troubles>>
    /\ UNCHANGED <<context, flags, failures, tpc, locals, undefined>>

StartReturns ==
    /\ call = "start"
    /\ WaitEnds("START")
    /\ flags' = flags \ Cleared("START")
    /\ LET r == wait_for_ntp_event("START")
       IN  Return(r) /\ state' = IF r = "OK" THEN "RUNNING" ELSE state
    /\ UNCHANGED <<error, thread, listeners, time, queue, failures, tpc, locals, undefined>>

\* iotNtpClientDeinit of a running client begins with iotNtpClientStop.
iotNtpClientStop ==
    /\ call = "none"
    /\ state = "RUNNING"
    /\ IF HasRoom THEN Call("stop") /\ UNCHANGED failures
                  ELSE Return("ERR") /\ failures' = failures + 1
    /\ Put("STOP") /\ Note(Refused)
    /\ UNCHANGED <<context, flags, tpc, locals, undefined>>

StopReturns ==
    /\ call = "stop"
    /\ WaitEnds("STOP")
    /\ flags' = flags \ Cleared("STOP")
    /\ LET r == wait_for_ntp_event("STOP")
       IN  IF r = "OK"
             THEN state' = "STOPPED" /\ Call("terminate") /\ UNCHANGED failures
             ELSE Return(r) /\ failures' = failures + 1 /\ UNCHANGED state
    /\ UNCHANGED <<error, thread, listeners, time, queue, tpc, locals, undefined>>

\* The task must have ended before its mutex, queue and flags are deleted.
FreeAll ==
    /\ ClearContext
    /\ Return("OK")
    /\ undefined' = undefined \cup (IF tpc = "none" THEN {} ELSE {"deleted"})
    /\ UNCHANGED failures

\* The rest of iotNtpClientDeinit: post TERMINATE, wait, free.
MustTerminate_Skips == FALSE
MustTerminate == thread
Terminate ==
    /\ call = "terminate" \/ (call = "none" /\ state # "RUNNING")
    /\ IF MustTerminate
         THEN /\ IF HasRoom THEN Call("terminating") /\ UNCHANGED failures
                            ELSE Return("ERR") /\ failures' = failures + 1
              /\ Put("TERMINATE") /\ Note(Refused)
              /\ UNCHANGED <<context, flags, undefined>>
         ELSE FreeAll /\ UNCHANGED troubles
    /\ UNCHANGED <<tpc, locals>>

TerminateReturns ==
    /\ call = "terminating"
    /\ WaitEnds("TERMINATED")
    /\ LET r == wait_for_ntp_event("TERMINATED")
       IN  IF r = "OK"
             THEN FreeAll
             ELSE /\ Return(r) /\ failures' = failures + 1
                  /\ flags' = flags \ Cleared("TERMINATED")
                  /\ UNCHANGED <<context, queue, undefined>>
    /\ UNCHANGED <<tpc, locals>>

\* The list is walked to a node without a callback.  A node from malloc holds an
\* arbitrary cb, taken for a registered one unless it happens to be NULL.
iotNtpClientAddListener ==
    /\ call = "none"
    /\ IF state = "UNINITIALISED"
         THEN Return("ERR") /\ UNCHANGED listeners
         ELSE /\ Return("OK")
              /\ IF "none" \in Range(listeners)
                   THEN listeners' = [listeners EXCEPT
                          ![SelectInSeq(listeners, LAMBDA c : c = "none")] = "callback"]
                   ELSE \E junk \in {<<>>, <<"garbage">>} :
                          listeners' = listeners \o junk \o <<"callback">>
    /\ UNCHANGED <<state, error, thread, time, queue, flags, failures, tpc, locals,
                   undefined, troubles>>

\* Only the head's callback is cleared; every node but the last is freed, and the
\* first of them is ntp_context.listeners itself.
FreesHead == Len(listeners) > 1
iotNtpClientClearListeners ==
    /\ call = "none"
    /\ IF state = "UNINITIALISED"
         THEN Return("ERR") /\ UNCHANGED <<listeners, undefined>>
         ELSE /\ Return("OK")
              /\ listeners' = [listeners EXCEPT ![1] = "none"]
              /\ undefined' = undefined \cup (IF FreesHead THEN {"listener"} ELSE {})
    /\ UNCHANGED <<state, error, thread, time, queue, flags, failures, tpc, locals, troubles>>

\* time(): iotNtpClientGetTime while iotNtpClientGetState is RUNNING, 0 otherwise.
time_read == IF state = "RUNNING" THEN time ELSE 0

-----------------------------------------------------------------------------
(* ntp_timer_callback, and ntp_task.  An iteration takes an event, handles  *)
(* it in one or more steps and ends in TaskReport (at "last" for TERMINATE).*)

ntp_timer_callback_First == queue' = IF HasRoom THEN <<"GET_TIME">> \o queue ELSE queue
ntp_timer_callback == Put("GET_TIME")
TimerFires ==
    /\ timer
    /\ ntp_timer_callback /\ Note(Refused)
    /\ UNCHANGED <<context, flags, client, tpc, locals, undefined>>

\* GET_TIME is escalated to START "if connection had errors".
Escalates == ~working
TaskGet ==
    /\ tpc = "wait"
    /\ queue # <<>>
    /\ queue' = Tail(queue)
    /\ tpc' = CASE Head(queue) = "START" -> "start"
                [] Head(queue) = "GET_TIME" -> IF Escalates THEN "start" ELSE "exchange"
                [] Head(queue) = "STOP" -> "stop"
                [] Head(queue) = "TERMINATE" -> "last"
    /\ UNCHANGED <<context, flags, client, locals, undefined, troubles>>

\* The `break` with an error: to the end of the iteration.
Break(e) == err' = e /\ tpc' = "report"

\* A retry closes the socket first, the timer stopped.  A socket that could not be
\* created may hold any error code, which a later iotSocketClose refuses.
Reopens == socket # "ESOCK"
StopForRetry == timer /\ ~(Reopens /\ started)
Retried == IF Reopens /\ started THEN {"retried"} ELSE {}
TaskStart ==
    /\ tpc = "start"
    /\ timer' = StopForRetry
    /\ \/ /\ \/ Reopens /\ UNCHANGED socket
             \/ socket # "invalid" /\ socket' \in {"ESOCK", "invalid", "open"}
          /\ Break("ERR") /\ Note({"fault"} \cup Retried)
       \/ /\ socket # "invalid" /\ socket' = "open"
          /\ tpc' = "exchange" /\ Note(Retried)
          /\ UNCHANGED err
    /\ UNCHANGED <<context, queue, flags, client, working, started, undefined>>

\* The listeners called with the new time: all up to the first without a callback.
Called == LET stop == SelectInSeq(listeners, LAMBDA c : c = "none")
          IN  Range(IF stop = 0 THEN listeners ELSE SubSeq(listeners, 1, stop - 1))

\* No answer in time, or garbage: "Restart a request immediately", in the queue.
Unanswered ==
    /\ tpc = "exchange"
    /\ socket = "open"
    /\ working' = FALSE
    /\ ntp_timer_callback /\ Note(Refused)
    /\ tpc' = "report"
    /\ UNCHANGED <<context, flags, client, socket, started, err, timer, undefined>>

\* iotSocketSend or iotSocketRecv fails, as it does on a socket that STOP closed.
ExchangeFails ==
    /\ tpc = "exchange"
    /\ working' = FALSE
    /\ Break("ERR")
    /\ Note({"fault"})
    /\ UNCHANGED <<context, queue, flags, client, socket, started, timer, undefined>>

\* An answer of the right length (t # 0) sets the time and calls the listeners,
\* with the harm they do; one of another length is taken as an answer all the same.
Answered(t, harm) ==
    /\ tpc = "exchange"
    /\ socket = "open"
    /\ IF t = 0
         THEN UNCHANGED <<time, undefined>>
         ELSE /\ time' = t
              /\ undefined' = undefined \cup harm
                    \cup (IF "garbage" \in Called THEN {"listener"} ELSE {})
    /\ tpc' = "arm"
    /\ UNCHANGED <<state, error, thread, listeners, queue, flags, client, locals, troubles>>

\* The first answer starts the timer and reports START.
Armed_Forgotten == FALSE
Armed == TRUE
TaskArm ==
    /\ tpc = "arm"
    /\ \/ started /\ working' = TRUE /\ tpc' = "report"
          /\ UNCHANGED <<started, timer, flags, err, troubles>>
       \/ ~started /\ Break("ERR") /\ Note({"fault"})
          /\ UNCHANGED <<started, timer, flags, working>>
       \/ /\ ~started
          /\ started' = TRUE /\ timer' = Armed /\ working' = TRUE
          /\ flags' = flags \cup {"START"}
          /\ tpc' = "report"
          /\ UNCHANGED <<err, troubles>>
    /\ UNCHANGED <<context, queue, client, socket, undefined>>

\* `started` and `working` stay as they are.
TaskStop ==
    /\ tpc = "stop"
    /\ timer' = FALSE
    /\ \/ Break("ERR") /\ Note({"fault"}) /\ UNCHANGED <<socket, flags>>
       \/ /\ socket = "open"
          /\ socket' = "ESOCK"
          /\ flags' = flags \cup {"STOP"}
          /\ tpc' = "report"
          /\ UNCHANGED <<err, troubles>>
    /\ UNCHANGED <<context, queue, client, working, started, undefined>>

\* The end of an iteration: the error of this one or of any earlier one is
\* reported, then TERMINATE leaves the loop.
TaskReport ==
    /\ tpc \in {"report", "last"}
    /\ IF err = "OK" THEN UNCHANGED <<error, flags>>
                     ELSE error' = err /\ flags' = flags \cup {"ERROR"}
    /\ tpc' = IF tpc = "last" THEN "end" ELSE "wait"
    /\ UNCHANGED <<state, thread, listeners, time, queue, client, locals, undefined, troubles>>

TaskEnd ==
    /\ tpc = "end"
    /\ socket' = "ESOCK"
    /\ timer' = FALSE
    /\ flags' = flags \cup {"TERMINATED"}
    /\ tpc' = "none"
    /\ UNCHANGED <<context, queue, client, working, started, err, undefined, troubles>>
=============================================================================
