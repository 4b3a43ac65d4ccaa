--------------------------- MODULE AzurePlatform ---------------------------
(***************************************************************************)
(* platform_init and platform_deinit of the Azure port                     *)
(* (platform/src/platform_openiot.c, with IOTSDK_AZURE_SDK_NTP_TIME): the  *)
(* application thread brings up the network task and the NTP client        *)
(* (module NtpClient) and waits for both through its own event flags.      *)
(***************************************************************************)
EXTENDS NtpClient

VARIABLES pc,             \* of the application thread
          res,            \* what platform_init returned or, until it does, is going
                          \* to return; "none" after platform_deinit
          alive,          \* do event_flags_id and network_state_lock exist
          event_flags, network_up,
          network_task    \* has start_network_task been called: it never ends

own == <<pc, res, alive, event_flags, network_up, network_task>>
vars == <<ntp, own>>

TypeOK ==
    /\ NtpTypeOK
    /\ pc \in {"idle", "net_check", "net_wait", "net_recheck", "add", "start",
               "starting", "time_wait", "clear", "ready", "cleanup", "deinit"}
    /\ res \in {"none", "OK", "FAILURE"}
    /\ alive \in BOOLEAN /\ network_up \in BOOLEAN /\ network_task \in BOOLEAN
    /\ event_flags \subseteq {"NETWORK_CHANGE", "TIME_READY"}

Init ==
    /\ NtpInit
    /\ pc = "idle" /\ res = "none"
    /\ alive = FALSE /\ event_flags = {} /\ network_up = FALSE
    /\ network_task = FALSE

-----------------------------------------------------------------------------
(* platform_init, up to its waits.  A retry starts from whatever the failed *)
(* attempt left behind.                                                     *)

Goto(p) == pc' = p /\ UNCHANGED <<res, alive, event_flags, network_up, network_task>>
\* goto cleanup: the flags are not read again.
Cleanup(r) == pc' = "cleanup" /\ res' = r /\ event_flags' = {}
              /\ UNCHANGED <<alive, network_up, network_task>>
Fail == Cleanup("FAILURE")

\* Event flags and lock are created anew, then the NTP client is initialised and
\* start_network_task called, each of which may fail.
platform_init ==
    /\ pc = "idle"
    /\ res # "OK"
    /\ failures < MaxFailures
    /\ event_flags' = {} /\ network_up' = FALSE
    /\ \/ res' = "FAILURE" /\ UNCHANGED <<ntp, pc, alive, network_task>>
       \/ /\ alive' = TRUE
          /\ iotNtpClientInit
          /\ \/ pc' = "cleanup" /\ res' = "FAILURE" /\ UNCHANGED network_task
             \/ ret' = "OK" /\ pc' = "net_check" /\ res' = "OK" /\ network_task' = TRUE

is_network_up ==
    /\ pc = "net_check"
    /\ Goto(IF network_up THEN "add" ELSE "net_wait")
    /\ UNCHANGED ntp

\* wait_for_event: 15 s for one flag, cleared by hand.
wait_for_event(p, e, next) ==
    /\ pc = p
    /\ IF e \in event_flags
         THEN /\ pc' = next /\ event_flags' = event_flags \ {e}
              /\ UNCHANGED <<res, alive, network_up, network_task>>
         ELSE Fail
    /\ UNCHANGED ntp

\* "Network not up" after all: cleanup, with res left at 0.
NetworkRecheck ==
    /\ pc = "net_recheck"
    /\ IF network_up THEN Goto("add") ELSE Cleanup("OK")
    /\ UNCHANGED ntp

AddListener ==
    /\ pc = "add"
    /\ iotNtpClientAddListener
    /\ IF ret' = "OK" THEN Goto("start") ELSE Fail

\* iotNtpClientStart returns at once when it cannot post START.
AfterStart == "time_wait"
Started == IF ret' = "OK" THEN Goto(AfterStart) ELSE Fail
StartClient ==
    /\ pc = "start"
    /\ iotNtpClientStart
    /\ IF call' = "start" THEN Goto("starting") ELSE Started

AwaitStart ==
    /\ pc = "starting"
    /\ StartReturns
    /\ Started

ClearListeners ==
    /\ pc = "clear"
    /\ iotNtpClientClearListeners
    /\ IF ret' = "OK" THEN Goto("ready") ELSE Fail

-----------------------------------------------------------------------------
(* platform_deinit, also the cleanup of platform_init.                      *)

platform_deinit ==
    /\ pc \in {"ready", "idle"}
    /\ res = "OK"
    /\ failures < MaxFailures
    /\ Cleanup("none")
    /\ UNCHANGED ntp

DeinitClient ==
    /\ pc = "cleanup"
    /\ iotNtpClientStop \/ Terminate
    /\ Goto("deinit")

\* Lock and event flags are deleted, whatever iotNtpClientDeinit returned.
DeleteOwn == alive' = FALSE /\ event_flags' = {}
AwaitDeinit ==
    /\ pc = "deinit"
    /\ \/ (StopReturns \/ (call = "terminate" /\ Terminate) \/ TerminateReturns)
          /\ Goto("deinit")
       \/ /\ call = "none"
          /\ pc' = "idle"
          /\ DeleteOwn
          /\ UNCHANGED <<ntp, res, network_up, network_task>>

-----------------------------------------------------------------------------
(* The other threads.                                                       *)

\* Only changes seen before platform_init has the network are kept apart: later it
\* reads neither network_up nor the flag, and the next init resets both.  The
\* network task outlives platform_deinit; its callback then finds no lock.
Watching == pc \in {"net_check", "net_wait", "net_recheck"}
network_state_callback(up) ==
    /\ network_task
    /\ Watching
    /\ up # network_up
    /\ network_up' = up
    /\ event_flags' = event_flags \cup {"NETWORK_CHANGE"}
    /\ UNCHANGED <<ntp, pc, res, alive, network_task>>

\* ntp_listener_callback, called by the NTP task for a new time, sets a flag of
\* event_flags_id, deleted or not.
Listens(t) == t # 0 /\ "callback" \in Called
ntp_listener_callback(t) ==
    /\ Answered(t, IF Listens(t) /\ ~alive THEN {"stale"} ELSE {})
    /\ event_flags' = event_flags \cup (IF Listens(t) /\ alive THEN {"TIME_READY"} ELSE {})
    /\ UNCHANGED <<pc, res, alive, network_up, network_task>>

NtpTask ==
    \/ /\ TaskGet \/ TaskStart \/ Unanswered \/ ExchangeFails \/ TaskArm \/ TaskStop
          \/ TaskReport \/ TaskEnd
       /\ UNCHANGED own
    \/ \E t \in {0, 1} : ntp_listener_callback(t)

Application ==
    \/ is_network_up
    \/ wait_for_event("net_wait", "NETWORK_CHANGE", "net_recheck")
    \/ NetworkRecheck \/ AddListener \/ StartClient \/ AwaitStart
    \/ wait_for_event("time_wait", "TIME_READY", "clear")
    \/ ClearListeners \/ DeinitClient \/ AwaitDeinit

Next ==
    /\ undefined = {}
    /\ \/ platform_init \/ platform_deinit
       \/ Application
       \/ NtpTask
       \/ TimerFires /\ UNCHANGED own
       \/ \E up \in BOOLEAN : network_state_callback(up)

Spec == Init /\ [][Next]_vars

\* Threads that can run do, and every wait of the application has a timeout.
FairSpec ==
    /\ Spec
    /\ WF_vars(undefined = {} /\ Application)
    /\ WF_vars(undefined = {} /\ NtpTask)

-----------------------------------------------------------------------------
\* "Platform initialization success": while platform_init's 0 stands time() has a
\* time from the server, unless that init lost the network ("Network not up").
SuccessMeansTimeKnown ==
    pc \in {"ready", "idle"} /\ res = "OK" => time_read # 0 \/ ~network_up

\* iotNtpClientDeinit frees the objects of the NTP task only once the task has
\* ended, unless one of its waits, or an earlier one, timed out.
FreedUnderTaskOnlyIfLate == "deleted" \in undefined => "late" \in troubles

\* The listener list stays sound and no listener outlives the platform's event
\* flags, unless an iotNtpClientDeinit has failed.
ListenersSafeUntilFailure == undefined \cap {"listener", "stale"} # {} => failures > 0

\* "Stop the NTP client if run and free all held resources": a deinit fails only
\* after a timeout, a full queue or a network or timer call that failed.
DeinitFailsOnlyInTrouble == failures > 0 => troubles \cap {"late", "fault"} # {}

\* Tearing the client and the platform down leaves nobody using what was freed,
\* and fails only if something else went wrong, as above.
TeardownSafe == FreedUnderTaskOnlyIfLate /\ ListenersSafeUntilFailure /\ DeinitFailsOnlyInTrouble

\* "actively updating": a running client has had an answer, unless a wait timed out.
RunningMeansAnswered == state = "RUNNING" => started \/ "late" \in troubles

\* "again every time this interval elapses": the timer of a ready platform runs,
\* but after a retry or a deinit that failed.
UpdatesContinue == pc = "ready" /\ started => timer \/ "retried" \in troubles \/ failures > 0

\* A platform that reports success has the time, and keeps it: through timeouts,
\* retries, re-initialisation and a network that comes and goes.
TimeKept == SuccessMeansTimeKnown /\ RunningMeansAnswered /\ UpdatesContinue

\* Liveness: TERMINATE reaches the task, however often it retries its request.
TerminateEndsTask == ("TERMINATE" \in Range(queue) /\ tpc # "none") ~> (tpc = "none" \/ undefined # {})
=============================================================================
