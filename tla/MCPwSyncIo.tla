----------------------------- MODULE MCPwSyncIo -----------------------------
(***************************************************************************)
(* The backends of pw_sync and pw_sys_io.  They share nothing, so that a   *)
(* behaviour is one of the mutex, of the notification or of the serial     *)
(* port.  The serial port has two writers and a reader on buffers small    *)
(* enough to wrap and overflow; its two directions share nothing but the   *)
(* interrupt lines: a behaviour has a budget of Work, of which a write     *)
(* call takes CallCost and a byte received takes 1, so that long runs of   *)
(* either and some of both are covered.                                    *)
(***************************************************************************)
EXTENDS PwMutex, ThreadNotification, SysIo

CONSTANTS t1, t2, t3, r1, r2, r3, w1, w2, Work, CallCost

VARIABLE kind      \* which of the three the behaviour is of

MCInit == MutexInit /\ NotificationInit /\ Init /\ kind \in {"mutex", "notification", "sys_io"}

MCMutex == kind = "mutex" /\ MutexNext /\ UNCHANGED <<notification, vars, kind>>
MCNotification ==
    kind = "notification" /\ NotificationNext /\ UNCHANGED <<mutexvars, vars, kind>>
MCSysIo ==
    /\ kind = "sys_io"
    /\ Next
    /\ arrived' + CallCost * calls' <= Work
    /\ UNCHANGED <<mutexvars, notification, kind>>

\* FairNotification and SysIo's Fairness, each of its own behaviours.
MCFairness ==
    /\ SF_notification(kind = "notification" /\ ~stopped /\ Acquiring)
    /\ \A r \in Releaser : WF_notification(kind = "notification" /\ ~stopped /\ Releasing(r))
    /\ WF_vars(kind = "sys_io" /\ Shift)
    /\ WF_vars(kind = "sys_io" /\ serial_irq_tx_cb)
    /\ \A w \in Writer : WF_vars(kind = "sys_io" /\ (Check(w) \/ Put(w) \/ Trigger(w)))

MCSpec ==
    /\ MCInit
    /\ [][MCMutex \/ MCNotification \/ MCSysIo]_<<mutexvars, notification, vars, kind>>
    /\ MCFairness
=============================================================================
