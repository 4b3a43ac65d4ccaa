------------------------------ MODULE MCAzure ------------------------------
(***************************************************************************)
(* The platform of the Azure SDK.  platform_init with its NTP client, the  *)
(* thread API and the socket adapter share nothing, so that a behaviour is *)
(* one of the three.  A behaviour of the adapter has a budget of IoCalls   *)
(* opens and sends together.                                               *)
(***************************************************************************)
EXTENDS AzurePlatform, ThreadApi, SocketIo

CONSTANTS i1, i2, IoCalls

VARIABLE kind      \* which of the three the behaviour is of

MCInit == Init /\ ThreadApiInit /\ SocketIoInit /\ kind \in {"platform", "threads", "sockets"}

MCPlatform == kind = "platform" /\ Next /\ UNCHANGED <<api_vars, io_vars, kind>>
MCThreads == kind = "threads" /\ ThreadApiNext /\ UNCHANGED <<vars, io_vars, kind>>
MCSockets ==
    /\ kind = "sockets"
    /\ SocketIoNext
    /\ Len(sockets') + sends' <= IoCalls
    /\ UNCHANGED <<vars, api_vars, kind>>

\* The fairness of AzurePlatform and of ThreadApi, each of its own behaviours.
MCFairness ==
    /\ WF_vars(kind = "platform" /\ undefined = {} /\ Application)
    /\ WF_vars(kind = "platform" /\ undefined = {} /\ NtpTask)
    /\ WF_api_vars(kind = "threads" /\ CallSteps)
    /\ \A c \in Context : WF_api_vars(kind = "threads" /\ ThreadSteps(c))

MCSpec ==
    /\ MCInit
    /\ [][MCPlatform \/ MCThreads \/ MCSockets]_<<vars, api_vars, io_vars, kind>>
    /\ MCFairness
=============================================================================
