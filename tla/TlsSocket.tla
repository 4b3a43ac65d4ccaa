----------------------------- MODULE TlsSocket -----------------------------
(***************************************************************************)
(* mbed-os-netsocket's TLSSocketWrapper, used by one thread, on any        *)
(* transport (external here): a TCPSocket, whose set_blocking never        *)
(* returns (TcpSocket), or an object derived from it that overrides the    *)
(* virtual set_blocking and returns.  mbed TLS (external) completes the    *)
(* handshake, wants more input or output, or fails; it calls ssl_send and  *)
(* ssl_recv as often as it needs to, and they change nothing.              *)
(*                                                                         *)
(* `doing' is the call under way, and what follows in it:                  *)
(*   start, handshake, transfer   for connect, send and recv               *)
(*   notified                     for close, which the destructor repeats  *)
(*   stuck                        the transport's set_blocking hangs       *)
(***************************************************************************)
EXTENDS Integers

VARIABLES _transport,             \* is the pointer still set?
          _tls_initialized, _handshake_completed,
          _connect_transport, _close_transport,    \* control_transport
          doing,                  \* the call under way
          crashed                 \* _transport was used after close() cleared it

control == <<_connect_transport, _close_transport>>
tlsvars == <<_transport, _tls_initialized, _handshake_completed, control, doing, crashed>>

NoTls == [op |-> "none", then |-> "return"]
TlsOps == {"connect", "transfer", "close", "set_timeout"}

TlsTypeOK ==
    /\ _transport \in BOOLEAN /\ crashed \in BOOLEAN
    /\ _tls_initialized \in BOOLEAN /\ _handshake_completed \in BOOLEAN
    /\ _connect_transport \in BOOLEAN /\ _close_transport \in BOOLEAN
    /\ doing \in [op : TlsOps \cup {"none"},
                  then : {"return", "start", "handshake", "transfer", "notified", "stuck"}]

TlsInit ==
    /\ _transport = TRUE
    /\ _tls_initialized = FALSE /\ _handshake_completed = FALSE
    /\ _connect_transport \in BOOLEAN /\ _close_transport \in BOOLEAN
    /\ doing = NoTls
    /\ crashed = FALSE

-----------------------------------------------------------------------------
(* A definition Name_Slip, just above Name, is a plausible slip in the code *)
(* of Name: with it in Name's place the run must report a violation.        *)

\* A call of the wrapper, and how it goes on.
Begins == doing = NoTls /\ ~crashed /\ UNCHANGED control
Resumes(then) == doing.then = then /\ UNCHANGED <<control, crashed>>
Done == doing' = NoTls
Then(op, then) == doing' = [op |-> op, then |-> then]

\* The transport's set_blocking or set_timeout: it returns, or it does not.
SetsBlocking(op, then) == Then(op, then) \/ Then(op, "stuck")

is_handshake_started == _tls_initialized

\* connect(address): the transport is connected first, or found connected, unless
\* the handshake has begun or the transport is the caller's business.
connect ==
    /\ Begins
    /\ \/ ~_transport /\ Done
       \/ _transport /\ ~is_handshake_started /\ _connect_transport /\ Done
       \/ _transport /\ Then("connect", "start")
    /\ UNCHANGED <<_transport, _tls_initialized, _handshake_completed, crashed>>

\* start_handshake: seeding or the configuration may fail; the transport is made
\* non-blocking, and then the handshake runs.
start_handshake ==
    /\ Resumes("start")
    /\ \/ _tls_initialized /\ Then("connect", "handshake") /\ UNCHANGED _tls_initialized
       \/ ~_tls_initialized /\ Done /\ UNCHANGED _tls_initialized
       \/ ~_tls_initialized /\ Then("connect", "stuck") /\ UNCHANGED _tls_initialized
       \/ ~_tls_initialized /\ Then("connect", "handshake") /\ _tls_initialized' = TRUE
    /\ UNCHANGED <<_transport, _handshake_completed>>

\* send and recv make the transport non-blocking and finish the handshake first.
send_recv ==
    /\ Begins
    /\ \/ ~_transport /\ Done
       \/ _transport /\ SetsBlocking("transfer", "handshake")
    /\ UNCHANGED <<_transport, _tls_initialized, _handshake_completed, crashed>>

\* continue_handshake.  The transfer follows, if there is one and the handshake
\* is completed.
continue_handshake ==
    /\ Resumes("handshake")
    /\ LET completed == IF doing.op = "connect" THEN Done ELSE Then("transfer", "transfer")
       IN  \/ _handshake_completed /\ completed /\ UNCHANGED _handshake_completed
           \/ /\ ~_handshake_completed /\ _tls_initialized
              /\ completed /\ _handshake_completed' = TRUE
           \/ ~_handshake_completed /\ Done /\ UNCHANGED _handshake_completed
    /\ UNCHANGED <<_transport, _tls_initialized>>

\* mbedtls_ssl_write and mbedtls_ssl_read.
transfer ==
    /\ Resumes("transfer")
    /\ Done
    /\ UNCHANGED <<_transport, _tls_initialized, _handshake_completed>>

\* close(): close_notify on a transport made blocking again, then the transport
\* is closed, if that is the wrapper's business, and forgotten.
close_tls ==
    /\ Begins
    /\ \/ ~_transport /\ Done
       \/ _transport /\ _handshake_completed /\ SetsBlocking("close", "notified")
       \/ _transport /\ ~_handshake_completed /\ Then("close", "notified")
    /\ UNCHANGED <<_transport, _tls_initialized, _handshake_completed, crashed>>
ClearCompleted_Not == UNCHANGED _handshake_completed
ClearCompleted == _handshake_completed' = FALSE
notified ==
    /\ Resumes("notified")
    /\ ClearCompleted
    /\ _transport' = FALSE
    /\ Done
    /\ UNCHANGED _tls_initialized

\* set_timeout(timeout) and getpeername, which recvfrom calls as well, use
\* _transport without testing it; bind, setsockopt and getsockopt test it.
Uses(needed, used) ==
    /\ Begins
    /\ \/ ~needed /\ Done /\ UNCHANGED crashed
       \/ needed /\ ~_transport /\ Done /\ crashed' = TRUE
       \/ needed /\ _transport /\ used /\ UNCHANGED crashed
    /\ UNCHANGED <<_transport, _tls_initialized, _handshake_completed>>
set_timeout_tls(forever) ==
    Uses(~is_handshake_started /\ ~forever /\ _connect_transport,
         Done \/ Then("set_timeout", "stuck"))
getpeername == Uses(_handshake_completed, Done)
delegated == Uses(_transport, Done)

TlsCall == connect \/ send_recv \/ close_tls \/ getpeername \/ delegated
           \/ \E forever \in BOOLEAN : set_timeout_tls(forever)
TlsStep == start_handshake \/ continue_handshake \/ transfer \/ notified
TlsNext == TlsCall \/ TlsStep
TlsSpec == TlsInit /\ [][TlsNext]_tlsvars

-----------------------------------------------------------------------------
(* Properties.                                                              *)

\* The wrapper uses the transport it has given up only if no handshake was ever
\* started: set_timeout (TLSSocketWrapper.cpp:627) is guarded by the handshake,
\* not by the pointer, and getpeername (:670) by _handshake_completed alone.
NullOnlyBeforeHandshake == crashed => ~_tls_initialized
=============================================================================
