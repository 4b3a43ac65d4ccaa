----------------------------- MODULE AwsNetwork -----------------------------
(***************************************************************************)
(* The AWS network manager (aws_network_manager.c): one application thread *)
(* initialises a network context, connects it with retries, exchanges data *)
(* and closes it, over a TCP socket and an mbed TLS context, both external.*)
(* The network and the server may fail or fall silent at any call.         *)
(***************************************************************************)
EXTENDS Naturals

CONSTANTS Socket,          \* descriptors the socket layer hands out
          ESOCK,           \* IOT_SOCKET_ESOCK
          MaxRetries       \* config->retry_max_attempts

ASSUME RealSockets == ESOCK \notin Socket /\ MaxRetries \in Nat

VARIABLES pc,              \* of AwsNetwork_connect; "idle" outside it
          usable,          \* the context has been initialised and not closed
          ret,             \* what AwsNetwork_connect returned; "none" before
          socket_fd,
          ssl, ssl_fd,     \* the TLS session, and the socket it is used on
          retries,         \* reconnect_config
          open,            \* the descriptors open in the socket layer
          \* history: the descriptors whose iotSocketClose failed, and has the
          \* server let a receive timeout pass in this handshake
          unclosed, silent

vars == <<pc, usable, ret, socket_fd, ssl, ssl_fd, retries, open, unclosed, silent>>

TypeOK ==
    /\ pc \in {"idle", "socket", "server", "handshake", "hook", "hook_error", "tls_error",
               "socket_error", "backoff"}
    /\ usable \in BOOLEAN
    /\ ret \in {"none", "ok", "fail"}
    /\ socket_fd \in Socket \cup {ESOCK}
    /\ ssl \in {"none", "fresh", "handshake", "secure", "broken"}  \* none: not set up
    /\ ssl_fd \in Socket \cup {ESOCK}
    /\ retries \in 0..MaxRetries
    /\ open \subseteq Socket
    /\ unclosed \subseteq Socket
    /\ silent \in BOOLEAN

Init ==
    /\ pc = "idle" /\ usable = FALSE /\ ret = "none"
    /\ socket_fd = ESOCK /\ ssl = "none" /\ ssl_fd = ESOCK
    /\ retries = 0 /\ open = {} /\ unclosed = {} /\ silent = FALSE

-----------------------------------------------------------------------------
(* A definition Name_Slip, just above Name, is a plausible slip in the code *)
(* of Name: with it in Name's place the runs must report a violation.       *)

Session(s, fd) == ssl' = s /\ ssl_fd' = fd

\* iotSocketClose, whose failure is logged only.
iotSocketClose(s) ==
    \/ open' = open \ {s} /\ UNCHANGED unclosed
    \/ unclosed' = unclosed \cup {s} /\ UNCHANGED open
NothingToClose == UNCHANGED <<open, unclosed>>

AwsNetwork_init ==
    /\ pc = "idle"
    /\ ~usable
    /\ usable' = TRUE
    /\ socket_fd' = ESOCK /\ Session("none", ESOCK) /\ ret' = "none"
    /\ UNCHANGED <<pc, retries, open, unclosed, silent>>

\* TLS data freed, socket closed, context zeroed.
Reset ==
    /\ Session("none", ESOCK)
    /\ IF socket_fd = ESOCK THEN NothingToClose ELSE iotSocketClose(socket_fd)
    /\ socket_fd' = ESOCK

AwsNetwork_close ==
    /\ pc = "idle"
    /\ usable
    /\ usable' = FALSE /\ ret' = "none"
    /\ Reset
    /\ UNCHANGED <<pc, retries, silent>>

\* AwsNetwork_configure_tls_contexts: with the session set up, or given up with
\* whatever had been configured left in place.
ConfigureTls ==
    \/ pc' = "socket" /\ ret' = "none" /\ Session("fresh", ESOCK)
    \/ ret' = "fail" /\ ssl' \in {ssl, "fresh"} /\ UNCHANGED <<pc, ssl_fd>>

AwsNetwork_connect ==
    /\ pc = "idle"
    /\ usable
    /\ ret # "ok"
    /\ retries' = 0
    /\ ConfigureTls
    /\ UNCHANGED <<usable, socket_fd, open, unclosed, silent>>

Return(r) == pc' = "idle" /\ ret' = r

\* A socket without its receive timeout is closed again; the result is dropped.
release_socket_Skipped(s) == open' = open \cup {s} /\ UNCHANGED unclosed
release_socket(s) ==
    \/ UNCHANGED <<open, unclosed>>
    \/ open' = open \cup {s} /\ unclosed' = unclosed \cup {s}
AwsNetwork_configure_socket ==
    /\ pc = "socket"
    /\ \/ pc' = "socket_error" /\ UNCHANGED <<socket_fd, open, unclosed>>
       \/ \E s \in Socket \ open :
             \/ socket_fd' = s /\ open' = open \cup {s} /\ pc' = "server" /\ UNCHANGED unclosed
             \/ socket_fd' = ESOCK /\ pc' = "socket_error" /\ release_socket(s)
    /\ UNCHANGED <<usable, ret, ssl, ssl_fd, retries, silent>>

AwsNetwork_connect_server ==
    /\ pc = "server"
    /\ pc' \in {"handshake", "socket_error"}
    /\ silent' = FALSE
    /\ UNCHANGED <<usable, ret, socket_fd, ssl, ssl_fd, retries, open, unclosed>>

\* AwsNetwork_connect_tls: handshake again while it wants to read or write, then
\* check the certificate.
AwsNetwork_connect_tls ==
    /\ pc = "handshake"
    /\ \/ pc' = "handshake" /\ Session("handshake", socket_fd) /\ silent' = TRUE
       \/ pc' = "tls_error" /\ Session("broken", socket_fd) /\ UNCHANGED silent
       \/ pc' = "hook" /\ Session("secure", socket_fd) /\ UNCHANGED silent
    /\ UNCHANGED <<usable, ret, socket_fd, retries, open, unclosed>>

\* connect_cb, which may use AwsNetwork_send and AwsNetwork_recv.
connect_cb ==
    /\ pc = "hook"
    /\ \/ Return("ok")
       \/ pc' = "hook_error" /\ UNCHANGED ret
    /\ UNCHANGED <<usable, socket_fd, ssl, ssl_fd, retries, open, unclosed, silent>>

\* mbedtls_ssl_close_notify.
HookError ==
    /\ pc = "hook_error"
    /\ pc' = "tls_error"
    /\ Session("broken", socket_fd)
    /\ UNCHANGED <<usable, ret, socket_fd, retries, open, unclosed, silent>>

\* mbedtls_ssl_session_reset; if it fails the whole context is closed and
\* initialised again.
SessionReset_Left == UNCHANGED <<ssl, ssl_fd>>
SessionReset == Session("fresh", ESOCK)
Restart == Return("fail") /\ Reset
TlsError ==
    /\ pc = "tls_error"
    /\ \/ /\ pc' = "socket_error" /\ SessionReset
          /\ UNCHANGED <<ret, socket_fd, open, unclosed>>
       \/ Restart
    /\ UNCHANGED <<usable, retries, silent>>

SocketError ==
    /\ pc = "socket_error"
    /\ IF socket_fd # ESOCK
         THEN iotSocketClose(socket_fd) /\ socket_fd' = ESOCK
         ELSE NothingToClose /\ UNCHANGED socket_fd
    /\ pc' = "backoff"
    /\ UNCHANGED <<usable, ret, ssl, ssl_fd, retries, silent>>

\* BackoffAlgorithm_GetNextBackoff allows MaxRetries retries; without a random
\* number connect gives up.
Exhausted == retries >= MaxRetries
Counted_Not == retries
Counted == retries + 1
Backoff ==
    /\ pc = "backoff"
    /\ \/ Return("fail") /\ UNCHANGED retries
       \/ ~Exhausted /\ retries' = Counted /\ pc' = "socket" /\ UNCHANGED ret
    /\ UNCHANGED <<usable, socket_fd, ssl, ssl_fd, open, unclosed, silent>>

\* AwsNetwork_send and AwsNetwork_recv: busy or done leaves the session alone, any
\* other error breaks it.
Exchange ==
    /\ ret = "ok" \/ pc = "hook"
    /\ ssl = "secure"
    /\ Session("broken", socket_fd)
    /\ UNCHANGED <<pc, usable, ret, socket_fd, retries, open, unclosed, silent>>

-----------------------------------------------------------------------------
Connecting ==
    \/ AwsNetwork_configure_socket \/ AwsNetwork_connect_server \/ AwsNetwork_connect_tls
    \/ connect_cb \/ HookError \/ TlsError \/ SocketError \/ Backoff

Next ==
    \/ AwsNetwork_init \/ AwsNetwork_close \/ AwsNetwork_connect
    \/ Connecting
    \/ Exchange

Spec == Init /\ [][Next]_vars

\* The thread runs until AwsNetwork_connect returns, but a server that has let one
\* receive timeout pass need never answer.
Unanswered == pc = "handshake" /\ silent
FairSpec == Spec /\ WF_vars(~Unanswered /\ Connecting)

-----------------------------------------------------------------------------
\* "Close the TCP socket" (handle_socket_error, AwsNetwork_close): through retries,
\* failed hooks and failed resets the context holds the only open socket, but for
\* those that iotSocketClose refused to close.
NoSocketLeaked == open \ unclosed = {socket_fd} \ {ESOCK}

\* Retries, "outside the connection loop" for the TLS context: an attempt starts
\* with a fresh session, and a session is only ever used on the context's socket.
SessionFollowsSocket ==
    /\ pc \in {"socket", "server"} => ssl = "fresh"
    /\ ssl \in {"handshake", "secure", "broken"} => ssl_fd = socket_fd

\* "0 in case of success and -1 in case of failure": success means a session on
\* the open socket, failure means no socket is left.
ResultTellsState ==
    /\ ret = "ok" => socket_fd \in open /\ ssl_fd = socket_fd /\ ssl \in {"secure", "broken"}
    /\ ret = "fail" => socket_fd = ESOCK

\* Whatever step fails, on whichever attempt, the caller's result and the context
\* tell of every socket there is.
ConnectionAccounted == NoSocketLeaked /\ ResultTellsState

\* Liveness, retry_max_attempts: AwsNetwork_connect returns, or ends up in a
\* handshake that the server leaves unanswered: that one has no end, whatever
\* receive_timeout is.
ConnectReturns == (pc # "idle") ~> (pc = "idle" \/ Unanswered)

-----------------------------------------------------------------------------
(* The inductive invariant of the proofs.                                   *)

\* A refused close leaves the descriptor open.
RefusedStayOpen == unclosed \subseteq open

\* Where AwsNetwork_connect stands tells whether there is a socket.
SocketAt ==
    /\ pc \in {"server", "handshake", "hook", "hook_error", "tls_error"} => socket_fd # ESOCK
    /\ pc \in {"socket", "backoff"} => socket_fd = ESOCK
    /\ (pc = "idle" /\ ret # "ok") => socket_fd = ESOCK

\* Where AwsNetwork_connect stands tells how far the session is.
SessionAt ==
    /\ pc \in {"socket_error", "backoff"} => ssl = "fresh"
    /\ pc \in {"hook", "hook_error"} => ssl \in {"secure", "broken"}
    /\ (pc = "idle" /\ ret # "ok") => ssl \in {"none", "fresh"}
    /\ pc # "idle" => usable /\ ret = "none"
    /\ ret = "ok" => usable

NetInv ==
    /\ TypeOK /\ RefusedStayOpen /\ SocketAt /\ SessionAt
    /\ NoSocketLeaked /\ SessionFollowsSocket /\ ResultTellsState
=============================================================================
