-------------------------- MODULE AwsNetworkProofs --------------------------
(***************************************************************************)
(* Proofs about AwsNetwork, for every set of descriptors and every bound   *)
(* on the retries.                                                         *)
(***************************************************************************)
EXTENDS AwsNetwork, TLAPS

\* iotSocketClose, on the context's own socket, leaves the context with none.
LEMMA CloseReleases ==
    ASSUME NetInv, socket_fd # ESOCK, iotSocketClose(socket_fd), socket_fd' = ESOCK
    PROVE  /\ open' \subseteq Socket /\ unclosed' \subseteq Socket
           /\ RefusedStayOpen' /\ NoSocketLeaked'
  BY RealSockets DEF NetInv, TypeOK, RefusedStayOpen, NoSocketLeaked, iotSocketClose

\* AwsNetwork_close empties the context, from any state.
LEMMA ResetReleases ==
    ASSUME NetInv, Reset
    PROVE  /\ open' \subseteq Socket /\ unclosed' \subseteq Socket
           /\ RefusedStayOpen' /\ NoSocketLeaked'
           /\ socket_fd' = ESOCK /\ ssl' = "none" /\ ssl_fd' = ESOCK
<1>1. socket_fd' = ESOCK /\ ssl' = "none" /\ ssl_fd' = ESOCK
  BY DEF Reset, Session
<1>2. CASE socket_fd = ESOCK
  BY <1>1, <1>2 DEF Reset, NothingToClose, NetInv, TypeOK, RefusedStayOpen, NoSocketLeaked
<1>3. CASE socket_fd # ESOCK
  BY <1>1, <1>3, CloseReleases DEF Reset
<1> QED
  BY <1>1, <1>2, <1>3

\* The invariant is preserved by every step, whatever fails.
LEMMA NetStep == NetInv /\ [Next]_vars => NetInv'
<1> SUFFICES ASSUME NetInv, [Next]_vars PROVE NetInv'
  OBVIOUS
<1> USE RealSockets
<1> USE DEF NetInv, TypeOK, RefusedStayOpen, SocketAt, SessionAt, NoSocketLeaked,
            SessionFollowsSocket, ResultTellsState, Session, Return
<1>1. CASE AwsNetwork_init
  BY <1>1 DEF AwsNetwork_init
<1>2. CASE AwsNetwork_close
  BY <1>2, ResetReleases DEF AwsNetwork_close
<1>3. CASE AwsNetwork_connect
  BY <1>3 DEF AwsNetwork_connect, ConfigureTls
<1>4. CASE AwsNetwork_configure_socket
  <2>1. CASE pc' = "socket_error" /\ UNCHANGED <<socket_fd, open, unclosed>>
    BY <1>4, <2>1 DEF AwsNetwork_configure_socket
  <2>2. ASSUME NEW s \in Socket \ open,
               socket_fd' = s, open' = open \cup {s}, pc' = "server", UNCHANGED unclosed
        PROVE  NetInv'
    BY <1>4, <2>2 DEF AwsNetwork_configure_socket
  <2>3. ASSUME NEW s \in Socket \ open, socket_fd' = ESOCK, pc' = "socket_error", release_socket(s)
        PROVE  NetInv'
    BY <1>4, <2>3 DEF AwsNetwork_configure_socket, release_socket
  <2> QED
    BY <1>4, <2>1, <2>2, <2>3 DEF AwsNetwork_configure_socket
<1>5. CASE AwsNetwork_connect_server
  BY <1>5 DEF AwsNetwork_connect_server
<1>6. CASE AwsNetwork_connect_tls
  BY <1>6 DEF AwsNetwork_connect_tls
<1>7. CASE connect_cb
  BY <1>7 DEF connect_cb
<1>8. CASE HookError
  BY <1>8 DEF HookError
<1>9. CASE TlsError
  <2>1. CASE pc' = "socket_error" /\ SessionReset /\ UNCHANGED <<ret, socket_fd, open, unclosed>>
    BY <1>9, <2>1 DEF TlsError, SessionReset
  <2>2. CASE Restart
    BY <1>9, <2>2, ResetReleases DEF TlsError, Restart
  <2> QED
    BY <1>9, <2>1, <2>2 DEF TlsError
<1>10. CASE SocketError
  <2>1. CASE socket_fd = ESOCK
    BY <1>10, <2>1 DEF SocketError, NothingToClose
  <2>2. CASE socket_fd # ESOCK
    BY <1>10, <2>2, CloseReleases DEF SocketError
  <2> QED
    BY <2>1, <2>2
<1>11. CASE Backoff
  BY <1>11 DEF Backoff, Exhausted, Counted
<1>12. CASE Exchange
  BY <1>12 DEF Exchange
<1>13. CASE UNCHANGED vars
  BY <1>13 DEF vars
<1> QED
  BY <1>1, <1>2, <1>3, <1>4, <1>5, <1>6, <1>7, <1>8, <1>9, <1>10, <1>11, <1>12, <1>13
     DEF Next, Connecting

\* A context that was never initialised satisfies the invariant.
LEMMA NetInit == Init => NetInv
<1> SUFFICES ASSUME Init PROVE NetInv
  OBVIOUS
<1>1. usable \in BOOLEAN /\ silent \in BOOLEAN
  BY Zenon DEF Init
<1>2. TypeOK
  BY <1>1, RealSockets DEF Init, TypeOK
<1>3. RefusedStayOpen /\ SocketAt /\ SessionAt
  BY DEF Init, RefusedStayOpen, SocketAt, SessionAt
<1>4. NoSocketLeaked /\ SessionFollowsSocket /\ ResultTellsState
  BY DEF Init, NoSocketLeaked, SessionFollowsSocket, ResultTellsState
<1> QED
  BY <1>2, <1>3, <1>4 DEF NetInv

\* The invariant holds in every behaviour.
THEOREM NetInvariant == Spec => []NetInv
  BY NetInit, NetStep, PTL DEF Spec

\* However many attempts, hooks and resets fail, the context's socket is the only
\* one left open, but for those that iotSocketClose refused.
THEOREM SocketsReleased == Spec => []NoSocketLeaked
<1>1. NetInv => NoSocketLeaked
  BY DEF NetInv
<1> QED
  BY <1>1, NetInvariant, PTL

\* Every attempt starts with a fresh TLS session and no session outlives its socket.
THEOREM SessionsReset == Spec => []SessionFollowsSocket
<1>1. NetInv => SessionFollowsSocket
  BY DEF NetInv
<1> QED
  BY <1>1, NetInvariant, PTL

\* AwsNetwork_connect's result can be trusted: 0 with a session on an open socket,
\* -1 with no socket left.
THEOREM ResultTrusted == Spec => []ResultTellsState
<1>1. NetInv => ResultTellsState
  BY DEF NetInv
<1> QED
  BY <1>1, NetInvariant, PTL

\* Together: the result and the context tell of every socket that is open.
THEOREM ConnectionTrusted == Spec => []ConnectionAccounted
<1>1. NetInv => ConnectionAccounted
  BY DEF NetInv, ConnectionAccounted
<1> QED
  BY <1>1, NetInvariant, PTL
=============================================================================
