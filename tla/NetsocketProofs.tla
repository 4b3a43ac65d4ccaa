--------------------------- MODULE NetsocketProofs ---------------------------
(***************************************************************************)
(* The socket library, for any number of threads, of IoT sockets and of    *)
(* calls, and any addresses, texts and hosts.                              *)
(*                                                                         *)
(* The TCP socket: what the id, the IoT sockets and the calls under way    *)
(* say of each other while calls and closes cross, step by step.           *)
(*                                                                         *)
(* The TLS wrapper, over any transport: while a call is under way, and     *)
(* from a completed handshake to the close, the pointer is set.            *)
(*                                                                         *)
(* Addresses and datagrams: the loops of the conversions are followed pass *)
(* by pass (LoopRule), so that the text of an address is the one of RFC    *)
(* 5952 and reads back as the address; then an address object keeps such a *)
(* text or none.                                                           *)
(***************************************************************************)
EXTENDS TcpSocket, TlsSocket, DatagramSocket,
        WellFoundedInduction, SequenceTheorems, FiniteSetTheorems, TLAPS

-----------------------------------------------------------------------------
(* The TCP socket: types.                                                   *)

Owners == {"free", "object", "accepted", "other"}
Places == {"none", "test", "verify", "load", "io", "lock", "reset"}
Records == [op : Ops \cup {"none"}, arg : Families \cup {"none"}, at : Places,
            id : Id \cup {Invalid}]
Histories == [crossed : BOOLEAN, misdirected : BOOLEAN, unclosed : BOOLEAN]
CallsTyped == call \in [Thread -> Records] /\ tcpcalls \in [Thread -> 0..MaxTcpCalls]
SocketsTypedOK ==
    /\ _socket_opened \in BOOLEAN
    /\ _socket_id \in Id \cup {Invalid}
    /\ _iot_socket_af_type \in Families \cup {"none"}
    /\ _socket_lock \in Thread \cup {Nobody}
    /\ connections \subseteq Id
    /\ iot \in [Id -> Owners]

LEMMA TypeParts == TcpTypeOK <=> SocketsTypedOK /\ CallsTyped /\ history \in Histories
BY DEF TcpTypeOK, SocketsTypedOK, CallsTyped, Histories, Records, Owners, Places

\* A free id is an id.
LEMMA FreshFree == ASSUME NEW i \in Fresh PROVE i \in Id /\ iot[i] = "free"
<1> DEFINE free == {j \in Id : iot[j] = "free"}
<1>1. free # {} /\ i = CHOOSE j \in free : TRUE
  BY DEF Fresh
<1>2. i \in free
  BY <1>1
<1> QED
  BY <1>2

\* What a step does with the calls: one thread's goes on, ends, loads or begins.
LEMMA CallGoesOn ==
  ASSUME CallsTyped, NEW t \in Thread, NEW at \in Places, GoTo(t, at)
  PROVE  /\ CallsTyped'
         /\ \A u \in Thread : call'[u] = IF u = t THEN [call[t] EXCEPT !.at = at] ELSE call[u]
BY DEF CallsTyped, GoTo, Records
LEMMA CallEnds ==
  ASSUME CallsTyped, NEW t \in Thread, Returns(t)
  PROVE  CallsTyped' /\ \A u \in Thread : call'[u] = IF u = t THEN NoCall ELSE call[u]
BY DEF CallsTyped, Returns, Records, NoCall, Places
LEMMA CallLoads ==
  ASSUME CallsTyped, SocketsTypedOK, NEW t \in Thread, Load(t)
  PROVE  /\ CallsTyped'
         /\ \A u \in Thread :
               call'[u] = IF u = t THEN [call[t] EXCEPT !.at = "io", !.id = _socket_id] ELSE call[u]
<1> DEFINE c == [call[t] EXCEPT !.at = "io", !.id = _socket_id]
<1>1. c \in Records
  BY DEF CallsTyped, Records, SocketsTypedOK, Places
<1>2. call' = [call EXCEPT ![t] = c] /\ tcpcalls' = tcpcalls
  BY DEF Load, CallsTyped
<1> QED
  BY <1>1, <1>2 DEF CallsTyped
LEMMA CallBegins ==
  ASSUME CallsTyped, NEW t \in Thread, Invoke(t), TcpSocketAssumption
  PROVE  /\ CallsTyped'
         /\ call'[t].at \in {"test", "verify", "lock"}
         /\ call'[t].at = "verify" => call'[t].op = "option"
         /\ \A u \in Thread \ {t} : call'[u] = call[u]
<1>0. PICK op \in Ops : \E arg \in Arguments(op) :
        call' = [call EXCEPT ![t] = [NoCall EXCEPT !.op = op, !.arg = arg, !.at = Entry(op)]]
  BY DEF Invoke
<1>1. PICK arg \in Arguments(op) :
        call' = [call EXCEPT ![t] = [NoCall EXCEPT !.op = op, !.arg = arg, !.at = Entry(op)]]
  BY <1>0
<1>2. arg \in Families \cup {"none"} /\ Entry(op) \in {"test", "verify", "lock"}
      /\ (Entry(op) = "verify" => op = "option")
  BY DEF Arguments, Entry, Ops
<1> DEFINE e == Entry(op)
           c == [NoCall EXCEPT !.op = op, !.arg = arg, !.at = e]
<1>3. e \in Places
  BY <1>2 DEF Places
<1>4. c \in Records /\ c.at = e /\ c.op = op
  <2> HIDE DEF e
  <2> QED
    BY <1>2, <1>3 DEF NoCall, Records
<1>5. tcpcalls' \in [Thread -> 0..MaxTcpCalls]
  BY DEF Invoke, CallsTyped, TcpSocketAssumption
<1>6. call' = [call EXCEPT ![t] = c]
  BY <1>1
<1> HIDE DEF c
<1>7. call' \in [Thread -> Records] /\ call'[t] = c /\ \A u \in Thread \ {t} : call'[u] = call[u]
  BY <1>4, <1>6 DEF CallsTyped
<1> QED
  BY <1>2, <1>4, <1>5, <1>7 DEF CallsTyped

-----------------------------------------------------------------------------
(* Whose the IoT sockets are, and who holds the lock.                       *)

Resetting(t) == At(t, "close", "reset")
LockHeld == \A t \in Thread : _socket_lock = t <=> Resetting(t) \/ Hangs(t)
ObjectOwns ==
    /\ _socket_id # Invalid => iot[_socket_id] = "object" \/ \E t \in Thread : Resetting(t)
    /\ (\E t \in Thread : Resetting(t)) => \A i \in Id : iot[i] # "object"
ConnectionsOwn == \A i \in connections : iot[i] = "accepted"

\* As long as no close has crossed a call, an id that has been read is the one of
\* the object's socket.
IdsFresh ==
    ~history.crossed =>
        \A t \in Thread : call[t].at = "io" /\ call[t].id # Invalid => iot[call[t].id] = "object"
TcpInv ==
    /\ SocketsTypedOK /\ CallsTyped /\ history \in Histories
    /\ LockHeld /\ ObjectOwns /\ ConnectionsOwn /\ NoIotSocketLeaked
    /\ IdsFresh /\ StaleOnlyIfCrossed

LEMMA TcpInitial == TcpInit => TcpInv
<1> SUFFICES ASSUME TcpInit PROVE TcpInv
  OBVIOUS
<1> USE TcpSocketAssumption DEF TcpInit
<1>1. SocketsTypedOK /\ history \in Histories
  BY DEF SocketsTypedOK, Histories, NoHistory, Owners
<1>2. CallsTyped
  BY DEF CallsTyped, Records, NoCall, Places
<1>3. LockHeld
  BY DEF LockHeld, Resetting, Hangs, At, NoCall
<1>4. ObjectOwns /\ ConnectionsOwn /\ NoIotSocketLeaked
  BY DEF ObjectOwns, ConnectionsOwn, NoIotSocketLeaked, Resetting, At, NoCall
<1>5. IdsFresh /\ StaleOnlyIfCrossed
  BY DEF IdsFresh, StaleOnlyIfCrossed, NoCall, NoHistory
<1> QED
  BY <1>1, <1>2, <1>3, <1>4, <1>5 DEF TcpInv

LEMMA TcpKeeps == TcpInv /\ [TcpNext]_tcpvars => TcpInv'
<1> SUFFICES ASSUME TcpInv, [TcpNext]_tcpvars PROVE TcpInv'
  OBVIOUS
<1> USE TcpSocketAssumption DEF object
<1>a. /\ SocketsTypedOK /\ CallsTyped /\ history \in Histories
      /\ LockHeld /\ ObjectOwns /\ ConnectionsOwn /\ NoIotSocketLeaked
      /\ IdsFresh /\ StaleOnlyIfCrossed
  BY DEF TcpInv
<1> USE <1>a
<1>1. ASSUME NEW t \in Thread, Invoke(t) PROVE TcpInv'
  <2>1. /\ CallsTyped' /\ call[t] = NoCall
        /\ call'[t].at \in {"test", "verify", "lock"}
        /\ call'[t].at = "verify" => call'[t].op = "option"
        /\ \A u \in Thread \ {t} : call'[u] = call[u]
    BY <1>1, CallBegins DEF Invoke
  <2>2. UNCHANGED <<_socket_opened, _socket_id, _iot_socket_af_type, _socket_lock, connections,
                    iot, history>>
    BY <1>1 DEF Invoke
  <2>3. \A u \in Thread : /\ Resetting(u)' <=> Resetting(u)
                          /\ Hangs(u)' <=> Hangs(u)
                          /\ call'[u].at = "io" => call'[u] = call[u]
    BY <2>1 DEF Resetting, Hangs, At, NoCall
  <2>4. SocketsTypedOK' /\ history' \in Histories
    BY <2>2 DEF SocketsTypedOK
  <2>5. LockHeld' /\ ObjectOwns' /\ ConnectionsOwn' /\ NoIotSocketLeaked'
    BY <2>2, <2>3 DEF LockHeld, ObjectOwns, ConnectionsOwn, NoIotSocketLeaked
  <2>6. IdsFresh' /\ StaleOnlyIfCrossed'
    BY <2>2, <2>3 DEF IdsFresh, StaleOnlyIfCrossed
  <2> QED
    BY <2>1, <2>4, <2>5, <2>6 DEF TcpInv
<1>2. ASSUME NEW t \in Thread, open(t) PROVE TcpInv'
  <2>1. /\ CallsTyped' /\ call[t].at = "lock" /\ call[t].op = "open"
        /\ \A u \in Thread : call'[u] = IF u = t THEN NoCall ELSE call[u]
    BY <1>2, CallEnds DEF open, At
  <2>2. UNCHANGED <<_socket_id, _socket_lock, connections, iot, history>>
    BY <1>2 DEF open
  <2>3. \A u \in Thread : /\ Resetting(u)' <=> Resetting(u)
                          /\ Hangs(u)' <=> Hangs(u)
                          /\ call'[u].at = "io" => call'[u] = call[u]
    BY <2>1 DEF Resetting, Hangs, At, NoCall
  <2>4. SocketsTypedOK' /\ history' \in Histories
    <3>1. call[t].arg \in Families \cup {"none"}
      BY DEF CallsTyped, Records
    <3> QED
      BY <1>2, <2>2, <3>1 DEF open, SocketsTypedOK
  <2>5. LockHeld' /\ ObjectOwns' /\ ConnectionsOwn' /\ NoIotSocketLeaked'
    BY <2>2, <2>3 DEF LockHeld, ObjectOwns, ConnectionsOwn, NoIotSocketLeaked
  <2>6. IdsFresh' /\ StaleOnlyIfCrossed'
    BY <2>2, <2>3 DEF IdsFresh, StaleOnlyIfCrossed
  <2> QED
    BY <2>1, <2>4, <2>5, <2>6 DEF TcpInv
<1>3. ASSUME NEW t \in Thread, close(t) PROVE TcpInv'
  <2>0. UNCHANGED <<_socket_opened, _socket_id, _iot_socket_af_type, connections>>
        /\ call[t].op = "close" /\ call[t].at = "lock"
    BY <1>3 DEF close, At
  <2>1. CASE LockFree /\ Returns(t) /\ UNCHANGED <<_socket_lock, iot, history>>
    <3>1. CallsTyped' /\ \A u \in Thread : call'[u] = IF u = t THEN NoCall ELSE call[u]
      BY <2>1, CallEnds
    <3>2. \A u \in Thread : /\ Resetting(u)' <=> Resetting(u)
                            /\ Hangs(u)' <=> Hangs(u)
                            /\ call'[u].at = "io" => call'[u] = call[u]
      BY <2>0, <3>1 DEF Resetting, Hangs, At, NoCall
    <3>3. SocketsTypedOK' /\ history' \in Histories
      BY <2>0, <2>1 DEF SocketsTypedOK
    <3>4. LockHeld' /\ ObjectOwns' /\ ConnectionsOwn' /\ NoIotSocketLeaked'
      BY <2>0, <2>1, <3>2 DEF LockHeld, ObjectOwns, ConnectionsOwn, NoIotSocketLeaked
    <3>5. IdsFresh' /\ StaleOnlyIfCrossed'
      BY <2>1, <3>2 DEF IdsFresh, StaleOnlyIfCrossed
    <3> QED
      BY <3>1, <3>3, <3>4, <3>5 DEF TcpInv
  <2>2. CASE /\ _socket_id # Invalid /\ Locks(t)
             /\ iot' = [iot EXCEPT ![_socket_id] = "free"]
             /\ Mark("crossed", Crosses) /\ GoTo(t, "reset")
    <3>1. /\ CallsTyped'
          /\ \A u \in Thread : call'[u] = IF u = t THEN [call[t] EXCEPT !.at = "reset"] ELSE call[u]
      BY <2>2, CallGoesOn DEF Places
    <3>2. /\ Resetting(t)' /\ ~Hangs(t)' /\ call'[t].at # "io"
          /\ \A u \in Thread \ {t} : call'[u] = call[u]
      <4>1. call'[t].op = "close" /\ call'[t].at = "reset"
        BY <2>0, <3>1 DEF CallsTyped, Records
      <4> QED
        BY <3>1, <4>1 DEF Resetting, Hangs, At
    <3>3. /\ _socket_id \in Id /\ _socket_lock' = t /\ _socket_lock = Nobody
          /\ \A i \in Id : iot'[i] = IF i = _socket_id THEN "free" ELSE iot[i]
      BY <2>2 DEF Locks, LockFree, SocketsTypedOK
    <3>4. \A u \in Thread : ~Resetting(u) /\ ~Hangs(u)
      BY <3>3 DEF LockHeld
    <3>5. SocketsTypedOK'
      BY <2>0, <2>2, <3>3 DEF SocketsTypedOK, Owners
    <3>6. /\ history' \in Histories
          /\ history'.crossed = (history.crossed \/ Crosses)
          /\ history'.misdirected = history.misdirected /\ history'.unclosed = history.unclosed
      <4>1. Crosses \in BOOLEAN
        BY DEF Crosses
      <4> HIDE DEF Crosses
      <4> QED
        BY <2>2, <4>1 DEF Mark, Histories
    <3>7. LockHeld'
      <4>1. \A u \in Thread \ {t} : ~Resetting(u)' /\ ~Hangs(u)'
        BY <3>2, <3>4 DEF Resetting, Hangs, At
      <4> QED
        BY <3>2, <3>3, <4>1 DEF LockHeld
    <3>8. \A i \in Id : iot'[i] # "object"
      BY <3>3 DEF NoIotSocketLeaked
    <3>9. iot[_socket_id] = "object"
      BY <2>2, <3>4 DEF ObjectOwns
    <3>10. ObjectOwns' /\ ConnectionsOwn' /\ NoIotSocketLeaked'
      BY <2>0, <3>2, <3>3, <3>6, <3>8, <3>9
         DEF ObjectOwns, ConnectionsOwn, NoIotSocketLeaked, SocketsTypedOK
    <3>11. IdsFresh' /\ StaleOnlyIfCrossed'
      <4>1. ASSUME ~history'.crossed, NEW u \in Thread, call'[u].at = "io", call'[u].id # Invalid
            PROVE  FALSE
        <5>1. ~history.crossed /\ ~Crosses
          BY <3>6, <4>1 DEF Histories
        <5>2. u # t /\ call[u] = call'[u]
          BY <3>2, <4>1
        <5>3. call[u].id # _socket_id
          BY <4>1, <5>1, <5>2 DEF Crosses
        <5>4. call[u].id \in Id /\ iot[call[u].id] = "object"
          BY <4>1, <5>1, <5>2 DEF IdsFresh, CallsTyped, Records
        <5> QED
          BY <5>3, <5>4 DEF NoIotSocketLeaked
      <4> QED
        BY <3>6, <4>1 DEF IdsFresh, StaleOnlyIfCrossed, Histories
    <3> QED
      BY <3>1, <3>5, <3>6, <3>7, <3>10, <3>11 DEF TcpInv
  <2> QED
    BY <1>3, <2>1, <2>2 DEF close
<1>4. ASSUME NEW t \in Thread, close_reset(t) PROVE TcpInv'
  <2>1. CallsTyped' /\ \A u \in Thread : call'[u] = IF u = t THEN NoCall ELSE call[u]
    BY <1>4, CallEnds DEF close_reset
  <2>2. /\ Resetting(t) /\ _socket_lock = t /\ _socket_lock' = Nobody
        /\ _socket_opened' = FALSE /\ _socket_id' = Invalid /\ _iot_socket_af_type' = "none"
        /\ UNCHANGED <<connections, iot, history>>
    BY <1>4 DEF close_reset, Resetting, Unlocks, ForgetId
  <2>3. \A u \in Thread : /\ ~Resetting(u)' /\ ~Hangs(u)'
                          /\ call'[u].at = "io" => call'[u] = call[u]
    <3>1. \A u \in Thread \ {t} : ~Resetting(u) /\ ~Hangs(u)
      BY <2>2 DEF LockHeld
    <3> QED
      BY <2>1, <3>1 DEF Resetting, Hangs, At, NoCall
  <2>4. SocketsTypedOK' /\ history' \in Histories
    BY <2>2 DEF SocketsTypedOK
  <2>5. \A i \in Id : iot[i] # "object"
    BY <2>2 DEF ObjectOwns
  <2>6. LockHeld' /\ ObjectOwns' /\ ConnectionsOwn' /\ NoIotSocketLeaked'
    BY <2>2, <2>3, <2>5 DEF LockHeld, ObjectOwns, ConnectionsOwn, NoIotSocketLeaked
  <2>7. IdsFresh' /\ StaleOnlyIfCrossed'
    BY <2>2, <2>3 DEF IdsFresh, StaleOnlyIfCrossed
  <2> QED
    BY <2>1, <2>4, <2>6, <2>7 DEF TcpInv
<1>5. ASSUME NEW t \in Thread, Test(t) PROVE TcpInv'
  <2>1. /\ CallsTyped' /\ call[t].at = "test"
        /\ \A u \in Thread \ {t} : call'[u] = call[u]
        /\ \/ call'[t] = NoCall \/ call'[t] = [call[t] EXCEPT !.at = "load"]
           \/ call[t].op \in {"bind", "connect"} /\ call'[t] = [call[t] EXCEPT !.at = "verify"]
    <3>1. CASE Returns(t)
      BY <1>5, <3>1, CallEnds DEF Test
    <3>2. CASE GoTo(t, "load")
      <4>1. "load" \in Places /\ call[t].at = "test"
        BY <1>5 DEF Test, Places
      <4>2. /\ CallsTyped'
            /\ \A u \in Thread :
                  call'[u] = IF u = t THEN [call[t] EXCEPT !.at = "load"] ELSE call[u]
        BY <3>2, <4>1, CallGoesOn
      <4> QED
        BY <1>5, <3>2, <4>1, <4>2
    <3>3. CASE call[t].op \in {"bind", "connect"} /\ GoTo(t, "verify")
      <4>1. "verify" \in Places /\ call[t].at = "test"
        BY <1>5 DEF Test, Places
      <4>2. /\ CallsTyped'
            /\ \A u \in Thread :
                  call'[u] = IF u = t THEN [call[t] EXCEPT !.at = "verify"] ELSE call[u]
        BY <3>3, <4>1, CallGoesOn
      <4> QED
        BY <1>5, <3>3, <4>1, <4>2
    <3> QED
      BY <1>5, <3>1, <3>2, <3>3 DEF Test
  <2>2. UNCHANGED <<_socket_opened, _socket_id, _iot_socket_af_type, _socket_lock, connections,
                    iot, history>>
    BY <1>5 DEF Test
  <2>3. \A u \in Thread : /\ Resetting(u)' <=> Resetting(u)
                          /\ Hangs(u)' <=> Hangs(u)
                          /\ call'[u].at = "io" => call'[u] = call[u]
    BY <2>1 DEF Resetting, Hangs, At, NoCall, CallsTyped, Records
  <2>4. SocketsTypedOK' /\ history' \in Histories
    BY <2>2 DEF SocketsTypedOK
  <2>5. LockHeld' /\ ObjectOwns' /\ ConnectionsOwn' /\ NoIotSocketLeaked'
    BY <2>2, <2>3 DEF LockHeld, ObjectOwns, ConnectionsOwn, NoIotSocketLeaked
  <2>6. IdsFresh' /\ StaleOnlyIfCrossed'
    BY <2>2, <2>3 DEF IdsFresh, StaleOnlyIfCrossed
  <2> QED
    BY <2>1, <2>4, <2>5, <2>6 DEF TcpInv
<1>6. ASSUME NEW t \in Thread, Verify(t) PROVE TcpInv'
  <2>1. /\ CallsTyped' /\ call[t].at = "verify" /\ call[t].op \in {"bind", "connect", "option"}
        /\ \A u \in Thread \ {t} : call'[u] = call[u]
        /\ call'[t] = NoCall \/ call'[t] = [call[t] EXCEPT !.at = "load"]
    <3>1. CASE Returns(t)
      BY <1>6, <3>1, CallEnds DEF Verify
    <3>2. CASE GoTo(t, "load")
      <4>1. "load" \in Places /\ call[t].at = "verify"
        BY <1>6 DEF Verify, Places
      <4>2. /\ CallsTyped'
            /\ \A u \in Thread :
                  call'[u] = IF u = t THEN [call[t] EXCEPT !.at = "load"] ELSE call[u]
        BY <3>2, <4>1, CallGoesOn
      <4> QED
        BY <1>6, <3>2, <4>1, <4>2 DEF Verify
    <3> QED
      BY <1>6, <3>1, <3>2 DEF Verify
  <2>2. /\ UNCHANGED <<_socket_opened, _socket_lock, connections, history>>
        /\ _socket_lock = Nobody
    BY <1>6 DEF Verify, LockFree
  <2>3. \A u \in Thread : /\ ~Resetting(u) /\ ~Hangs(u) /\ ~Resetting(u)' /\ ~Hangs(u)'
                          /\ call'[u].at = "io" => call'[u] = call[u]
    <3>1. \A u \in Thread : ~Resetting(u) /\ ~Hangs(u)
      BY <2>2 DEF LockHeld
    <3> QED
      BY <2>1, <3>1 DEF Resetting, Hangs, At, NoCall, CallsTyped, Records
  <2>4. LockHeld'
    BY <2>2, <2>3 DEF LockHeld
  <2>5. call[t].arg \in Families \cup {"none"}
    BY DEF CallsTyped, Records
  <2> DEFINE f == call[t].arg
  <2>6. CASE UNCHANGED <<_socket_id, iot>> /\ _iot_socket_af_type' \in Families \cup {"none"}
    <3>1. SocketsTypedOK' /\ history' \in Histories
      BY <2>2, <2>6 DEF SocketsTypedOK
    <3>2. ObjectOwns' /\ ConnectionsOwn' /\ NoIotSocketLeaked'
      BY <2>2, <2>3, <2>6 DEF ObjectOwns, ConnectionsOwn, NoIotSocketLeaked
    <3>3. IdsFresh' /\ StaleOnlyIfCrossed'
      BY <2>2, <2>3, <2>6 DEF IdsFresh, StaleOnlyIfCrossed
    <3> QED
      BY <2>1, <2>4, <3>1, <3>2, <3>3 DEF TcpInv
  <2>7. CASE Created(f)
    <3>1. PICK i \in Fresh : iot' = [iot EXCEPT ![i] = "object"] /\ _socket_id' = i
      BY <2>7 DEF Created
    <3>2. /\ i \in Id /\ iot[i] = "free" /\ _socket_id = Invalid
          /\ \A j \in Id : iot'[j] = IF j = i THEN "object" ELSE iot[j]
      BY <2>7, <3>1, FreshFree DEF Created, SocketsTypedOK
    <3>3. _iot_socket_af_type' \in Families \cup {"none"}
      BY <2>5, <2>7 DEF Created, Wanted, SocketsTypedOK, Families
    <3>4. SocketsTypedOK' /\ history' \in Histories
      BY <2>2, <3>1, <3>2, <3>3 DEF SocketsTypedOK, Owners
    <3>5. ObjectOwns' /\ ConnectionsOwn' /\ NoIotSocketLeaked'
      BY <2>2, <2>3, <3>1, <3>2
         DEF ObjectOwns, ConnectionsOwn, NoIotSocketLeaked, SocketsTypedOK
    <3>6. IdsFresh' /\ StaleOnlyIfCrossed'
      BY <2>2, <2>3, <3>2 DEF IdsFresh, StaleOnlyIfCrossed, CallsTyped, Records
    <3> QED
      BY <2>1, <2>4, <3>4, <3>5, <3>6 DEF TcpInv
  <2> QED
    <3>1. Verified(f) \/ Refused(f) =>
              UNCHANGED <<_socket_id, iot>> /\ _iot_socket_af_type' \in Families \cup {"none"}
      BY <2>5 DEF Verified, Refused, Wanted, SocketsTypedOK, Families
    <3> QED
      BY <1>6, <2>6, <2>7, <3>1 DEF Verify
<1>7. ASSUME NEW t \in Thread, Load(t) PROVE TcpInv'
  <2>1. /\ CallsTyped' /\ call[t].at = "load"
        /\ \A u \in Thread :
              call'[u] = IF u = t THEN [call[t] EXCEPT !.at = "io", !.id = _socket_id] ELSE call[u]
    BY <1>7, CallLoads DEF Load
  <2>2. UNCHANGED <<_socket_opened, _socket_id, _iot_socket_af_type, _socket_lock, connections, iot>>
    BY <1>7 DEF Load
  <2>3. call'[t].at = "io" /\ call'[t].id = _socket_id
    BY <2>1 DEF CallsTyped, Records
  <2>4. \A u \in Thread : (Resetting(u)' <=> Resetting(u)) /\ (Hangs(u)' <=> Hangs(u))
    BY <2>1, <2>3 DEF Resetting, Hangs, At
  <2> DEFINE crosses == \E u \in Thread : Resetting(u)
  <2>5. /\ history' \in Histories
        /\ history'.crossed = (history.crossed \/ crosses)
        /\ history'.misdirected = history.misdirected /\ history'.unclosed = history.unclosed
    <3>1. Mark("crossed", crosses)
      BY <1>7 DEF Load, Resetting
    <3>2. crosses \in BOOLEAN
      OBVIOUS
    <3> HIDE DEF crosses
    <3> QED
      BY <3>1, <3>2 DEF Mark, Histories
  <2>6. SocketsTypedOK'
    BY <2>2 DEF SocketsTypedOK
  <2>7. LockHeld' /\ ObjectOwns' /\ ConnectionsOwn' /\ NoIotSocketLeaked'
    BY <2>2, <2>4, <2>5 DEF LockHeld, ObjectOwns, ConnectionsOwn, NoIotSocketLeaked
  <2>8. IdsFresh' /\ StaleOnlyIfCrossed'
    <3>1. ASSUME ~history'.crossed, NEW u \in Thread, call'[u].at = "io", call'[u].id # Invalid
          PROVE  iot[call'[u].id] = "object"
      <4>1. ~history.crossed /\ ~crosses
        BY <2>5, <3>1 DEF Histories
      <4>2. CASE u = t
        BY <2>3, <3>1, <4>1, <4>2 DEF ObjectOwns
      <4>3. CASE u # t
        BY <2>1, <3>1, <4>1, <4>3 DEF IdsFresh
      <4> QED
        BY <4>2, <4>3
    <3> QED
      BY <2>2, <2>5, <3>1 DEF IdsFresh, StaleOnlyIfCrossed, Histories
  <2> QED
    BY <2>1, <2>5, <2>6, <2>7, <2>8 DEF TcpInv
<1>8. ASSUME NEW t \in Thread, Io(t) PROVE TcpInv'
  <2>1. /\ CallsTyped' /\ call[t].at = "io"
        /\ \A u \in Thread : call'[u] = IF u = t THEN NoCall ELSE call[u]
    BY <1>8, CallEnds DEF Io
  <2>2. UNCHANGED <<_socket_opened, _socket_id, _iot_socket_af_type, _socket_lock, connections, iot>>
    BY <1>8 DEF Io
  <2>3. \A u \in Thread : /\ Resetting(u)' <=> Resetting(u)
                          /\ Hangs(u)' <=> Hangs(u)
                          /\ call'[u].at = "io" => call'[u] = call[u]
    BY <2>1 DEF Resetting, Hangs, At, NoCall
  <2>4. /\ history' \in Histories
        /\ history'.misdirected = (history.misdirected \/ Misdirected(call[t].id))
        /\ history'.crossed = history.crossed /\ history'.unclosed = history.unclosed
    <3>1. Misdirected(call[t].id) \in BOOLEAN
      BY DEF Misdirected, Live
    <3> HIDE DEF Misdirected
    <3> QED
      BY <1>8, <3>1 DEF Io, Mark, Histories
  <2>5. SocketsTypedOK'
    BY <2>2 DEF SocketsTypedOK
  <2>6. LockHeld' /\ ObjectOwns' /\ ConnectionsOwn' /\ NoIotSocketLeaked'
    BY <2>2, <2>3, <2>4 DEF LockHeld, ObjectOwns, ConnectionsOwn, NoIotSocketLeaked
  <2>7. IdsFresh' /\ StaleOnlyIfCrossed'
    <3>1. Misdirected(call[t].id) => history.crossed
      BY <2>1 DEF Misdirected, Live, IdsFresh
    <3> QED
      BY <2>2, <2>3, <2>4, <3>1 DEF IdsFresh, StaleOnlyIfCrossed
  <2> QED
    BY <2>1, <2>4, <2>5, <2>6, <2>7 DEF TcpInv
<1>9. ASSUME NEW t \in Thread, accept(t) PROVE TcpInv'
  <2>1. /\ CallsTyped' /\ call[t].at = "io"
        /\ \A u \in Thread : call'[u] = IF u = t THEN NoCall ELSE call[u]
    BY <1>9, CallEnds DEF accept, At
  <2>2. UNCHANGED <<_socket_opened, _socket_id, _iot_socket_af_type, _socket_lock>>
    BY <1>9 DEF accept
  <2>3. \A u \in Thread : /\ Resetting(u)' <=> Resetting(u)
                          /\ Hangs(u)' <=> Hangs(u)
                          /\ call'[u].at = "io" => call'[u] = call[u]
    BY <2>1 DEF Resetting, Hangs, At, NoCall
  <2>4. PICK unclosed \in BOOLEAN :
          /\ \/ ~unclosed /\ UNCHANGED <<iot, connections>>
             \/ ~unclosed /\ \E i \in Fresh : Accepted(i)
             \/ (\E i \in Fresh : NoMemory(i, ~unclosed)) /\ UNCHANGED connections
          /\ history' = [history EXCEPT !.misdirected = @ \/ Misdirected(call[t].id),
                                        !.unclosed = @ \/ unclosed]
    BY <1>9 DEF accept
  <2>5. /\ history' \in Histories
        /\ history'.misdirected = (history.misdirected \/ Misdirected(call[t].id))
        /\ history'.crossed = history.crossed
        /\ history'.unclosed = (history.unclosed \/ unclosed)
    <3>1. Misdirected(call[t].id) \in BOOLEAN
      BY DEF Misdirected, Live
    <3> HIDE DEF Misdirected
    <3> QED
      BY <2>4, <3>1 DEF Histories
  <2>6. \/ ~unclosed /\ UNCHANGED <<iot, connections>>
        \/ unclosed /\ UNCHANGED <<iot, connections>>
        \/ \E i \in Id : /\ iot[i] = "free"
                         /\ \A j \in Id : iot'[j] = IF j = i THEN "accepted" ELSE iot[j]
                         /\ iot' = [iot EXCEPT ![i] = "accepted"]
                         /\ \/ connections' = connections \cup {i}
                            \/ connections' = connections /\ unclosed
    BY <2>4, FreshFree DEF Accepted, NoMemory, SocketsTypedOK
  <2>7. SocketsTypedOK' /\ ConnectionsOwn'
    BY <2>2, <2>6 DEF SocketsTypedOK, Owners, ConnectionsOwn
  <2>8. \A i \in Id : iot'[i] = "object" <=> iot[i] = "object"
    BY <2>6
  <2>9. LockHeld' /\ ObjectOwns'
    BY <2>2, <2>3, <2>8 DEF LockHeld, ObjectOwns, SocketsTypedOK
  <2>10. NoIotSocketLeaked'
    BY <2>2, <2>5, <2>6 DEF NoIotSocketLeaked, Histories
  <2>11. IdsFresh' /\ StaleOnlyIfCrossed'
    <3>1. Misdirected(call[t].id) => history.crossed
      BY <2>1 DEF Misdirected, Live, IdsFresh
    <3> QED
      <4>1. \A u \in Thread : call[u].id # Invalid => call[u].id \in Id
        BY DEF CallsTyped, Records
      <4> HIDE DEF Misdirected
      <4>2. IdsFresh'
        BY <2>3, <2>5, <2>8, <4>1 DEF IdsFresh
      <4> QED
        BY <2>5, <3>1, <4>2 DEF StaleOnlyIfCrossed
  <2> QED
    BY <2>1, <2>5, <2>7, <2>9, <2>10, <2>11 DEF TcpInv
<1>10. ASSUME NEW t \in Thread, set_timeout(t) PROVE TcpInv'
  <2>1. /\ CallsTyped' /\ call[t].op = "set_timeout" /\ call[t].at = "lock"
        /\ \A u \in Thread : call'[u] = IF u = t THEN [call[t] EXCEPT !.at = "verify"] ELSE call[u]
    BY <1>10, CallGoesOn DEF set_timeout, At, Places
  <2>2. /\ _socket_lock = Nobody /\ _socket_lock' = t /\ _socket_opened' = TRUE
        /\ UNCHANGED <<_socket_id, _iot_socket_af_type, connections, iot, history>>
    BY <1>10 DEF set_timeout, Locks, LockFree
  <2>3. call'[t].op = "set_timeout" /\ call'[t].at = "verify"
    BY <2>1 DEF CallsTyped, Records
  <2>4. \A u \in Thread : /\ ~Resetting(u) /\ ~Hangs(u) /\ ~Resetting(u)'
                          /\ Hangs(u)' <=> u = t
                          /\ call'[u].at = "io" => call'[u] = call[u]
    <3>1. \A u \in Thread : ~Resetting(u) /\ ~Hangs(u)
      BY <2>2 DEF LockHeld
    <3> QED
      BY <2>1, <2>3, <3>1 DEF Resetting, Hangs, At
  <2>5. SocketsTypedOK' /\ history' \in Histories
    BY <2>2 DEF SocketsTypedOK
  <2>6. LockHeld' /\ ObjectOwns' /\ ConnectionsOwn' /\ NoIotSocketLeaked'
    BY <2>2, <2>4 DEF LockHeld, ObjectOwns, ConnectionsOwn, NoIotSocketLeaked
  <2>7. IdsFresh' /\ StaleOnlyIfCrossed'
    BY <2>2, <2>4 DEF IdsFresh, StaleOnlyIfCrossed
  <2> QED
    BY <2>1, <2>5, <2>6, <2>7 DEF TcpInv
<1>11. ASSUME NEW i \in Id, close_accepted(i) PROVE TcpInv'
  <2>1. /\ UNCHANGED <<_socket_opened, _socket_id, _iot_socket_af_type, _socket_lock, call, tcpcalls>>
        /\ i \in connections /\ connections' = connections \ {i} /\ iot[i] = "accepted"
    BY <1>11 DEF close_accepted, ConnectionsOwn
  <2>2. /\ \/ history' = history /\ iot' = [iot EXCEPT ![i] = "free"]
           \/ history'.unclosed /\ iot' = iot
        /\ history' \in Histories
        /\ history'.misdirected = history.misdirected /\ history'.crossed = history.crossed
    BY <1>11 DEF close_accepted, Mark, Histories
  <2>3. /\ \A j \in Id : iot'[j] = "object" <=> iot[j] = "object"
        /\ \A j \in Id \ {i} : iot'[j] = iot[j]
    BY <2>1, <2>2 DEF SocketsTypedOK
  <2>4. SocketsTypedOK' /\ CallsTyped' /\ ConnectionsOwn'
    BY <2>1, <2>2, <2>3 DEF SocketsTypedOK, CallsTyped, ConnectionsOwn, Owners
  <2>5. LockHeld' /\ ObjectOwns'
    BY <2>1, <2>3 DEF LockHeld, ObjectOwns, Resetting, Hangs, At, SocketsTypedOK
  <2>6. NoIotSocketLeaked'
    BY <2>1, <2>2, <2>3 DEF NoIotSocketLeaked, SocketsTypedOK
  <2>7. IdsFresh' /\ StaleOnlyIfCrossed'
    BY <2>1, <2>2, <2>3 DEF IdsFresh, StaleOnlyIfCrossed, CallsTyped, Records
  <2> QED
    BY <2>2, <2>4, <2>5, <2>6, <2>7 DEF TcpInv
<1>12. ASSUME NEW i \in Id, ForeignOpen(i) \/ ForeignClose(i) PROVE TcpInv'
  <2>1. /\ UNCHANGED <<_socket_opened, _socket_id, _iot_socket_af_type, _socket_lock, connections,
                       call, tcpcalls, history>>
        /\ iot[i] \in {"free", "other"} /\ iot'[i] \in {"free", "other"}
        /\ iot' \in [Id -> Owners] /\ \A j \in Id \ {i} : iot'[j] = iot[j]
    BY <1>12, FreshFree DEF ForeignOpen, ForeignClose, SocketsTypedOK, Owners
  <2>2. \A j \in Id : /\ iot'[j] = "object" <=> iot[j] = "object"
                      /\ iot'[j] = "accepted" <=> iot[j] = "accepted"
    BY <2>1
  <2>3. SocketsTypedOK' /\ CallsTyped' /\ ConnectionsOwn' /\ history' \in Histories
    BY <2>1, <2>2 DEF SocketsTypedOK, CallsTyped, ConnectionsOwn
  <2>4. LockHeld' /\ ObjectOwns' /\ NoIotSocketLeaked'
    BY <2>1, <2>2
       DEF LockHeld, ObjectOwns, NoIotSocketLeaked, Resetting, Hangs, At, SocketsTypedOK
  <2>5. IdsFresh' /\ StaleOnlyIfCrossed'
    BY <2>1, <2>2 DEF IdsFresh, StaleOnlyIfCrossed, CallsTyped, Records
  <2> QED
    BY <2>3, <2>4, <2>5 DEF TcpInv
<1>13. CASE UNCHANGED tcpvars
  BY <1>13 DEF tcpvars, TcpInv, SocketsTypedOK, CallsTyped, LockHeld, ObjectOwns, ConnectionsOwn,
               NoIotSocketLeaked, IdsFresh, StaleOnlyIfCrossed, Resetting, Hangs, At
<1> QED
  BY <1>1, <1>2, <1>3, <1>4, <1>5, <1>6, <1>7, <1>8, <1>9, <1>10, <1>11, <1>12, <1>13
     DEF TcpNext, TcpEnv, TcpStep

\* Ids, IoT sockets, the lock and the calls under way agree in every reachable
\* state, whatever threads call (TCPSocket.cpp, InternetSocket.cpp).
THEOREM SocketSafe == TcpSpec => []TcpInv
BY TcpInitial, TcpKeeps, PTL DEF TcpSpec

\* The TCP socket's variables have their types in every reachable state.
THEOREM SocketsTyped == TcpSpec => []TcpTypeOK
<1>1. TcpInv => TcpTypeOK
  BY TypeParts DEF TcpInv
<1> QED
  BY <1>1, SocketSafe, PTL

\* An IoT socket has exactly one user, however the calls and closes of any number
\* of threads cross (InternetSocket.cpp:50-71, TCPSocket.cpp:38-176).
THEOREM SocketsOwned == TcpSpec => []IotSocketsOwned
<1>1. TcpInv => IotSocketsOwned
  BY DEF TcpInv, IotSocketsOwned
<1> QED
  BY <1>1, SocketSafe, PTL

-----------------------------------------------------------------------------
(* The TLS wrapper.                                                         *)

\* The pointer is set during a call and from a handshake's start to its end; once
\* the wrapper has crashed nothing goes on.
Under == doing # NoTls
TlsInv ==
    /\ TlsTypeOK
    /\ Under \/ _handshake_completed => _transport
    /\ _handshake_completed => _tls_initialized
    /\ crashed => ~Under /\ ~_tls_initialized

\* Every step keeps it: set_timeout and getpeername are the two calls that use the
\* pointer without testing it, and the second does so only after a handshake.
LEMMA TlsKeeps == TlsInv /\ [TlsNext]_tlsvars => TlsInv'
<1> SUFFICES ASSUME TlsInv, [TlsNext]_tlsvars PROVE TlsInv'
  OBVIOUS
<1> USE DEF TlsInv, TlsTypeOK, Under, control, NoTls, TlsOps
<1>1. CASE connect
  BY <1>1 DEF connect, Begins, Done, Then
<1>2. CASE start_handshake
  <2>1. Under /\ _transport /\ ~crashed /\ _transport' = _transport
        /\ _handshake_completed' = _handshake_completed /\ crashed' = crashed
        /\ _connect_transport' = _connect_transport /\ _close_transport' = _close_transport
    BY <1>2 DEF start_handshake, Resumes
  <2>2. doing' = NoTls \/ doing' = [op |-> "connect", then |-> "handshake"]
        \/ doing' = [op |-> "connect", then |-> "stuck"]
    BY <1>2 DEF start_handshake, Done, Then
  <2>3. _tls_initialized' = _tls_initialized \/ _tls_initialized' = TRUE
    BY <1>2 DEF start_handshake
  <2>4. _transport' \in BOOLEAN /\ _handshake_completed' \in BOOLEAN /\ crashed' \in BOOLEAN
        /\ _connect_transport' \in BOOLEAN /\ _close_transport' \in BOOLEAN
    BY <2>1, Zenon
  <2>5. _tls_initialized' \in BOOLEAN /\ (_tls_initialized => _tls_initialized')
    BY <2>3, Zenon
  <2>6. doing' \in [op : TlsOps \cup {"none"},
                  then : {"return", "start", "handshake", "transfer", "notified", "stuck"}]
    BY <2>2
  <2>7. _transport' /\ ~crashed' /\ (_handshake_completed' => _handshake_completed)
    BY <2>1, Zenon
  <2> QED
    BY <2>4, <2>5, <2>6, <2>7
<1>3. CASE send_recv
  BY <1>3 DEF send_recv, Begins, Done, Then, SetsBlocking
<1>4. CASE continue_handshake
  <2>1. Under /\ _transport /\ ~crashed /\ _transport' = _transport
        /\ _tls_initialized' = _tls_initialized /\ crashed' = crashed
        /\ _connect_transport' = _connect_transport /\ _close_transport' = _close_transport
    BY <1>4 DEF continue_handshake, Resumes
  <2>2. doing' = NoTls \/ doing' = [op |-> "transfer", then |-> "transfer"]
    BY <1>4 DEF continue_handshake, Done, Then
  <2>3. _handshake_completed' = _handshake_completed
        \/ (_handshake_completed' = TRUE /\ _tls_initialized)
    <3>1. CASE UNCHANGED _handshake_completed
      BY <3>1, Zenon
    <3>2. CASE _handshake_completed' = TRUE /\ _tls_initialized
      BY <3>2, Zenon
    <3> QED
      BY <1>4, <3>1, <3>2, Zenon DEF continue_handshake
  <2>4. _transport' \in BOOLEAN /\ _tls_initialized' \in BOOLEAN /\ crashed' \in BOOLEAN
        /\ _connect_transport' \in BOOLEAN /\ _close_transport' \in BOOLEAN
    BY <2>1, Zenon
  <2>5. _handshake_completed' \in BOOLEAN /\ (_handshake_completed' => _tls_initialized)
    <3>1. CASE _handshake_completed' = _handshake_completed
      BY <3>1, Zenon
    <3>2. CASE _handshake_completed' = TRUE /\ _tls_initialized
      BY <3>2, Zenon
    <3> QED
      BY <2>3, <3>1, <3>2
  <2>6. doing' \in [op : TlsOps \cup {"none"},
                  then : {"return", "start", "handshake", "transfer", "notified", "stuck"}]
    BY <2>2
  <2>7. _transport' /\ ~crashed' /\ (_tls_initialized => _tls_initialized')
    BY <2>1, Zenon
  <2> QED
    BY <2>4, <2>5, <2>6, <2>7
<1>5. CASE transfer
  BY <1>5 DEF transfer, Resumes, Done
<1>6. CASE close_tls
  BY <1>6 DEF close_tls, Begins, Done, Then, SetsBlocking
<1>7. CASE notified
  BY <1>7 DEF notified, Resumes, Done, ClearCompleted
<1>8. CASE getpeername \/ delegated
  BY <1>8 DEF getpeername, delegated, Uses, Begins, Done
<1>9. ASSUME NEW forever \in BOOLEAN, set_timeout_tls(forever) PROVE TlsInv'
  <2>1. ~Under /\ ~crashed /\ _transport' = _transport
        /\ _tls_initialized' = _tls_initialized /\ _handshake_completed' = _handshake_completed
        /\ _connect_transport' = _connect_transport /\ _close_transport' = _close_transport
    BY <1>9 DEF set_timeout_tls, Uses, Begins
  <2>2. \/ doing' = NoTls /\ (crashed' = crashed \/ (crashed' = TRUE /\ ~_tls_initialized))
        \/ doing' = [op |-> "set_timeout", then |-> "stuck"] /\ _transport /\ crashed' = crashed
    <3>1. CASE Done /\ UNCHANGED crashed
      BY <3>1, Zenon DEF Done
    <3>2. CASE ~is_handshake_started /\ crashed' = TRUE /\ Done
      BY <3>2 DEF Done, is_handshake_started
    <3>3. CASE _transport /\ Then("set_timeout", "stuck") /\ UNCHANGED crashed
      BY <3>3 DEF Then
    <3> QED
      BY <1>9, <3>1, <3>2, <3>3, Zenon DEF set_timeout_tls, Uses
  <2>3. _transport' \in BOOLEAN /\ _tls_initialized' \in BOOLEAN /\ _handshake_completed' \in BOOLEAN
        /\ _connect_transport' \in BOOLEAN /\ _close_transport' \in BOOLEAN
    BY <2>1, Zenon
  <2>4. crashed' \in BOOLEAN /\ (crashed' => doing' = NoTls /\ ~_tls_initialized)
    <3>1. CASE crashed' = crashed
      BY <2>1, <3>1, Zenon
    <3>2. CASE doing' = NoTls /\ crashed' = TRUE /\ ~_tls_initialized
      BY <3>2, Zenon
    <3> QED
      BY <2>2, <3>1, <3>2, Zenon
  <2>5. doing' \in [op : TlsOps \cup {"none"},
                  then : {"return", "start", "handshake", "transfer", "notified", "stuck"}]
    BY <2>2
  <2>6. (_handshake_completed' => _transport' /\ _tls_initialized')
        /\ (_tls_initialized' => _tls_initialized)
        /\ (doing' # NoTls => _transport')
    BY <2>1, <2>2, Zenon
  <2> QED
    BY <2>3, <2>4, <2>5, <2>6
<1>10. CASE UNCHANGED tlsvars
  BY <1>10 DEF tlsvars
<1> QED
  BY <1>1, <1>2, <1>3, <1>4, <1>5, <1>6, <1>7, <1>8, <1>9, <1>10 DEF TlsNext, TlsCall, TlsStep

\* The wrapper uses the transport it has given up only before any handshake, over
\* any sequence of its calls (TLSSocketWrapper.cpp:63-76, :308-671).
THEOREM PointerSafe == TlsSpec => []NullOnlyBeforeHandshake
<1>1. TlsInit => TlsInv
  <2> SUFFICES ASSUME TlsInit PROVE TlsInv
    OBVIOUS
  <2>1. TlsTypeOK
    BY DEF TlsInit, TlsTypeOK, NoTls, TlsOps
  <2>2. _transport /\ ~Under /\ ~_handshake_completed /\ ~crashed
    BY DEF TlsInit, Under
  <2> QED
    BY <2>1, <2>2 DEF TlsInv
<1>2. TlsInv => NullOnlyBeforeHandshake
  BY DEF TlsInv, NullOnlyBeforeHandshake
<1> QED
  BY <1>1, <1>2, TlsKeeps, PTL DEF TlsSpec

-----------------------------------------------------------------------------
(* Loops.                                                                   *)

\* A nonempty set of naturals has a least element.
LEMMA LeastNat ==
  ASSUME NEW S \in SUBSET Nat, S # {}
  PROVE  \E n \in S : \A m \in S : n <= m
<1> DEFINE R == OpToRel(<, Nat)
<1>1. IsWellFoundedOn(R, Nat)
  BY NatLessThanWellFounded
<1>2. \A x, y \in Nat : x < y => <<x, y>> \in R
  BY DEF OpToRel
<1> HIDE DEF R
<1>3. PICK n \in S : \A m \in S : ~(<<m, n>> \in R)
  BY <1>1, WFMin
<1>4. ASSUME NEW m \in S PROVE n <= m
  <2>1. ~(m < n)
    BY <1>2, <1>3
  <2> QED
    BY <2>1
<1> QED
  BY <1>3, <1>4

\* A set that holds 0 and the successors of its members is all of Nat.
LEMMA NatBySet ==
  ASSUME NEW S \in SUBSET Nat, 0 \in S, \A n \in S : n + 1 \in S
  PROVE  S = Nat
<1> SUFFICES ASSUME Nat \ S # {} PROVE FALSE
  OBVIOUS
<1>1. PICK n \in Nat \ S : \A m \in Nat \ S : n <= m
  BY LeastNat
<1>2. n # 0 /\ n - 1 \in Nat /\ ~(n <= n - 1) /\ (n - 1) + 1 = n
  BY <1>1
<1>3. n - 1 \in S
  BY <1>1, <1>2
<1> QED
  BY <1>1, <1>2, <1>3

\* What a loop does, pass by pass.
LEMMA PassesDef ==
  ASSUME NEW f, NEW x
  PROVE  /\ Passes(f, x, 0) = x
         /\ \A k \in Nat : Passes(f, x, k + 1) = f[Passes(f, x, k)]
<1> DEFINE F(g, j) == IF j = 0 THEN x ELSE f[g[j - 1]]
           FirstStates(g, n) == g = [j \in 0..n |-> F(g, j)]
           S == {n \in Nat : \E g : FirstStates(g, n)}
<1>1. 0 \in S
  <2> DEFINE g == [j \in 0..0 |-> x]
  <2>1. FirstStates(g, 0)
    OBVIOUS
  <2> QED
    BY <2>1
<1>2. ASSUME NEW n \in S PROVE n + 1 \in S
  <2>1. PICK g : FirstStates(g, n)
    OBVIOUS
  <2> DEFINE e == [j \in 0..n + 1 |-> IF j = n + 1 THEN f[g[n]] ELSE g[j]]
  <2>2. ASSUME NEW j \in 0..n + 1 PROVE e[j] = F(e, j)
    <3>1. CASE j = 0
      BY <2>1, <3>1
    <3>2. CASE j \in 1..n
      <4>1. j # 0 /\ j - 1 \in 0..n + 1 /\ j \in 0..n /\ j - 1 # n + 1 /\ j # n + 1
        BY <3>2
      <4>2. e[j] = g[j] /\ e[j - 1] = g[j - 1]
        BY <4>1
      <4>3. g[j] = F(g, j)
        BY <2>1, <4>1
      <4> QED
        BY <4>1, <4>2, <4>3
    <3>3. CASE j = n + 1
      <4>1. j # 0 /\ j - 1 = n /\ n \in 0..n + 1 /\ n # n + 1
        BY <3>3
      <4>2. e[j] = f[g[n]] /\ e[n] = g[n]
        BY <3>3, <4>1
      <4> QED
        BY <3>3, <4>1, <4>2
    <3> QED
      BY <3>1, <3>2, <3>3
  <2>3. FirstStates(e, n + 1)
    BY <2>2
  <2>4. n + 1 \in Nat
    OBVIOUS
  <2> HIDE DEF e, FirstStates
  <2> QED
    BY <2>3, <2>4
<1>3. S = Nat
  BY <1>1, <1>2, NatBySet
<1> DEFINE G == [n \in Nat |-> CHOOSE g : FirstStates(g, n)]
           H == [n \in Nat |-> G[n][n]]
<1>4. \A n \in Nat : FirstStates(G[n], n)
  BY <1>3
<1> HIDE DEF G
<1>5. \A n \in Nat : G[n][0] = x /\ \A j \in 1..n : G[n][j] = f[G[n][j - 1]]
  <2> SUFFICES ASSUME NEW n \in Nat
               PROVE  G[n][0] = x /\ \A j \in 1..n : G[n][j] = f[G[n][j - 1]]
    OBVIOUS
  <2> DEFINE g == G[n]
  <2>1. g = [j \in 0..n |-> F(g, j)]
    BY <1>4
  <2> HIDE DEF g
  <2>2. \A j \in 0..n : g[j] = F(g, j)
    BY <2>1
  <2>3. 0 \in 0..n /\ \A j \in 1..n : j \in 0..n /\ j # 0
    OBVIOUS
  <2>4. g[0] = x /\ \A j \in 1..n : g[j] = f[g[j - 1]]
    BY <2>2, <2>3
  <2> QED
    BY <2>4 DEF g
<1>6. ASSUME NEW n \in Nat PROVE \A j \in 0..n : G[n][j] = G[n + 1][j]
  <2> DEFINE A == {j \in Nat : j <= n => G[n][j] = G[n + 1][j]}
  <2>1. 0 \in A
    BY <1>5
  <2>2. ASSUME NEW j \in A PROVE j + 1 \in A
    <3>1. ASSUME j + 1 <= n PROVE G[n][j + 1] = G[n + 1][j + 1]
      <4>1. j + 1 \in 1..n /\ j + 1 \in 1..n + 1 /\ (j + 1) - 1 = j /\ j <= n
        BY <3>1
      <4>2. G[n][j + 1] = f[G[n][j]] /\ G[n + 1][j + 1] = f[G[n + 1][j]]
        BY <1>5, <4>1
      <4> QED
        BY <4>1, <4>2
    <3> QED
      BY <3>1
  <2> HIDE DEF A
  <2>3. A = Nat
    BY <2>1, <2>2, NatBySet DEF A
  <2> QED
    BY <2>3 DEF A
<1>7. H = [j \in Nat |-> F(H, j)]
  <2>1. ASSUME NEW j \in Nat PROVE H[j] = F(H, j)
    <3>1. CASE j = 0
      BY <1>5, <3>1
    <3>2. CASE j # 0
      <4>1. j - 1 \in Nat /\ j \in 1..j /\ (j - 1) + 1 = j /\ j - 1 \in 0..j - 1
        BY <3>2
      <4>2. G[j][j] = f[G[j][j - 1]]
        BY <1>5, <4>1
      <4>3. G[j - 1][j - 1] = G[(j - 1) + 1][j - 1]
        BY <1>6, <4>1
      <4> QED
        BY <3>2, <4>1, <4>2, <4>3
    <3> QED
      BY <3>1, <3>2
  <2> QED
    BY <2>1
<1> HIDE DEF H
<1> DEFINE after == CHOOSE g : g = [j \in Nat |-> F(g, j)]
<1>8. after = [j \in Nat |-> F(after, j)]
  BY <1>7
<1>9. \A k : Passes(f, x, k) = after[k]
  BY DEF Passes
<1> HIDE DEF after
<1>10. after[0] = x /\ \A k \in Nat : after[k + 1] = f[after[k]]
  <2>1. after[0] = x
    BY <1>8
  <2>2. ASSUME NEW k \in Nat PROVE after[k + 1] = f[after[k]]
    <3>1. k + 1 \in Nat /\ k + 1 # 0 /\ (k + 1) - 1 = k
      OBVIOUS
    <3> QED
      BY <1>8, <3>1
  <2> QED
    BY <2>1, <2>2
<1> QED
  BY <1>9, <1>10

\* The rule for a loop: I[k] is what holds after k passes.
LEMMA LoopRule ==
  ASSUME NEW f, NEW x, NEW I, x \in I[0],
         \A k \in Nat : \A s \in I[k] : f[s] \in I[k + 1]
  PROVE  \A k \in Nat : Passes(f, x, k) \in I[k]
<1> DEFINE A == {k \in Nat : Passes(f, x, k) \in I[k]}
<1>1. 0 \in A
  BY PassesDef
<1>2. ASSUME NEW k \in A PROVE k + 1 \in A
  <2>1. Passes(f, x, k + 1) = f[Passes(f, x, k)]
    BY PassesDef
  <2>2. f[Passes(f, x, k)] \in I[k + 1]
    OBVIOUS
  <2> QED
    BY <2>1, <2>2
<1> HIDE DEF A
<1>3. A = Nat
  BY <1>1, <1>2, NatBySet DEF A
<1> QED
  BY <1>3 DEF A

-----------------------------------------------------------------------------
(* ip6tos: which zeros are left out.                                        *)

Parts == [1..8 -> 0..MaxPart]

\* A run of l zeros from part z, parts being numbered from 0.
IsRun(a, z, l) == z \in 0..7 /\ l \in 2..8 /\ z + l <= 8 /\ \A i \in 1..8 : z < i /\ i <= z + l => a[i] = 0

\* The runs are the members of Runs.
LEMMA RunsAre ==
  ASSUME NEW a \in Parts
  PROVE  /\ \A z, l : IsRun(a, z, l) <=> <<z, l>> \in Runs(a)
         /\ \A r \in Runs(a) : r = <<r[1], r[2]>>
<1>1. ASSUME NEW z \in 0..7, NEW l \in 2..8, z + l <= 8
      PROVE  (\A i \in (z + 1)..(z + l) : a[i] = 0) <=> (\A i \in 1..8 : z < i /\ i <= z + l => a[i] = 0)
  <2>1. \A i : i \in (z + 1)..(z + l) <=> i \in 1..8 /\ z < i /\ i <= z + l
    BY <1>1
  <2> QED
    BY <2>1
<1>2. ASSUME NEW z, NEW l PROVE IsRun(a, z, l) <=> <<z, l>> \in Runs(a)
  <2>1. CASE z \in 0..7 /\ l \in 2..8 /\ z + l <= 8
    BY <1>1, <2>1 DEF IsRun, Runs
  <2>2. CASE ~(z \in 0..7 /\ l \in 2..8 /\ z + l <= 8)
    BY <2>2 DEF IsRun, Runs
  <2> QED
    BY <2>1, <2>2
<1>3. ASSUME NEW r \in Runs(a) PROVE r = <<r[1], r[2]>>
  BY DEF Runs
<1> QED
  BY <1>2, <1>3

\* Where the inner loop of the pre-scan stops.
LEMMA RunEndIs ==
  ASSUME NEW a \in Parts, NEW n \in 0..7, a[n + 1] = 0
  PROVE  /\ RunEnd(a, n) \in 1..8 /\ n < RunEnd(a, n)
         /\ \A i \in 1..8 : n < i /\ i <= RunEnd(a, n) => a[i] = 0
         /\ RunEnd(a, n) < 8 => a[RunEnd(a, n) + 1] # 0
<1> DEFINE S == {k \in n..7 : a[k + 1] # 0} \cup {8}
           e == RunEnd(a, n)
<1>1. S \in SUBSET Nat /\ S # {}
  OBVIOUS
<1>2. e \in S /\ \A m \in S : e <= m
  <2>1. e = Min(S)
    BY DEF RunEnd
  <2> HIDE DEF S, e
  <2> QED
    BY <1>1, <2>1, LeastNat DEF Min
<1>3. e \in 1..8 /\ n < e
  BY <1>2
<1>4. ASSUME NEW i \in 1..8, n < i, i <= e PROVE a[i] = 0
  <2>1. i - 1 \in n..7 /\ i - 1 < e /\ (i - 1) + 1 = i
    BY <1>3, <1>4
  <2> HIDE DEF e
  <2>2. ~(e <= i - 1)
    BY <1>3, <2>1
  <2>3. ~(i - 1 \in S)
    BY <1>2, <2>2
  <2> QED
    BY <2>1, <2>3
<1>5. e < 8 => a[e + 1] # 0
  BY <1>2, <1>3
<1> QED
  BY <1>3, <1>4, <1>5

\* Of the runs that begin before part n, the one to leave out is l long and begins at z.
Best(a, n, z, l) ==
    \A y, m : IsRun(a, y, m) /\ y < n => m < l \/ (m = l /\ z <= y)

\* The states of the pre-scan after k passes.
ScanState == (0..9) \X (0..255) \X (1..8)
Scanned(a) == [k \in Nat |->
    {s \in ScanState :
        /\ s[1] >= 8 \/ s[1] >= k
        /\ (s[2] = 255 /\ s[3] = 1) \/ (IsRun(a, s[2], s[3]) /\ s[2] < s[1])
        /\ Best(a, s[1], s[2], s[3])}]

\* One pass of the pre-scan, on numbers.
LEMMA ScanStep ==
  ASSUME NEW a \in Parts, NEW n \in 0..7, NEW z \in 0..255, NEW l \in 1..8,
         (z = 255 /\ l = 1) \/ (IsRun(a, z, l) /\ z < n), Best(a, n, z, l)
  PROVE  /\ a[n + 1] # 0 => Best(a, n + 1, z, l)
         /\ a[n + 1] = 0 =>
              LET e == RunEnd(a, n)
              IN  IF e - n > l THEN IsRun(a, n, e - n) /\ Best(a, e + 1, n, e - n)
                               ELSE Best(a, e + 1, z, l)
<1>1. ASSUME a[n + 1] # 0 PROVE Best(a, n + 1, z, l)
  <2> SUFFICES ASSUME NEW y, NEW m, IsRun(a, y, m), y < n + 1
               PROVE  m < l \/ (m = l /\ z <= y)
    BY DEF Best
  <2>1. y # n
    BY <1>1 DEF IsRun
  <2>2. y < n
    BY <2>1 DEF IsRun
  <2> QED
    BY <2>2 DEF Best
<1>2. ASSUME a[n + 1] = 0
      PROVE  LET e == RunEnd(a, n)
             IN  IF e - n > l THEN IsRun(a, n, e - n) /\ Best(a, e + 1, n, e - n)
                              ELSE Best(a, e + 1, z, l)
  <2> DEFINE e == RunEnd(a, n)
  <2>1. /\ e \in 1..8 /\ n < e
        /\ \A i \in 1..8 : n < i /\ i <= e => a[i] = 0
        /\ e < 8 => a[e + 1] # 0
    BY <1>2, RunEndIs
  <2> HIDE DEF e
  <2>2. ASSUME NEW y, NEW m, IsRun(a, y, m), y < e + 1, ~(y < n)
        PROVE  y \in n..7 /\ m \in 2..8 /\ y + m <= e
    <3>1. y \in 0..7 /\ m \in 2..8 /\ y + m <= 8
      BY <2>2 DEF IsRun
    <3>2. ASSUME y + m > e PROVE FALSE
      <4>1. e < 8 /\ e + 1 \in 1..8 /\ y < e + 1 /\ e + 1 <= y + m
        BY <2>1, <2>2, <3>1, <3>2
      <4>2. a[e + 1] = 0
        BY <2>2, <4>1 DEF IsRun
      <4> QED
        BY <2>1, <4>1, <4>2
    <3> QED
      BY <2>1, <2>2, <3>1, <3>2
  <2>3. CASE e - n > l
    <3>1. IsRun(a, n, e - n)
      <4>1. n \in 0..7 /\ e - n \in 2..8 /\ n + (e - n) <= 8 /\ n + (e - n) = e
        BY <2>1, <2>3
      <4> QED
        BY <2>1, <4>1 DEF IsRun
    <3>2. ASSUME NEW y, NEW m, IsRun(a, y, m), y < e + 1
          PROVE  m < e - n \/ (m = e - n /\ n <= y)
      <4>0. y \in 0..7 /\ m \in 2..8
        BY <3>2 DEF IsRun
      <4>1. CASE y < n
        <5>1. m < l \/ m = l
          BY <3>2, <4>1 DEF Best
        <5> QED
          BY <2>1, <2>3, <4>0, <5>1
      <4>2. CASE ~(y < n)
        <5>1. y \in n..7 /\ y + m <= e
          BY <2>2, <3>2, <4>2
        <5> QED
          BY <2>1, <4>0, <5>1
      <4> QED
        BY <4>1, <4>2
    <3>3. Best(a, e + 1, n, e - n)
      BY <3>2 DEF Best
    <3> QED
      BY <2>3, <3>1, <3>3 DEF e
  <2>4. CASE ~(e - n > l)
    <3>1. ASSUME NEW y, NEW m, IsRun(a, y, m), y < e + 1
          PROVE  m < l \/ (m = l /\ z <= y)
      <4>0. y \in 0..7 /\ m \in 2..8
        BY <3>1 DEF IsRun
      <4>1. CASE y < n
        BY <3>1, <4>1 DEF Best
      <4>2. CASE ~(y < n)
        <5>1. y \in n..7 /\ y + m <= e
          BY <2>2, <3>1, <4>2
        <5>2. m <= l /\ l # 1
          BY <2>1, <2>4, <4>0, <5>1
        <5> QED
          BY <4>0, <5>1, <5>2
      <4> QED
        BY <4>1, <4>2
    <3>2. Best(a, e + 1, z, l)
      BY <3>1 DEF Best
    <3> QED
      BY <2>4, <3>2 DEF e
  <2> QED
    BY <2>3, <2>4
<1> QED
  BY <1>1, <1>2

\* The pre-scan keeps the best of the runs it has passed.
LEMMA ScanPass ==
  ASSUME NEW a \in Parts, NEW k \in Nat, NEW s \in Scanned(a)[k]
  PROVE  Scan(a)[s] \in Scanned(a)[k + 1]
<1> DEFINE n == s[1]  z == s[2]  l == s[3]  e == RunEnd(a, n)
<1>1. /\ s \in ScanState /\ n \in 0..9 /\ z \in 0..255 /\ l \in 1..8
      /\ n >= 8 \/ n >= k
      /\ (z = 255 /\ l = 1) \/ (IsRun(a, z, l) /\ z < n)
      /\ Best(a, n, z, l)
  BY DEF Scanned, ScanState
<1>2. Scan(a)[s] = IF n >= 8 THEN s
            ELSE IF a[n + 1] # 0 THEN <<n + 1, z, l>>
            ELSE IF e - n > l THEN <<e + 1, n, e - n>>
            ELSE <<e + 1, z, l>>
  BY <1>1 DEF Scan, ScanState
<1>3. ASSUME NEW p \in 0..9, NEW y \in 0..255, NEW m \in 1..8, p >= 8 \/ p >= k + 1,
             (y = 255 /\ m = 1) \/ (IsRun(a, y, m) /\ y < p), Best(a, p, y, m)
      PROVE  <<p, y, m>> \in Scanned(a)[k + 1]
  <2> DEFINE t == <<p, y, m>>
  <2>1. t \in ScanState /\ t[1] = p /\ t[2] = y /\ t[3] = m
    BY DEF ScanState
  <2> HIDE DEF t
  <2>2. t \in Scanned(a)[k + 1]
    BY <1>3, <2>1 DEF Scanned
  <2> QED
    BY <2>2 DEF t
<1>4. s = <<n, z, l>>
  BY <1>1 DEF ScanState
<1> HIDE DEF n, z, l, e
<1>5. CASE n >= 8
  BY <1>1, <1>2, <1>3, <1>4, <1>5
<1>6. CASE ~(n >= 8)
  <2>1. n \in 0..7 /\ n >= k
    BY <1>1, <1>6
  <2>2. CASE a[n + 1] # 0
    <3>1. Best(a, n + 1, z, l)
      BY <1>1, <2>1, <2>2, ScanStep
    <3>2. n + 1 \in 0..9 /\ n + 1 >= k + 1 /\ (z < n => z < n + 1)
      BY <1>1, <2>1
    <3>3. (z = 255 /\ l = 1) \/ (IsRun(a, z, l) /\ z < n + 1)
      BY <1>1, <3>2
    <3>4. <<n + 1, z, l>> \in Scanned(a)[k + 1]
      BY <1>1, <1>3, <3>1, <3>2, <3>3
    <3> QED
      BY <1>2, <1>6, <2>2, <3>4
  <2>3. CASE a[n + 1] = 0
    <3>1. IF e - n > l THEN IsRun(a, n, e - n) /\ Best(a, e + 1, n, e - n)
                       ELSE Best(a, e + 1, z, l)
      BY <1>1, <2>1, <2>3, ScanStep DEF e
    <3>2. e \in 1..8 /\ n < e
      BY <2>1, <2>3, RunEndIs DEF e
    <3>3. e + 1 \in 0..9 /\ e + 1 >= k + 1 /\ n < e + 1 /\ n \in 0..255 /\ (z < n => z < e + 1)
          /\ e - n \in 1..8
      BY <1>1, <2>1, <3>2
    <3>4. CASE e - n > l
      <4>1. <<e + 1, n, e - n>> \in Scanned(a)[k + 1]
        BY <1>3, <3>1, <3>3, <3>4
      <4> QED
        BY <1>2, <1>6, <2>3, <3>4, <4>1
    <3>5. CASE ~(e - n > l)
      <4>1. (z = 255 /\ l = 1) \/ (IsRun(a, z, l) /\ z < e + 1)
        BY <1>1, <3>3
      <4>2. <<e + 1, z, l>> \in Scanned(a)[k + 1]
        BY <1>1, <1>3, <3>1, <3>3, <3>5, <4>1
      <4> QED
        BY <1>2, <1>6, <2>3, <3>5, <4>2
    <3> QED
      BY <3>4, <3>5
  <2> QED
    BY <2>2, <2>3
<1> QED
  BY <1>5, <1>6

\* What is left out: nothing, or the run RFC 5952 says.
LeftOut(a, z, l) ==
    \/ z = 255 /\ l = 1 /\ Runs(a) = {}
    \/ IsRun(a, z, l) /\ Runs(a) # {} /\ Chosen(a) = <<z, l>>

\* The pre-scan of ip6tos finds the run to leave out.
LEMMA ZeroRunIsChosen ==
  ASSUME NEW a \in Parts
  PROVE  \E z, l : ZeroRun(a) = <<z, l>> /\ LeftOut(a, z, l)
<1> DEFINE s == Passes(Scan(a), <<0, 255, 1>>, 8)  z == s[2]  l == s[3]
<1>1. <<0, 255, 1>> \in Scanned(a)[0]
  BY DEF Scanned, ScanState, Best, IsRun
<1>2. s \in Scanned(a)[8]
  BY <1>1, ScanPass, LoopRule
<1>3. ZeroRun(a) = <<z, l>>
  BY DEF ZeroRun
<1> HIDE DEF s
<1>4. /\ s[1] \in 0..9 /\ s[1] >= 8
      /\ (z = 255 /\ l = 1) \/ IsRun(a, z, l)
      /\ Best(a, s[1], z, l)
  BY <1>2 DEF Scanned, ScanState
<1> HIDE DEF z, l
<1>5. ASSUME NEW y, NEW m, IsRun(a, y, m) PROVE m < l \/ (m = l /\ z <= y)
  <2>1. y < s[1]
    BY <1>4, <1>5 DEF IsRun
  <2> QED
    BY <1>4, <1>5, <2>1 DEF Best
<1>6. CASE z = 255 /\ l = 1
  <2>1. ASSUME NEW r \in Runs(a) PROVE FALSE
    <3>1. IsRun(a, r[1], r[2])
      BY RunsAre
    <3>2. r[2] \in 2..8
      BY <3>1 DEF IsRun
    <3>3. r[2] < 1 \/ r[2] = 1
      BY <1>5, <1>6, <3>1
    <3> QED
      BY <3>2, <3>3
  <2> QED
    BY <1>3, <1>6, <2>1 DEF LeftOut
<1>7. CASE IsRun(a, z, l)
  <2> DEFINE P(r) == \A q \in Runs(a) : q[2] < r[2] \/ (q[2] = r[2] /\ r[1] <= q[1])
  <2>1. <<z, l>> \in Runs(a)
    BY <1>7, RunsAre
  <2>2. P(<<z, l>>)
    <3>1. ASSUME NEW q \in Runs(a) PROVE q[2] < l \/ (q[2] = l /\ z <= q[1])
      BY <1>5, RunsAre
    <3> QED
      BY <3>1
  <2>3. ASSUME NEW r \in Runs(a), P(r) PROVE r = <<z, l>>
    <3>1. l < r[2] \/ (l = r[2] /\ r[1] <= z)
      BY <2>1, <2>3
    <3>2. r[2] < l \/ (r[2] = l /\ z <= r[1])
      BY <2>2
    <3>3. IsRun(a, r[1], r[2]) /\ r = <<r[1], r[2]>>
      BY RunsAre
    <3>4. r[1] \in Int /\ r[2] \in Int /\ z \in Int /\ l \in Int
      BY <1>7, <3>3 DEF IsRun
    <3>5. r[1] = z /\ r[2] = l
      BY <3>1, <3>2, <3>4
    <3> QED
      BY <3>3, <3>5
  <2>4. Chosen(a) = CHOOSE r \in Runs(a) : P(r)
    BY DEF Chosen
  <2> HIDE DEF P
  <2>5. Chosen(a) = <<z, l>>
    BY <2>1, <2>2, <2>3, <2>4
  <2> QED
    BY <1>3, <1>7, <2>1, <2>5 DEF LeftOut
<1> QED
  BY <1>4, <1>6, <1>7

-----------------------------------------------------------------------------
(* The text, entry by entry.  A run of l zeros from part z is left out, or  *)
(* none: z = 8 and l = 0.                                                   *)

Shape(a, z, l) == (z = 8 /\ l = 0) \/ IsRun(a, z, l)

\* The entries up to the end of the "::", and those of the text of n parts.
Gap(z) == IF z = 0 THEN 2 ELSE 2 * z + 1
Printed(z, l, n) ==
    IF n <= z THEN (IF n = 8 THEN 15 ELSE 2 * n)
    ELSE IF n = 8 /\ z + l < 8 THEN Gap(z) + 2 * (n - z - l) - 1
    ELSE Gap(z) + 2 * (n - z - l)

Entries(a, z, l) == [i \in 1..16 |->
    IF i <= 2 * z THEN (IF i % 2 = 1 THEN a[(i + 1) \div 2] ELSE Colon)
    ELSE IF i <= Gap(z) THEN Colon
    ELSE IF (i - Gap(z)) % 2 = 1 THEN a[z + l + ((i - Gap(z) + 1) \div 2)] ELSE Colon]

\* The first m values of e.
Prefix(e, m) == [i \in 1..m |-> e[i]]

\* Groups and colons alternate.
LEMMA Alternate ==
  ASSUME NEW j \in Nat
  PROVE  /\ (2 * j + 1) % 2 = 1 /\ ((2 * j + 1) + 1) \div 2 = j + 1
         /\ (2 * j + 2) % 2 # 1
OBVIOUS

\* The numbers of a shape.
LEMMA ShapeNumbers ==
  ASSUME NEW a \in Parts, NEW z, NEW l, Shape(a, z, l)
  PROVE  /\ z \in 0..8 /\ l \in 0..8 /\ z + l <= 8 /\ (z # 8 => z \in 0..6 /\ l \in 2..8)
         /\ Gap(z) \in 2..17 /\ 2 * z <= Gap(z) /\ Gap(z) <= 2 * z + 2
         /\ z # 0 => Gap(z) = 2 * z + 1
         /\ z = 0 => Gap(z) = 2
BY DEF Shape, IsRun, Gap

\* What is before the "::".
LEMMA EntriesLeft ==
  ASSUME NEW a \in Parts, NEW z, NEW l, Shape(a, z, l), NEW j \in 0..7, j < z
  PROVE  Entries(a, z, l)[2 * j + 1] = a[j + 1] /\ Entries(a, z, l)[2 * j + 2] = Colon
<1>1. z \in 0..8
  BY ShapeNumbers
<1>2. 2 * j + 1 \in 1..16 /\ 2 * j + 2 \in 1..16 /\ 2 * j + 1 <= 2 * z /\ 2 * j + 2 <= 2 * z
  BY <1>1
<1> QED
  BY <1>2, Alternate DEF Entries

\* The "::" itself.
LEMMA EntriesGap ==
  ASSUME NEW a \in Parts, NEW z, NEW l, Shape(a, z, l), z # 8,
         NEW i \in 1..16, 2 * z < i, i <= Gap(z)
  PROVE  Entries(a, z, l)[i] = Colon
<1>1. z \in 0..8
  BY ShapeNumbers
<1>2. ~(i <= 2 * z)
  BY <1>1
<1> QED
  BY <1>2 DEF Entries

\* What is behind it.
LEMMA EntriesRight ==
  ASSUME NEW a \in Parts, NEW z, NEW l, Shape(a, z, l), z # 8, NEW j \in 0..7, z + l + j < 8
  PROVE  /\ Entries(a, z, l)[Gap(z) + 2 * j + 1] = a[z + l + j + 1]
         /\ Entries(a, z, l)[Gap(z) + 2 * j + 2] = Colon
<1> DEFINE g == Gap(z)
<1>1. /\ z \in 0..6 /\ l \in 2..8 /\ z + l <= 8 /\ g \in 2..17 /\ 2 * z <= g
      /\ g <= 2 * z + 2
  BY ShapeNumbers
<1> HIDE DEF g
<1>2. g + 2 * j + 1 \in 1..16 /\ g + 2 * j + 2 \in 1..16
  BY <1>1
<1>3. /\ ~(g + 2 * j + 1 <= 2 * z) /\ ~(g + 2 * j + 1 <= g)
      /\ ~(g + 2 * j + 2 <= 2 * z) /\ ~(g + 2 * j + 2 <= g)
      /\ (g + 2 * j + 1) - g = 2 * j + 1 /\ (g + 2 * j + 2) - g = 2 * j + 2
      /\ z + l + (j + 1) = z + l + j + 1
  BY <1>1
<1>4. Entries(a, z, l) = [i \in 1..16 |->
    IF i <= 2 * z THEN (IF i % 2 = 1 THEN a[(i + 1) \div 2] ELSE Colon)
    ELSE IF i <= g THEN Colon
    ELSE IF (i - g) % 2 = 1 THEN a[z + l + ((i - g + 1) \div 2)] ELSE Colon]
  BY DEF Entries, g
<1>5. Entries(a, z, l)[g + 2 * j + 1] = a[z + l + (((2 * j + 1) + 1) \div 2)]
  BY <1>2, <1>3, <1>4, Alternate
<1>6. Entries(a, z, l)[g + 2 * j + 2] = Colon
  BY <1>2, <1>3, <1>4, Alternate
<1> QED
  BY <1>3, <1>5, <1>6, Alternate DEF g

\* A prefix and what comes next.
LEMMA PrefixGrows ==
  ASSUME NEW e, NEW m \in Nat
  PROVE  /\ Len(Prefix(e, m)) = m
         /\ Append(Prefix(e, m), e[m + 1]) = Prefix(e, m + 1)
         /\ Prefix(e, m) \o <<e[m + 1]>> = Prefix(e, m + 1)
         /\ Prefix(e, m) \o <<e[m + 1], e[m + 2]>> = Prefix(e, m + 2)
<1> DEFINE s == Prefix(e, m)
           T == {e[i] : i \in Nat}
<1>1. s \in Seq(T) /\ Len(s) = m /\ \A i \in 1..m : s[i] = e[i]
  BY DEF Prefix
<1>2. e[m + 1] \in T /\ e[m + 2] \in T
  OBVIOUS
<1>3. /\ Prefix(e, m + 1) \in Seq(T) /\ Len(Prefix(e, m + 1)) = m + 1
      /\ \A i \in 1..m + 1 : Prefix(e, m + 1)[i] = e[i]
  BY DEF Prefix
<1>4. /\ Prefix(e, m + 2) \in Seq(T) /\ Len(Prefix(e, m + 2)) = m + 2
      /\ \A i \in 1..m + 2 : Prefix(e, m + 2)[i] = e[i]
  BY DEF Prefix
<1> HIDE DEF s, T
<1>5. Append(s, e[m + 1]) = Prefix(e, m + 1)
  BY <1>1, <1>2, <1>3, SeqEqual
<1>6. s \o <<e[m + 1]>> = Prefix(e, m + 1)
  BY <1>1, <1>2, <1>3, SeqEqual
<1>7. s \o <<e[m + 1], e[m + 2]>> = Prefix(e, m + 2)
  <2> DEFINE x == e[m + 1]  y == e[m + 2]  t == s \o <<x, y>>
  <2>1. x \in T /\ y \in T
    BY <1>2
  <2> HIDE DEF x, y
  <2>2. <<x, y>> \in Seq(T) /\ Len(<<x, y>>) = 2
    BY <2>1
  <2>3. t \in Seq(T) /\ Len(t) = m + 2 /\ (\A i \in 1..m : t[i] = s[i]) /\ t[m + 1] = x /\ t[m + 2] = y
    BY <1>1, <2>1, <2>2
  <2> HIDE DEF t
  <2>4. \A i \in 1..m + 2 : i \in 1..m \/ i = m + 1 \/ i = m + 2
    OBVIOUS
  <2>5. \A i \in 1..m + 2 : t[i] = Prefix(e, m + 2)[i]
    BY <1>1, <1>4, <2>3, <2>4 DEF x, y
  <2>6. t = Prefix(e, m + 2)
    BY <1>4, <2>3, <2>5, SeqEqual
  <2> QED
    BY <2>6 DEF t, x, y
<1> QED
  BY <1>1, <1>5, <1>6, <1>7 DEF s

-----------------------------------------------------------------------------
(* ip6tos: the text.                                                        *)

\* An entry is a colon or a group.
IsEntry(x) == x = Colon \/ x \in 0..MaxPart

\* The entries are colons and groups.
LEMMA EntryAt ==
  ASSUME NEW a \in Parts, NEW z, NEW l, Shape(a, z, l), NEW i \in 1..16,
         z = 8 \/ (z + l < 8 /\ i < Gap(z) + 2 * (8 - z - l)) \/ i <= Gap(z)
  PROVE  IsEntry(Entries(a, z, l)[i])
<1> DEFINE e == Entries(a, z, l)  g == Gap(z)
<1>1. /\ z \in 0..8 /\ l \in 0..8 /\ z + l <= 8 /\ (z # 8 => z \in 0..6 /\ l \in 2..8)
      /\ g \in 2..17 /\ 2 * z <= g /\ g <= 2 * z + 2
  BY ShapeNumbers
<1>2. \A x : x = Colon => IsEntry(x)
  BY DEF IsEntry
<1>3. \A j \in 1..8 : IsEntry(a[j])
  BY DEF IsEntry, Parts
<1>4. z = 8 \/ (z + l < 8 /\ i < g + 2 * (8 - z - l)) \/ i <= g
  OBVIOUS
<1> HIDE DEF e, g
<1>5. CASE i <= 2 * z
  <2>1. PICK j \in 0..7 : i = 2 * j + 1 \/ i = 2 * j + 2
    OBVIOUS
  <2>2. j < z /\ j + 1 \in 1..8
    BY <1>1, <1>5, <2>1
  <2>3. e[2 * j + 1] = a[j + 1] /\ e[2 * j + 2] = Colon
    BY <2>2, EntriesLeft DEF e
  <2>4. IsEntry(e[2 * j + 1]) /\ IsEntry(e[2 * j + 2])
    BY <1>2, <1>3, <2>2, <2>3
  <2>5. IsEntry(e[i])
    BY <2>1, <2>4
  <2> QED
    BY <2>5 DEF e
<1>6. CASE ~(i <= 2 * z) /\ i <= g
  <2>1. z # 8 /\ 2 * z < i
    BY <1>1, <1>6
  <2>2. e[i] = Colon
    BY <1>6, <2>1, EntriesGap DEF e, g
  <2> QED
    BY <1>2, <2>2 DEF e
<1>7. CASE ~(i <= 2 * z) /\ ~(i <= g)
  <2>1. z # 8 /\ i < g + 2 * (8 - z - l) /\ g < i
    BY <1>1, <1>4, <1>7
  <2>2. PICK j \in 0..7 : i - g = 2 * j + 1 \/ i - g = 2 * j + 2
    BY <1>1, <2>1
  <2>3. z + l + j < 8 /\ z + l + j + 1 \in 1..8 /\ (i = g + 2 * j + 1 \/ i = g + 2 * j + 2)
    BY <1>1, <2>1, <2>2
  <2>4. e[g + 2 * j + 1] = a[z + l + j + 1] /\ e[g + 2 * j + 2] = Colon
    BY <2>1, <2>3, EntriesRight DEF e, g
  <2>5. IsEntry(e[g + 2 * j + 1]) /\ IsEntry(e[g + 2 * j + 2])
    BY <1>2, <1>3, <2>3, <2>4
  <2>6. IsEntry(e[i])
    BY <2>3, <2>5
  <2> QED
    BY <2>6 DEF e
<1> QED
  BY <1>1, <1>5, <1>6, <1>7

\* A text in the making is one of integers.
LEMMA PrefixIsText ==
  ASSUME NEW a \in Parts, NEW z, NEW l, Shape(a, z, l), NEW n \in 0..8, n <= z \/ n >= z + l
  PROVE  /\ Printed(z, l, n) \in 0..15
         /\ \A i \in 1..Printed(z, l, n) : IsEntry(Entries(a, z, l)[i])
         /\ Prefix(Entries(a, z, l), Printed(z, l, n)) \in Seq(Int)
<1> DEFINE e == Entries(a, z, l)  p == Printed(z, l, n)  g == Gap(z)
<1>1. /\ z \in 0..8 /\ l \in 0..8 /\ z + l <= 8 /\ (z # 8 => z \in 0..6 /\ l \in 2..8)
      /\ g \in 2..17 /\ 2 * z <= g /\ g <= 2 * z + 2
  BY ShapeNumbers
<1>2. p \in 0..15
  BY <1>1 DEF Printed
<1>3. z = 8 \/ (z + l < 8 /\ p < g + 2 * (8 - z - l)) \/ p <= g
  BY <1>1 DEF Printed
<1> HIDE DEF p, e, g
<1>4. ASSUME NEW i \in 1..p PROVE IsEntry(e[i])
  <2>1. i \in 1..16 /\ (z = 8 \/ (z + l < 8 /\ i < g + 2 * (8 - z - l)) \/ i <= g)
    BY <1>1, <1>2, <1>3
  <2> QED
    BY <2>1, EntryAt DEF e, g
<1>5. \A i \in 1..p : e[i] \in Int
  BY <1>4 DEF IsEntry, Colon
<1>6. Prefix(e, p) \in Seq(Int)
  BY <1>2, <1>5 DEF Prefix
<1> QED
  BY <1>2, <1>4, <1>6 DEF e, p

\* The states of the second loop after k passes.
PrintState == (0..8) \X Seq(Int)
Upto(a, z, l, n) == <<n, Prefix(Entries(a, z, l), Printed(z, l, n))>>
Stops(z, l, k) == {n \in 0..8 : (n <= z \/ n >= z + l) /\ (n = 8 \/ n >= k)}

\* A pass that jumps over the zeros.
LEMMA PrintGap ==
  ASSUME NEW a \in Parts, NEW z, NEW l, Shape(a, z, l), z # 8
  PROVE  Upto(a, z, l, z)[2] \o (IF z = 0 THEN <<Colon, Colon>> ELSE <<Colon>>)
           = Upto(a, z, l, z + l)[2]
<1> DEFINE e == Entries(a, z, l)
<1>1. z \in 0..6 /\ l \in 2..8 /\ z + l <= 8
  BY ShapeNumbers
<1>2. Printed(z, l, z) = 2 * z /\ Printed(z, l, z + l) = Gap(z)
  BY <1>1 DEF Printed, Gap
<1>3. 2 * z \in Nat
  BY <1>1
<1> HIDE DEF e
<1>4. CASE z = 0
  <2>1. e[2 * z + 1] = Colon /\ e[2 * z + 2] = Colon /\ Gap(z) = 2 * z + 2
    BY <1>4, EntriesGap DEF e, Gap
  <2> QED
    BY <1>2, <1>3, <1>4, <2>1, PrefixGrows DEF Upto, e
<1>5. CASE z # 0
  <2>1. e[2 * z + 1] = Colon /\ Gap(z) = 2 * z + 1
    BY <1>1, <1>5, EntriesGap DEF e, Gap
  <2> QED
    BY <1>2, <1>3, <1>5, <2>1, PrefixGrows DEF Upto, e
<1> QED
  BY <1>4, <1>5

\* A pass that prints a part.
LEMMA PrintPart ==
  ASSUME NEW a \in Parts, NEW z, NEW l, Shape(a, z, l), NEW n \in 0..7, n < z \/ n >= z + l
  PROVE  Upto(a, z, l, n)[2] \o (IF n < 7 THEN <<a[n + 1], Colon>> ELSE <<a[n + 1]>>)
           = Upto(a, z, l, n + 1)[2]
<1> DEFINE e == Entries(a, z, l)  p == Printed(z, l, n)
<1>1. z \in 0..8 /\ l \in 0..8 /\ z + l <= 8 /\ (z # 8 => z \in 0..6 /\ l \in 2..8) /\ Gap(z) \in 2..17
  BY ShapeNumbers
<1>2. e[p + 1] = a[n + 1] /\ e[p + 2] = Colon
  <2>1. CASE n < z
    <3>1. p = 2 * n
      BY <1>1, <2>1 DEF Printed
    <3> QED
      BY <2>1, <3>1, EntriesLeft DEF e
  <2>2. CASE ~(n < z)
    <3> DEFINE j == n - z - l
    <3>1. z # 8 /\ j \in 0..7 /\ z + l + j = n /\ n >= z + l /\ n # z
      BY <1>1, <2>2
    <3>2. p = Gap(z) + 2 * j
      BY <1>1, <3>1 DEF Printed
    <3> HIDE DEF j
    <3>3. p + 1 = Gap(z) + 2 * j + 1 /\ p + 2 = Gap(z) + 2 * j + 2 /\ z + l + j < 8
      BY <1>1, <3>1, <3>2
    <3> HIDE DEF p
    <3>4. e[Gap(z) + 2 * j + 1] = a[z + l + j + 1] /\ e[Gap(z) + 2 * j + 2] = Colon
      BY <3>1, <3>3, EntriesRight DEF e
    <3> QED
      BY <3>1, <3>3, <3>4
  <2> QED
    BY <2>1, <2>2
<1>3. p \in Nat /\ Printed(z, l, n + 1) = IF n < 7 THEN p + 2 ELSE p + 1
  <2>1. CASE n < z
    BY <1>1, <2>1 DEF Printed
  <2>2. CASE ~(n < z)
    <3>1. z # 8 /\ n >= z + l /\ ~(n <= z) /\ ~(n + 1 <= z) /\ (n = 7 => z + l < 8)
      BY <1>1, <2>2
    <3> QED
      BY <1>1, <3>1 DEF Printed
  <2> QED
    BY <2>1, <2>2
<1> HIDE DEF e, p
<1>4. CASE n < 7
  BY <1>2, <1>3, <1>4, PrefixGrows DEF Upto, e, p
<1>5. CASE ~(n < 7)
  BY <1>2, <1>3, <1>5, PrefixGrows DEF Upto, e, p
<1> QED
  BY <1>4, <1>5

\* Which zeros Printing leaves out.
Leaves(run, z, l) == (z = 8 /\ run[1] = 255) \/ (z # 8 /\ run[1] = z /\ run[2] = l)

\* A pass of the second loop, when every part fits.
LEMMA PrintPass ==
  ASSUME NEW a \in Parts, NEW z, NEW l, Shape(a, z, l), NEW run, Leaves(run, z, l),
         NEW pointer_, \A i \in 1..8 : Fits(a[i], pointer_), NEW k \in Nat, NEW n \in Stops(z, l, k)
  PROVE  \E m \in Stops(z, l, k + 1) : Printing(a, run, pointer_)[Upto(a, z, l, n)] = Upto(a, z, l, m)
<1> DEFINE s == Upto(a, z, l, n)  f == Printing(a, run, pointer_)
<1>1. z \in 0..8 /\ l \in 0..8 /\ z + l <= 8 /\ (z # 8 => z \in 0..6 /\ l \in 2..8)
  BY ShapeNumbers
<1>2. n \in 0..8 /\ (n <= z \/ n >= z + l) /\ (n = 8 \/ n >= k)
  BY DEF Stops
<1>3. s \in PrintState /\ s[1] = n /\ s = <<n, s[2]>>
  BY <1>2, PrefixIsText DEF Upto, PrintState
<1>4. f[s] = IF n = 8 THEN s
             ELSE IF n = run[1]
               THEN <<n + run[2], s[2] \o (IF n = 0 THEN <<Colon, Colon>> ELSE <<Colon>>)>>
             ELSE IF ~Fits(a[n + 1], pointer_) THEN <<8, Append(s[2], a[n + 1] \div 16)>>
             ELSE <<n + 1, s[2] \o (IF n < 7 THEN <<a[n + 1], Colon>> ELSE <<a[n + 1]>>)>>
  BY <1>3 DEF Printing, PrintState
<1> HIDE DEF f
<1>5. CASE n = 8
  <2>1. 8 \in Stops(z, l, k + 1)
    BY <1>1 DEF Stops
  <2> QED
    BY <1>4, <1>5, <2>1 DEF f
<1>6. CASE n # 8 /\ n = run[1]
  <2>1. z # 8 /\ n = z /\ run[2] = l
    BY <1>2, <1>6 DEF Leaves
  <2>2. z + l \in Stops(z, l, k + 1)
    BY <1>1, <1>2, <2>1 DEF Stops
  <2>3. f[s] = Upto(a, z, l, z + l)
    <3> DEFINE t == IF n = 0 THEN <<Colon, Colon>> ELSE <<Colon>>
    <3>1. s[2] \o t = Upto(a, z, l, z + l)[2]
      BY <2>1, PrintGap
    <3> HIDE DEF t
    <3>2. f[s] = <<z + l, s[2] \o t>>
      BY <1>4, <1>6, <2>1 DEF t
    <3> QED
      BY <3>1, <3>2 DEF Upto
  <2> QED
    BY <2>2, <2>3 DEF f
<1>7. CASE n # 8 /\ n # run[1]
  <2>1. n \in 0..7 /\ n + 1 \in 1..8 /\ (n < z \/ n >= z + l)
    BY <1>1, <1>2, <1>7 DEF Leaves
  <2>2. n + 1 \in Stops(z, l, k + 1)
    BY <1>1, <1>2, <2>1 DEF Stops
  <2>3. f[s] = <<n + 1, s[2] \o (IF n < 7 THEN <<a[n + 1], Colon>> ELSE <<a[n + 1]>>)>>
    BY <1>4, <1>7, <2>1
  <2>4. f[s] = Upto(a, z, l, n + 1)
    BY <2>1, <2>3, PrintPart DEF Upto
  <2> QED
    BY <2>2, <2>4 DEF f
<1> QED
  BY <1>5, <1>6, <1>7

\* The text is made of the entries.
LEMMA PrintedIs ==
  ASSUME NEW a \in Parts, NEW z, NEW l, Shape(a, z, l), NEW run, Leaves(run, z, l),
         NEW pointer_, \A i \in 1..8 : Fits(a[i], pointer_)
  PROVE  Passes(Printing(a, run, pointer_), <<0, <<>>>>, 8)[2] = Prefix(Entries(a, z, l), Printed(z, l, 8))
<1> DEFINE f == Printing(a, run, pointer_)
           I == [k \in Nat |-> {Upto(a, z, l, n) : n \in Stops(z, l, k)}]
<1>1. z \in 0..8 /\ l \in 0..8
  BY ShapeNumbers
<1>2. <<0, <<>>>> \in I[0]
  <2>1. 0 \in Stops(z, l, 0)
    BY <1>1 DEF Stops
  <2>2. Printed(z, l, 0) = 0
    BY <1>1 DEF Printed
  <2>3. Upto(a, z, l, 0) = <<0, <<>>>>
    BY <2>2 DEF Upto, Prefix
  <2> QED
    BY <2>1, <2>3
<1>3. ASSUME NEW k \in Nat, NEW s \in I[k] PROVE f[s] \in I[k + 1]
  BY PrintPass
<1> HIDE DEF f, I
<1>4. Passes(f, <<0, <<>>>>, 8) \in I[8]
  BY <1>2, <1>3, LoopRule
<1>5. \A n \in Stops(z, l, 8) : n = 8
  BY DEF Stops
<1> QED
  BY <1>4, <1>5 DEF I, f, Upto

\* A prefix and a sequence that continues it.
LEMMA PrefixJoins ==
  ASSUME NEW e, NEW m \in Nat, NEW T, NEW b \in Seq(T), \A i \in 1..Len(b) : b[i] = e[m + i]
  PROVE  Prefix(e, m) \o b = Prefix(e, m + Len(b))
<1> DEFINE U == T \cup {e[i] : i \in Nat}
           s == Prefix(e, m)  t == s \o b  u == Prefix(e, m + Len(b))
<1>1. s \in Seq(U) /\ Len(s) = m /\ \A i \in 1..m : s[i] = e[i]
  BY DEF Prefix
<1>2. b \in Seq(U) /\ Len(b) \in Nat
  OBVIOUS
<1>3. u \in Seq(U) /\ Len(u) = m + Len(b) /\ \A i \in 1..m + Len(b) : u[i] = e[i]
  BY <1>2 DEF Prefix
<1> HIDE DEF U, s, u
<1>4. t \in Seq(U) /\ Len(t) = m + Len(b)
  BY <1>1, <1>2
<1>5. ASSUME NEW i \in 1..m + Len(b) PROVE t[i] = u[i]
  <2>1. CASE i <= m
    BY <1>1, <1>2, <1>3, <2>1
  <2>2. CASE ~(i <= m)
    <3>1. i - m \in 1..Len(b) /\ m + (i - m) = i
      BY <1>2, <2>2
    <3>2. t[i] = b[i - m]
      BY <1>1, <1>2, <2>2
    <3> QED
      BY <1>3, <3>1, <3>2
  <2> QED
    BY <2>1, <2>2
<1> HIDE DEF t
<1>6. t = u
  BY <1>3, <1>4, <1>5, SeqEqual
<1> QED
  BY <1>6 DEF s, t, u

\* An address is a sequence.
LEMMA PartsAreSeq == ASSUME NEW a \in Parts PROVE a \in Seq(0..MaxPart) /\ Len(a) = 8
<1>1. a \in [1..8 -> 0..MaxPart] /\ 8 \in Nat
  BY DEF Parts
<1>2. a \in Seq(0..MaxPart)
  BY <1>1, SeqDef
<1>3. DOMAIN a = 1..Len(a) /\ Len(a) \in Nat
  BY <1>2, LenProperties
<1>4. 1..8 = 1..Len(a)
  BY <1>1, <1>3
<1> QED
  BY <1>2, <1>3, <1>4

\* Parts and the colons between them.
LEMMA JoinedAt ==
  ASSUME NEW parts, NEW m \in Nat \ {0}, Len(parts) = m, NEW e,
         \A j \in 0..m - 1 : e[2 * j + 1] = parts[j + 1],
         \A j \in 0..m - 2 : e[2 * j + 2] = Colon
  PROVE  Joined(parts) = Prefix(e, 2 * m - 1)
<1>1. Joined(parts) = [i \in 1..2 * m - 1 |-> IF i % 2 = 1 THEN parts[(i + 1) \div 2] ELSE Colon]
  BY DEF Joined
<1>2. ASSUME NEW i \in 1..2 * m - 1
      PROVE  (IF i % 2 = 1 THEN parts[(i + 1) \div 2] ELSE Colon) = e[i]
  <2>1. CASE i % 2 = 1
    <3>1. PICK j \in 0..m - 1 : i = 2 * j + 1
      BY <2>1
    <3>2. (i + 1) \div 2 = j + 1
      BY <3>1
    <3> QED
      BY <2>1, <3>1, <3>2
  <2>2. CASE i % 2 # 1
    <3> DEFINE j == (i - 2) \div 2
    <3>1. i % 2 = 0
      BY <2>2
    <3>2. i = 2 * j + 2
      BY <3>1
    <3>3. j \in 0..m - 2
      BY <3>2
    <3> HIDE DEF j
    <3> QED
      BY <2>2, <3>2, <3>3
  <2> QED
    BY <2>1, <2>2
<1>3. [i \in 1..2 * m - 1 |-> IF i % 2 = 1 THEN parts[(i + 1) \div 2] ELSE Colon]
        = [i \in 1..2 * m - 1 |-> e[i]]
  BY <1>2
<1> QED
  BY <1>1, <1>3 DEF Prefix

\* The text of an address that has a run of zeros is the one of RFC 5952.
LEMMA ShortText ==
  ASSUME NEW a \in Parts, NEW z, NEW l, IsRun(a, z, l)
  PROVE  LET left == SubSeq(a, 1, z)
             right == SubSeq(a, z + l + 1, 8)
         IN  (IF left = <<>> THEN <<>> ELSE Joined(left)) \o <<Colon, Colon>>
             \o (IF right = <<>> THEN <<>> ELSE Joined(right))
             = Prefix(Entries(a, z, l), Printed(z, l, 8))
<1> DEFINE left == SubSeq(a, 1, z)  right == SubSeq(a, z + l + 1, 8)  r == 8 - z - l
           A == IF left = <<>> THEN <<>> ELSE Joined(left)
           B == IF right = <<>> THEN <<>> ELSE Joined(right)
           e == Entries(a, z, l)  m == IF z = 0 THEN 0 ELSE 2 * z - 1
           p == Printed(z, l, 8)
<1>1. Shape(a, z, l) /\ z \in 0..6 /\ l \in 2..8 /\ r \in 0..6 /\ z # 8
  BY DEF Shape, IsRun
<1>2. Gap(z) = m + 2 /\ m \in Nat
  BY <1>1 DEF Gap
<1>3. p = IF r = 0 THEN m + 2 ELSE m + 2 + (2 * r - 1)
  BY <1>1, <1>2 DEF Printed
<1>4. a \in Seq(0..MaxPart) /\ Len(a) = 8
  BY PartsAreSeq
<1>5. Len(left) = z /\ \A j \in 0..z - 1 : left[j + 1] = a[j + 1]
  BY <1>1, <1>4
<1>6. Len(right) = r /\ \A j \in 0..r - 1 : right[j + 1] = a[z + l + j + 1]
  <2>1. Len(right) = r
    BY <1>1, <1>4
  <2>2. ASSUME NEW j \in 0..r - 1 PROVE right[j + 1] = a[z + l + j + 1]
    <3>1. j + 1 \in 1..(8 - (z + l + 1) + 1) /\ z + l + 1 \in 1..9 /\ z + l + 1 + (j + 1) - 1 = z + l + j + 1
      BY <1>1
    <3>2. right[j + 1] = a[z + l + 1 + (j + 1) - 1]
      <4> DEFINE v == z + l + 1  i == j + 1
      <4>1. v \in Int /\ 8 \in Int /\ i \in 1..8 - v + 1 /\ \A x \in v..8 : x \in 1..8
        BY <1>1, <3>1
      <4> HIDE DEF v, i
      <4>2. \A x \in v..8 : a[x] \in 0..MaxPart
        BY <4>1 DEF Parts
      <4>3. SubSeq(a, v, 8)[i] = a[v + i - 1]
        BY <4>1, <4>2, SubSeqProperties
      <4> QED
        BY <4>3 DEF v, i
    <3> QED
      BY <3>1, <3>2
  <2> QED
    BY <2>1, <2>2
<1>7. left = <<>> <=> z = 0
  <2>1. \A i \in 1..z : a[i] \in 0..MaxPart
    BY <1>1 DEF Parts
  <2>2. left \in Seq(0..MaxPart)
    BY <1>1, <2>1, SubSeqProperties
  <2> QED
    BY <1>5, <2>2, EmptySeq
<1>8. right = <<>> <=> r = 0
  <2>1. z + l + 1 \in Int /\ \A i \in z + l + 1..8 : a[i] \in 0..MaxPart
    BY <1>1 DEF Parts
  <2>2. right \in Seq(0..MaxPart)
    BY <2>1, SubSeqProperties
  <2> QED
    BY <1>6, <2>2, EmptySeq
<1> DEFINE d == [i \in 1..16 |-> e[m + 2 + i]]
<1>9. A = Prefix(e, m)
  <2>1. CASE z = 0
    BY <1>7, <2>1 DEF Prefix
  <2>2. CASE z # 0
    <3>1. \A j \in 0..z - 1 : e[2 * j + 1] = a[j + 1] /\ e[2 * j + 2] = Colon
      BY <1>1, EntriesLeft
    <3> HIDE DEF e, left
    <3>2. z \in Nat \ {0} /\ (\A j \in 0..z - 2 : e[2 * j + 2] = Colon)
          /\ (\A j \in 0..z - 1 : e[2 * j + 1] = left[j + 1])
      BY <1>1, <1>5, <2>2, <3>1
    <3>3. Joined(left) = Prefix(e, 2 * z - 1)
      BY <1>5, <3>2, JoinedAt
    <3> QED
      BY <1>7, <2>2, <3>3
  <2> QED
    BY <2>1, <2>2
<1>10. e[m + 1] = Colon /\ e[m + 2] = Colon
  <2>1. m + 1 \in 1..16 /\ m + 2 \in 1..16 /\ m + 2 <= Gap(z) /\ 2 * z < m + 2
    BY <1>1, <1>2
  <2>2. e[m + 2] = Colon
    BY <1>1, <2>1, EntriesGap
  <2>3. CASE z = 0
    <3>1. 2 * z < m + 1 /\ m + 1 <= Gap(z)
      BY <1>2, <2>3
    <3> QED
      BY <1>1, <2>1, <2>2, <3>1, EntriesGap
  <2>4. CASE z # 0
    <3>1. m + 1 = 2 * (z - 1) + 2 /\ z - 1 \in 0..7 /\ z - 1 < z
      BY <1>1, <2>4
    <3> QED
      BY <1>1, <2>2, <3>1, EntriesLeft
  <2> QED
    BY <2>3, <2>4
<1>11. B = Prefix(d, IF r = 0 THEN 0 ELSE 2 * r - 1)
  <2>1. CASE r = 0
    BY <1>8, <2>1 DEF Prefix
  <2>2. CASE r # 0
    <3>1. ASSUME NEW j \in 0..r - 1
          PROVE  d[2 * j + 1] = right[j + 1] /\ d[2 * j + 2] = Colon
      <4>1. /\ 2 * j + 1 \in 1..16 /\ 2 * j + 2 \in 1..16 /\ j \in 0..7 /\ z + l + j < 8
            /\ m + 2 + (2 * j + 1) = Gap(z) + 2 * j + 1 /\ m + 2 + (2 * j + 2) = Gap(z) + 2 * j + 2
        BY <1>1, <1>2
      <4>2. e[Gap(z) + 2 * j + 1] = a[z + l + j + 1] /\ e[Gap(z) + 2 * j + 2] = Colon
        BY <1>1, <4>1, EntriesRight
      <4> HIDE DEF e, right, m
      <4>3. d[2 * j + 1] = e[m + 2 + (2 * j + 1)] /\ d[2 * j + 2] = e[m + 2 + (2 * j + 2)]
        BY <4>1
      <4> QED
        BY <1>6, <4>1, <4>2, <4>3
    <3> HIDE DEF d, right
    <3>2. r \in Nat \ {0} /\ (\A j \in 0..r - 1 : d[2 * j + 1] = right[j + 1])
          /\ (\A j \in 0..r - 2 : d[2 * j + 2] = Colon)
      <4>1. \A j \in 0..r - 2 : j \in 0..r - 1
        BY <1>1
      <4>2. r \in Nat \ {0}
        BY <1>1, <2>2
      <4> HIDE DEF r
      <4> QED
        BY <3>1, <4>1, <4>2
    <3> HIDE DEF r
    <3>3. Joined(right) = Prefix(d, 2 * r - 1)
      BY <1>6, <3>2, JoinedAt
    <3> QED
      BY <1>8, <2>2, <3>3
  <2> QED
    BY <2>1, <2>2
<1> DEFINE q == IF r = 0 THEN 0 ELSE 2 * r - 1
           V == {d[i] : i \in Nat}
<1>12. q \in Nat /\ q <= 16 /\ p = m + 2 + q
  BY <1>1, <1>2, <1>3
<1>13. B \in Seq(V) /\ Len(B) = q /\ \A i \in 1..q : B[i] = e[m + 2 + i]
  <2> HIDE DEF e, m, q, B
  <2>1. B = [i \in 1..q |-> d[i]]
    BY <1>11 DEF q, Prefix
  <2>2. \A i \in 1..q : i \in 1..16
    BY <1>12
  <2>3. \A i \in 1..q : d[i] = e[m + 2 + i]
    BY <2>2
  <2> HIDE DEF d
  <2> QED
    BY <1>12, <2>1, <2>3
<1> HIDE DEF A, B, e, m, p, q, V, d
<1>14. A \o <<Colon, Colon>> = Prefix(e, m + 2)
  BY <1>2, <1>9, <1>10, PrefixGrows
<1>15. Prefix(e, m + 2) \o B = Prefix(e, m + 2 + q)
  <2>1. m + 2 \in Nat
    BY <1>2
  <2> QED
    BY <1>13, <2>1, PrefixJoins
<1>16. (A \o <<Colon, Colon>>) \o B = Prefix(e, p)
  BY <1>12, <1>14, <1>15
<1> QED
  BY <1>16 DEF A, B, e, p

\* The text of an address without one.
LEMMA FullText ==
  ASSUME NEW a \in Parts
  PROVE  Joined(a) = Prefix(Entries(a, 8, 0), Printed(8, 0, 8))
<1>1. Shape(a, 8, 0) /\ Printed(8, 0, 8) = 2 * 8 - 1 /\ Len(a) = 8 /\ 8 \in Nat \ {0}
  BY PartsAreSeq DEF Shape, Printed
<1>2. \A j \in 0..7 : Entries(a, 8, 0)[2 * j + 1] = a[j + 1] /\ Entries(a, 8, 0)[2 * j + 2] = Colon
  BY <1>1, EntriesLeft
<1>3. /\ \A j \in 0..8 - 1 : Entries(a, 8, 0)[2 * j + 1] = a[j + 1]
      /\ \A j \in 0..8 - 2 : Entries(a, 8, 0)[2 * j + 2] = Colon
  BY <1>2
<1>4. Joined(a) = Prefix(Entries(a, 8, 0), 2 * 8 - 1)
  BY <1>1, <1>3, JoinedAt
<1> QED
  BY <1>1, <1>4

\* The text of RFC 5952 of an address has its shape.
LEMMA CanonicalHasShape ==
  ASSUME NEW a \in Parts
  PROVE  \E z, l : /\ Shape(a, z, l) /\ Leaves(ZeroRun(a), z, l)
                   /\ Canonical(a) = Prefix(Entries(a, z, l), Printed(z, l, 8))
<1>1. PICK z, l : ZeroRun(a) = <<z, l>> /\ LeftOut(a, z, l)
  BY ZeroRunIsChosen
<1>2. CASE z = 255 /\ l = 1 /\ Runs(a) = {}
  <2>1. Shape(a, 8, 0) /\ Leaves(ZeroRun(a), 8, 0)
    BY <1>1, <1>2 DEF Shape, Leaves
  <2>2. Canonical(a) = Joined(a)
    BY <1>2 DEF Canonical
  <2> QED
    BY <2>1, <2>2, FullText
<1>3. CASE IsRun(a, z, l) /\ Runs(a) # {} /\ Chosen(a) = <<z, l>>
  <2>1. Shape(a, z, l) /\ Leaves(ZeroRun(a), z, l)
    BY <1>1, <1>3 DEF Shape, Leaves, IsRun
  <2>2. Canonical(a) = Prefix(Entries(a, z, l), Printed(z, l, 8))
    <3>1. Chosen(a)[1] = z /\ Chosen(a)[2] = l
      BY <1>3
    <3> QED
      BY <1>3, <3>1, ShortText DEF Canonical
  <2> QED
    BY <2>1, <2>2
<1> QED
  BY <1>1, <1>2, <1>3 DEF LeftOut

\* ip6tos prints the text of RFC 5952, when every part fits.
THEOREM Ip6TextIsCanonical ==
  ASSUME NEW a \in Parts, NEW size, \A i \in 1..8 : Fits(a[i], size)
  PROVE  ip6tos(a, size) = Canonical(a)
<1>1. PICK z, l : /\ Shape(a, z, l) /\ Leaves(ZeroRun(a), z, l)
                  /\ Canonical(a) = Prefix(Entries(a, z, l), Printed(z, l, 8))
  BY CanonicalHasShape
<1> QED
  BY <1>1, PrintedIs DEF ip6tos

-----------------------------------------------------------------------------
(* stoip6 of a text of ip6tos.                                              *)

\* An address is a text of an address of IPv6 only.
LEMMA NotIp4 ==
  ASSUME NEW a \in Parts, NEW z, NEW l, Shape(a, z, l)
  PROVE  stoip4(Prefix(Entries(a, z, l), Printed(z, l, 8))) = Error
<1> DEFINE e == Entries(a, z, l)  p == Printed(z, l, 8)  t == Prefix(e, p)
<1>1. p \in 0..15 /\ (\A i \in 1..p : IsEntry(e[i]))
  <2>1. 8 \in 0..8 /\ (8 <= z \/ 8 >= z + l)
    BY ShapeNumbers
  <2> QED
    BY <2>1, PrefixIsText
<1> HIDE DEF p, e
<1>2. Len(t) = p /\ \A i \in 1..p : t[i] = e[i]
  BY <1>1 DEF Prefix
<1>3. ASSUME Len(t) = 7, t[2] = Dot PROVE FALSE
  <2>1. IsEntry(Dot)
    BY <1>1, <1>2, <1>3
  <2> QED
    BY <2>1 DEF IsEntry, Dot, Colon
<1> HIDE DEF t
<1>4. stoip4(t) = Error
  BY <1>3 DEF stoip4
<1> QED
  BY <1>4 DEF t, p, e

\* The fields stoip6 reads: the parts before the zeros, and then those behind them.
\* Of a run that begins the address the empty field before the "::" is one.
Fore(z) == IF z = 0 THEN 1 ELSE z
Count(z, l) == IF z = 8 THEN 8 ELSE Fore(z) + (8 - z - l)
Found(a, z, l) == [i \in 1..8 |-> IF i <= Fore(z) THEN a[i] ELSE a[(i - Fore(z)) + (z + l)]]

\* The state of the loop when m fields are read.
Reached(a, z, l, m) ==
    IF z = 8 \/ m < Fore(z) THEN <<2 * m + 1, Prefix(Found(a, z, l), m), -1>>
    ELSE <<Gap(z) + 2 * (m - Fore(z)) + 1, Prefix(Found(a, z, l), m), Fore(z)>>

\* The length of the text, by the fields.
LEMMA FieldNumbers ==
  ASSUME NEW a \in Parts, NEW z, NEW l, Shape(a, z, l)
  PROVE  /\ Fore(z) \in 1..8 /\ Count(z, l) \in 1..8 /\ (z # 8 => Count(z, l) < 8)
         /\ Fore(z) <= Count(z, l)
         /\ z # 8 => Count(z, l) = Fore(z) + (8 - z - l) /\ Fore(z) < 8
         /\ z = 8 => Count(z, l) = 8 /\ Printed(z, l, 8) = 15
         /\ z # 8 /\ z + l = 8 => Printed(z, l, 8) = Gap(z)
         /\ z # 8 /\ z + l < 8 => Printed(z, l, 8) = Gap(z) + 2 * (8 - z - l) - 1
         /\ \A m \in 1..Count(z, l) : Found(a, z, l)[m] \in 0..MaxPart
<1>1. z \in 0..8 /\ l \in 0..8 /\ z + l <= 8 /\ (z # 8 => z \in 0..6 /\ l \in 2..8)
  BY ShapeNumbers
<1>2. /\ Fore(z) \in 1..8 /\ Count(z, l) \in 1..8 /\ (z # 8 => Count(z, l) < 8)
      /\ Fore(z) <= Count(z, l)
      /\ z # 8 => Count(z, l) = Fore(z) + (8 - z - l) /\ Fore(z) < 8
      /\ z = 8 => Count(z, l) = 8 /\ Fore(z) = 8
  BY <1>1 DEF Fore, Count
<1>3. /\ z = 8 => Printed(z, l, 8) = 15
      /\ z # 8 /\ z + l = 8 => Printed(z, l, 8) = Gap(z)
      /\ z # 8 /\ z + l < 8 => Printed(z, l, 8) = Gap(z) + 2 * (8 - z - l) - 1
  <2>1. z # 8 => ~(8 <= z)
    BY <1>1
  <2>2. z + l = 8 => ~(z + l < 8) /\ 8 - z - l = 0
    BY <1>1
  <2>3. Gap(z) \in Int
    BY ShapeNumbers
  <2> QED
    BY <2>1, <2>2, <2>3 DEF Printed
<1>4. ASSUME NEW m \in 1..Count(z, l) PROVE Found(a, z, l)[m] \in 0..MaxPart
  <2>1. m \in 1..8 /\ (~(m <= Fore(z)) => (m - Fore(z)) + (z + l) \in 1..8)
    BY <1>1, <1>2
  <2> QED
    BY <2>1 DEF Found, Parts
<1> QED
  BY <1>2, <1>3, <1>4

\* What stands where field m + 1 begins, at position p, and behind it: of a text with
\* entries e up to n and the end of the "::" at g, which is read to the c fields f.
StandsAt(e, n, g, f, c, z, m, p) ==
    /\ p \in 1..n
    /\ z = 0 /\ m = 0 => f[m + 1] = 0 /\ p = 1 /\ g = 2 /\ e[1] = Colon /\ e[2] = Colon /\ 2 <= n
    /\ ~(z = 0 /\ m = 0) => e[p] = f[m + 1]
    /\ z # 0 /\ z # 8 /\ m + 1 = z =>
         p = 2 * z - 1 /\ g = 2 * z + 1 /\ g <= n /\ e[p + 1] = Colon /\ e[p + 2] = Colon
    /\ ~(z = 0 /\ m = 0) /\ ~(z # 8 /\ m + 1 = z) =>
         \/ p = n /\ m + 1 = c
         \/ p + 2 <= n /\ m + 1 < c /\ e[p + 1] = Colon /\ e[p + 2] = f[m + 2]

\* So it is of the text of an address.
LEMMA FieldAt ==
  ASSUME NEW a \in Parts, NEW z, NEW l, Shape(a, z, l), NEW m \in 0..7, m < Count(z, l)
  PROVE  StandsAt(Entries(a, z, l), Printed(z, l, 8), Gap(z), Found(a, z, l), Count(z, l), z, m,
                  Reached(a, z, l, m)[1])
<1> DEFINE e == Entries(a, z, l)  n == Printed(z, l, 8)  p == Reached(a, z, l, m)[1]
           g == Gap(z)  f == Found(a, z, l)  c == Count(z, l)  h == Fore(z)
<1>1. /\ z \in 0..8 /\ l \in 0..8 /\ z + l <= 8 /\ (z # 8 => z \in 0..6 /\ l \in 2..8)
      /\ g \in 2..17 /\ 2 * z <= g /\ g <= 2 * z + 2
      /\ (z # 0 => g = 2 * z + 1) /\ (z = 0 => g = 2)
  BY ShapeNumbers
<1>2. /\ h \in 1..8 /\ c \in 1..8 /\ (z # 8 => c < 8) /\ h <= c
      /\ z # 8 => c = h + (8 - z - l) /\ h < 8
      /\ z = 8 => c = 8 /\ n = 15
      /\ z # 8 /\ z + l = 8 => n = g
      /\ z # 8 /\ z + l < 8 => n = g + 2 * (8 - z - l) - 1
  BY FieldNumbers
<1>3. (z = 0 => h = 1) /\ (z # 0 => h = z)
  BY DEF Fore
<1>4. \A i \in 1..8 : f[i] = IF i <= h THEN a[i] ELSE a[(i - h) + (z + l)]
  BY DEF Found
<1>5. p = IF z = 8 \/ m < h THEN 2 * m + 1 ELSE g + 2 * (m - h) + 1
  BY DEF Reached
<1>6. \A j \in 0..7 : j < z => e[2 * j + 1] = a[j + 1] /\ e[2 * j + 2] = Colon
  BY EntriesLeft
<1>7. z # 8 => \A j \in 0..7 : z + l + j < 8 => e[g + 2 * j + 1] = a[z + l + j + 1] /\ e[g + 2 * j + 2] = Colon
  BY EntriesRight
<1>8. z # 8 => \A i \in 1..16 : 2 * z < i /\ i <= g => e[i] = Colon
  BY EntriesGap
<1>9. z = 0 => a[1] = 0
  BY DEF Shape, IsRun
<1>10. m < c
  OBVIOUS
<1> HIDE DEF e, n, p, g, f, c, h
<1> SUFFICES StandsAt(e, n, g, f, c, z, m, p)
  BY DEF e, n, p, g, f, c
<1> USE DEF StandsAt
<1>11. CASE z = 0 /\ m = 0
  <2>1. p = 1 /\ h = 1 /\ g = 2 /\ z # 8 /\ m + 1 = 1
    BY <1>1, <1>3, <1>5, <1>11
  <2>2. e[1] = Colon /\ e[2] = Colon
    BY <1>8, <1>11, <2>1
  <2>3. f[m + 1] = 0
    BY <1>4, <1>9, <1>11, <2>1
  <2>4. 2 <= n /\ p \in 1..n
    BY <1>1, <1>2, <1>11, <2>1
  <2> QED
    BY <1>11, <2>1, <2>2, <2>3, <2>4
<1>12. CASE m < z
  <2>1. m < h /\ h = z /\ z # 0 /\ p = 2 * m + 1 /\ m + 1 \in 1..8 /\ m + 1 <= h
    BY <1>1, <1>3, <1>5, <1>12
  <2>2. e[p] = a[m + 1] /\ e[2 * m + 2] = Colon /\ f[m + 1] = a[m + 1]
    BY <1>4, <1>6, <1>12, <2>1
  <2>3. p + 1 = 2 * m + 2
    BY <2>1
  <2>4. p \in 1..n
    BY <1>1, <1>2, <1>12, <2>1
  <2>5. CASE z # 8 /\ m + 1 = z
    <3>1. p = 2 * z - 1 /\ g = 2 * z + 1 /\ g <= n /\ p + 2 = g /\ g \in 1..16 /\ 2 * z < g
      BY <1>1, <1>2, <2>1, <2>5
    <3>2. e[p + 2] = Colon
      BY <1>8, <2>5, <3>1
    <3> QED
      BY <2>1, <2>2, <2>3, <2>4, <2>5, <3>1, <3>2
  <2>6. CASE ~(z # 8 /\ m + 1 = z) /\ m # 7
    <3>1. m + 1 \in 0..7 /\ m + 1 < z /\ p + 2 = 2 * (m + 1) + 1 /\ m + 2 = (m + 1) + 1
      BY <1>1, <1>12, <2>1, <2>6
    <3>2. e[p + 2] = a[(m + 1) + 1]
      BY <1>6, <3>1
    <3>3. m + 2 \in 1..8 /\ m + 2 <= h
      BY <2>1, <3>1, <1>1
    <3>4. f[m + 2] = a[(m + 1) + 1]
      BY <1>4, <3>1, <3>3
    <3>5. p + 2 <= n /\ m + 1 < c
      BY <1>1, <1>2, <2>1, <3>1
    <3> QED
      BY <2>1, <2>2, <2>3, <2>4, <2>6, <3>2, <3>4, <3>5
  <2>7. CASE ~(z # 8 /\ m + 1 = z) /\ m = 7
    <3>1. z = 8 /\ p = n /\ m + 1 = c
      BY <1>1, <1>2, <1>12, <2>1, <2>7
    <3> QED
      BY <2>1, <2>2, <2>4, <2>7, <3>1
  <2> QED
    BY <2>5, <2>6, <2>7
<1>13. CASE ~(m < z) /\ ~(z = 0 /\ m = 0)
  <2> DEFINE j == m - h
  <2>1. z # 8 /\ ~(m < h) /\ m = h + j /\ j \in 0..7 /\ z + l + j < 8 /\ m + 1 # z
    BY <1>1, <1>2, <1>3, <1>10, <1>13
  <2> HIDE DEF j
  <2>2. p = g + 2 * j + 1
    BY <1>1, <1>2, <1>5, <2>1
  <2>3. e[p] = a[z + l + j + 1] /\ e[g + 2 * j + 2] = Colon
    BY <1>7, <2>1, <2>2
  <2>4. m + 1 \in 1..8 /\ ~(m + 1 <= h) /\ ((m + 1) - h) + (z + l) = z + l + j + 1
    BY <1>1, <1>2, <2>1
  <2>5. f[m + 1] = a[z + l + j + 1]
    BY <1>4, <2>4
  <2>6. p + 1 = g + 2 * j + 2 /\ p \in 1..n
    BY <1>1, <1>2, <2>1, <2>2
  <2>7. CASE z + l + j = 7
    <3>1. p = n /\ m + 1 = c
      BY <1>1, <1>2, <2>1, <2>2, <2>7
    <3> QED
      BY <1>13, <2>1, <2>3, <2>5, <2>6, <3>1
  <2>8. CASE z + l + j # 7
    <3>1. /\ j + 1 \in 0..7 /\ z + l + (j + 1) < 8 /\ p + 2 = g + 2 * (j + 1) + 1
          /\ p + 2 <= n /\ m + 1 < c
          /\ m + 2 \in 1..8 /\ ~(m + 2 <= h) /\ ((m + 2) - h) + (z + l) = z + l + (j + 1) + 1
      BY <1>1, <1>2, <2>1, <2>2, <2>8
    <3>2. e[p + 2] = a[z + l + (j + 1) + 1]
      BY <1>7, <2>1, <3>1
    <3>3. f[m + 2] = a[z + l + (j + 1) + 1]
      BY <1>4, <3>1
    <3> QED
      BY <1>13, <2>1, <2>3, <2>5, <2>6, <3>1, <3>2, <3>3
  <2> QED
    BY <2>7, <2>8
<1> HIDE DEF StandsAt
<1> QED
  BY <1>11, <1>12, <1>13

\* The fields so far are parts.
LEMMA FieldsSoFar ==
  ASSUME NEW a \in Parts, NEW z, NEW l, Shape(a, z, l), NEW m \in 0..Count(z, l)
  PROVE  LET s == Prefix(Found(a, z, l), m)
         IN  s \in Seq(0..MaxPart) /\ Len(s) = m
<1> DEFINE f == Found(a, z, l)
<1>1. Count(z, l) \in 1..8 /\ \A i \in 1..Count(z, l) : f[i] \in 0..MaxPart
  BY FieldNumbers
<1>2. m \in Nat /\ \A i \in 1..m : i \in 1..Count(z, l)
  BY <1>1
<1> HIDE DEF f
<1>3. [i \in 1..m |-> f[i]] \in [1..m -> 0..MaxPart]
  BY <1>1, <1>2
<1>4. Prefix(f, m) \in Seq(0..MaxPart)
  BY <1>2, <1>3, SeqDef DEF Prefix
<1>5. Len(Prefix(f, m)) = m
  BY <1>2, PrefixGrows
<1> QED
  BY <1>4, <1>5 DEF f

\* One pass of the loop of stoip6, from position p of a text of n entries.
StepIs(text, n, p, fields, cc) ==
    LET q == IF text[p] = Colon THEN p ELSE p + 1
        now == Append(fields, IF q = p THEN 0 ELSE text[p])
        double == q < n /\ text[q + 1] = Colon
        s == <<p, fields, cc>>
    IN  /\ p > n => Field(text)[s] = s
        /\ p <= n =>
             Field(text)[s] =
               IF \/ q # p /\ text[p] \notin 0..MaxPart
                  \/ Len(fields) = 8
                  \/ q <= n /\ text[q] # Colon
                  \/ double /\ cc # -1
                 THEN Error
                 ELSE IF double THEN <<q + 2, now, Len(now)>> ELSE <<q + 1, now, cc>>

\* So does the body of the loop.
LEMMA FieldStep ==
  ASSUME NEW text, Len(text) \in Nat, NEW p \in Nat, NEW fields \in Seq(0..MaxPart), NEW cc \in Int
  PROVE  StepIs(text, Len(text), p, fields, cc)
<1> DEFINE s == <<p, fields, cc>>
<1>1. s \in {Error} \cup (Nat \X Seq(0..MaxPart) \X Int) /\ s # Error
  BY DEF Error
<1>2. s[1] = p /\ s[2] = fields /\ s[3] = cc
  OBVIOUS
<1> HIDE DEF s
<1> DEFINE q == IF text[p] = Colon THEN p ELSE p + 1
           now == Append(fields, IF q = p THEN 0 ELSE text[p])
           double == q < Len(text) /\ text[q + 1] = Colon
           bad == \/ q # p /\ text[p] \notin 0..MaxPart
                  \/ Len(fields) = 8
                  \/ q <= Len(text) /\ text[q] # Colon
                  \/ double /\ cc # -1
<1>3. Field(text)[s] = IF s = Error \/ p > Len(text) THEN s ELSE IF bad THEN Error
                       ELSE IF double THEN <<q + 2, now, Len(now)>> ELSE <<q + 1, now, cc>>
  BY <1>1, <1>2 DEF Field
<1> HIDE DEF q, now, double, bad
<1>4. p > Len(text) => Field(text)[s] = s
  BY <1>3
<1>5. p <= Len(text) => Field(text)[s] = IF bad THEN Error
                          ELSE IF double THEN <<q + 2, now, Len(now)>> ELSE <<q + 1, now, cc>>
  BY <1>1, <1>3
<1> QED
  BY <1>4, <1>5 DEF StepIs, s, q, now, double, bad

\* A pass reads the next field.
LEMMA FieldPass ==
  ASSUME NEW a \in Parts, NEW z, NEW l, Shape(a, z, l), NEW m \in 0..7, m < Count(z, l)
  PROVE  Field(Prefix(Entries(a, z, l), Printed(z, l, 8)))[Reached(a, z, l, m)] = Reached(a, z, l, m + 1)
<1> DEFINE e == Entries(a, z, l)  n == Printed(z, l, 8)  g == Gap(z)  f == Found(a, z, l)
           c == Count(z, l)  h == Fore(z)  s == Reached(a, z, l, m)  p == s[1]  t == Prefix(e, n)
           F == Prefix(f, m)  cc == IF z = 8 \/ m < h THEN -1 ELSE h
<1>1. StandsAt(e, n, g, f, c, z, m, p)
  BY FieldAt
<1>2. /\ h \in 1..8 /\ c \in 1..8 /\ (z # 8 => c < 8) /\ h <= c
      /\ \A i \in 1..c : f[i] \in 0..MaxPart
  BY FieldNumbers
<1>3. (z = 0 => h = 1) /\ (z # 0 => h = z)
  BY DEF Fore
<1>4. z \in 0..8 /\ n \in 0..15 /\ g \in 2..17
  <2>1. 8 \in 0..8 /\ (8 <= z \/ 8 >= z + l) /\ z \in 0..8 /\ g \in 2..17
    BY ShapeNumbers
  <2> QED
    BY <2>1, PrefixIsText
<1>5. F \in Seq(0..MaxPart) /\ Len(F) = m /\ Append(F, f[m + 1]) = Prefix(f, m + 1)
  <2>1. m \in 0..c /\ m \in Nat
    BY <1>2
  <2>2. F \in Seq(0..MaxPart) /\ Len(F) = m
    BY <2>1, FieldsSoFar
  <2> HIDE DEF f
  <2>3. Append(F, f[m + 1]) = Prefix(f, m + 1)
    BY <2>1, PrefixGrows
  <2> QED
    BY <2>2, <2>3
<1>6. s = <<p, F, cc>> /\ p = (IF z = 8 \/ m < h THEN 2 * m + 1 ELSE g + 2 * (m - h) + 1)
  BY DEF Reached
<1>7. Reached(a, z, l, m + 1) = IF z = 8 \/ m + 1 < h
          THEN <<2 * (m + 1) + 1, Prefix(f, m + 1), -1>>
          ELSE <<g + 2 * ((m + 1) - h) + 1, Prefix(f, m + 1), h>>
  BY DEF Reached
<1>8. Len(t) = n /\ \A i \in 1..n : t[i] = e[i]
  BY <1>4, PrefixGrows DEF Prefix
<1>9. f[m + 1] \in 0..MaxPart /\ m + 1 \in 1..c /\ (m + 1 < c => f[m + 2] \in 0..MaxPart)
  <2>1. m + 1 \in 1..c /\ (m + 1 < c => m + 2 \in 1..c)
    BY <1>2
  <2> QED
    BY <1>2, <2>1
<1>10. Len(Append(F, f[m + 1])) = m + 1
  BY <1>5, <1>9
<1>11. \A x \in 0..MaxPart : x # Colon
  BY DEF Colon
<1>12. cc \in Int
  BY <1>2
<1> HIDE DEF e, n, g, f, c, h, s, p, t, F, cc
<1>13. p \in Nat /\ p \in 1..n
  BY <1>1, <1>4 DEF StandsAt
<1> DEFINE q == IF t[p] = Colon THEN p ELSE p + 1
           now == Append(F, IF q = p THEN 0 ELSE t[p])
           double == q < n /\ t[q + 1] = Colon
           bad == \/ q # p /\ t[p] \notin 0..MaxPart
                  \/ m = 8
                  \/ q <= n /\ t[q] # Colon
                  \/ double /\ cc # -1
<1>14. Field(t)[s] = IF bad THEN Error ELSE IF double THEN <<q + 2, now, Len(now)>> ELSE <<q + 1, now, cc>>
  <2>1. Len(t) \in Nat /\ p <= Len(t)
    BY <1>4, <1>8, <1>13
  <2> QED
    <3>1. StepIs(t, n, p, F, cc)
      BY <1>5, <1>8, <1>12, <1>13, <2>1, FieldStep
    <3>2. p <= n /\ Len(F) = m
      BY <1>5, <1>8, <2>1
    <3> QED
      BY <1>6, <3>1, <3>2 DEF StepIs
<1>15. CASE z = 0 /\ m = 0
  <2>1. f[m + 1] = 0 /\ p = 1 /\ g = 2 /\ t[1] = Colon /\ t[2] = Colon /\ 2 <= n
    BY <1>1, <1>4, <1>8, <1>15 DEF StandsAt
  <2>2. q = 1 /\ double /\ cc = -1 /\ ~bad
    <3>1. q = 1 /\ q + 1 = 2 /\ q < n
      BY <1>4, <2>1
    <3>2. cc = -1
      BY <1>2, <1>15 DEF cc
    <3> QED
      BY <1>15, <2>1, <3>1, <3>2
  <2>3. now = Append(F, f[m + 1])
    BY <2>1, <2>2
  <2> HIDE DEF q, now, double, bad
  <2>4. Field(t)[s] = <<3, Prefix(f, m + 1), 1>>
    BY <1>5, <1>10, <1>14, <1>15, <2>2, <2>3
  <2>5. Reached(a, z, l, m + 1) = <<3, Prefix(f, m + 1), 1>>
    BY <1>3, <1>7, <1>15, <2>1
  <2> QED
    BY <2>4, <2>5 DEF s, t, e, n
<1>16. CASE ~(z = 0 /\ m = 0)
  <2>1. t[p] = f[m + 1]
    BY <1>1, <1>8, <1>13, <1>16 DEF StandsAt
  <2>2. q = p + 1 /\ t[p] \in 0..MaxPart /\ q # p
    BY <1>9, <1>11, <1>13, <2>1
  <2>3. now = Append(F, f[m + 1])
    BY <2>1, <2>2
  <2>4. CASE z # 0 /\ z # 8 /\ m + 1 = z
    <3>1. p = 2 * z - 1 /\ g = 2 * z + 1 /\ g <= n /\ e[p + 1] = Colon /\ e[p + 2] = Colon
      BY <1>1, <2>4 DEF StandsAt
    <3>2. p + 1 \in 1..n /\ p + 2 \in 1..n /\ q + 1 = p + 2 /\ q < n
      BY <1>4, <1>13, <2>2, <3>1
    <3>3. t[q] = Colon /\ t[q + 1] = Colon
      BY <1>8, <2>2, <3>1, <3>2
    <3>4. cc = -1 /\ h = m + 1
      BY <1>3, <1>4, <2>4 DEF cc
    <3>5. double /\ ~bad
      BY <2>2, <3>2, <3>3, <3>4
    <3>6. q + 2 = g + 1 /\ g + 1 = g + 2 * ((m + 1) - h) + 1 /\ ~(m + 1 < h) /\ m + 1 = h
      BY <1>4, <2>2, <3>1, <3>4
    <3> HIDE DEF q, now, double, bad
    <3>7. Field(t)[s] = <<g + 1, Prefix(f, m + 1), h>>
      BY <1>5, <1>10, <1>14, <2>3, <3>5, <3>6
    <3>8. Reached(a, z, l, m + 1) = <<g + 1, Prefix(f, m + 1), h>>
      BY <1>7, <2>4, <3>6
    <3> QED
      BY <3>7, <3>8 DEF s, t, e, n
  <2>5. CASE ~(z # 8 /\ m + 1 = z)
    <3>1. \/ p = n /\ m + 1 = c
          \/ p + 2 <= n /\ m + 1 < c /\ e[p + 1] = Colon /\ e[p + 2] = f[m + 2]
      BY <1>1, <1>16, <2>5 DEF StandsAt
    <3>2. ~double /\ ~(q <= n /\ t[q] # Colon)
      <4>1. CASE p = n
        BY <1>4, <2>2, <4>1
      <4>2. CASE p + 2 <= n /\ m + 1 < c /\ e[p + 1] = Colon /\ e[p + 2] = f[m + 2]
        <5>1. p + 1 \in 1..n /\ p + 2 \in 1..n /\ q + 1 = p + 2
          BY <1>4, <1>13, <2>2, <4>2
        <5>2. t[q] = Colon /\ t[q + 1] = f[m + 2] /\ f[m + 2] # Colon
          BY <1>8, <1>9, <1>11, <2>2, <4>2, <5>1
        <5> QED
          BY <5>2
      <4> QED
        BY <3>1, <4>1, <4>2
    <3>3. ~bad
      BY <2>2, <3>2
    <3>4. q + 1 = p + 2
      BY <1>13, <2>2
    <3> HIDE DEF q, now, double, bad
    <3>5. Field(t)[s] = <<p + 2, Prefix(f, m + 1), cc>>
      BY <1>5, <1>14, <2>3, <3>2, <3>3, <3>4
    <3>6. Reached(a, z, l, m + 1) = <<p + 2, Prefix(f, m + 1), cc>>
      <4>1. CASE z = 8 \/ m < h
        <5>1. z = 8 \/ m + 1 < h
          BY <1>2, <1>3, <1>4, <1>16, <2>5, <4>1
        <5>2. p + 2 = 2 * (m + 1) + 1 /\ cc = -1
          BY <1>6, <4>1 DEF cc
        <5> QED
          BY <1>7, <5>1, <5>2
      <4>2. CASE ~(z = 8 \/ m < h)
        <5>1. ~(z = 8 \/ m + 1 < h) /\ p + 2 = g + 2 * ((m + 1) - h) + 1
          BY <1>2, <1>4, <1>6, <4>2
        <5>2. cc = h
          BY <4>2 DEF cc
        <5> QED
          BY <1>7, <5>1, <5>2
      <4> QED
        BY <4>1, <4>2
    <3> QED
      BY <3>5, <3>6 DEF s, t, e, n
  <2>6. z # 0 \/ m + 1 # z
    OBVIOUS
  <2> QED
    BY <2>4, <2>5, <2>6
<1> QED
  BY <1>15, <1>16

\* The loop ends with all the fields.
LEMMA AllFieldsRead ==
  ASSUME NEW a \in Parts, NEW z, NEW l, Shape(a, z, l)
  PROVE  Passes(Field(Prefix(Entries(a, z, l), Printed(z, l, 8))), <<1, <<>>, -1>>, 9)
           = Reached(a, z, l, Count(z, l))
<1> DEFINE n == Printed(z, l, 8)  t == Prefix(Entries(a, z, l), n)  c == Count(z, l)
           h == Fore(z)  g == Gap(z)
           M == [k \in Nat |-> {m \in 0..c : m = c \/ m >= k}]
           I == [k \in Nat |-> {Reached(a, z, l, m) : m \in M[k]}]
<1>1. /\ h \in 1..8 /\ c \in 1..8 /\ (z # 8 => c < 8) /\ h <= c
      /\ z # 8 => c = h + (8 - z - l)
      /\ z = 8 => c = 8 /\ n = 15
      /\ z # 8 /\ z + l = 8 => n = g
      /\ z # 8 /\ z + l < 8 => n = g + 2 * (8 - z - l) - 1
  BY FieldNumbers
<1>2. /\ z \in 0..8 /\ l \in 0..8 /\ z + l <= 8 /\ n \in 0..15 /\ g \in 2..17
  <2>1. 8 \in 0..8 /\ (8 <= z \/ 8 >= z + l) /\ z \in 0..8 /\ l \in 0..8 /\ z + l <= 8 /\ g \in 2..17
    BY ShapeNumbers
  <2> QED
    BY <2>1, PrefixIsText
<1>3. <<1, <<>>, -1>> \in I[0]
  <2>1. 0 \in M[0]
    BY <1>1
  <2>2. Reached(a, z, l, 0) = <<1, <<>>, -1>>
    <3>1. z = 8 \/ 0 < h
      BY <1>1
    <3> QED
      BY <3>1 DEF Reached, Prefix
  <2> QED
    BY <2>1, <2>2
<1>4. Field(t)[Reached(a, z, l, c)] = Reached(a, z, l, c)
  <2> DEFINE p == IF z = 8 THEN 17 ELSE g + 2 * (c - h) + 1
             F == Prefix(Found(a, z, l), c)  cc == IF z = 8 THEN -1 ELSE h
  <2>1. Reached(a, z, l, c) = <<p, F, cc>>
    BY <1>1 DEF Reached
  <2>2. p > n /\ p \in Nat
    BY <1>1, <1>2
  <2>3. F \in Seq(0..MaxPart) /\ cc \in Int
    <3>1. c \in 0..c
      BY <1>1
    <3> QED
      BY <1>1, <3>1, FieldsSoFar
  <2>4. Len(t) = n
    <3>1. n \in Nat
      BY <1>2
    <3> HIDE DEF n
    <3> QED
      BY <3>1, PrefixGrows
  <2> HIDE DEF p, F, cc, t, n
  <2>5. n \in Nat
    BY <1>2
  <2>6. StepIs(t, n, p, F, cc)
    BY <2>2, <2>3, <2>4, <2>5, FieldStep
  <2> QED
    BY <2>1, <2>2, <2>6 DEF StepIs
<1>5. ASSUME NEW k \in Nat, NEW s \in I[k] PROVE Field(t)[s] \in I[k + 1]
  <2>1. PICK m \in M[k] : s = Reached(a, z, l, m)
    OBVIOUS
  <2>2. CASE m = c
    <3>1. c \in M[k + 1]
      BY <1>1
    <3> QED
      BY <1>4, <2>1, <2>2, <3>1
  <2>3. CASE m # c
    <3>1. m \in 0..7 /\ m < c /\ m + 1 \in M[k + 1]
      BY <1>1, <2>1, <2>3
    <3>2. Field(t)[Reached(a, z, l, m)] = Reached(a, z, l, m + 1)
      BY <3>1, FieldPass
    <3> HIDE DEF t, M
    <3> QED
      BY <2>1, <3>1, <3>2
  <2> QED
    BY <2>2, <2>3
<1>6. \A m \in M[9] : m = c
  BY <1>1
<1> HIDE DEF t, I, M, c
<1>7. Passes(Field(t), <<1, <<>>, -1>>, 9) \in I[9]
  BY <1>3, <1>5, LoopRule
<1> QED
  BY <1>6, <1>7 DEF I, t, c

\* InsertZeros gives the address back.
LEMMA ZerosInserted ==
  ASSUME NEW a \in Parts, NEW z, NEW l, Shape(a, z, l)
  PROVE  InsertZeros(Prefix(Found(a, z, l), Count(z, l)), IF z = 8 THEN -1 ELSE Fore(z)) = a
<1> DEFINE c == Count(z, l)  h == Fore(z)  f == Found(a, z, l)  F == Prefix(f, c)
<1>1. /\ h \in 1..8 /\ c \in 1..8 /\ (z # 8 => c < 8) /\ h <= c
      /\ z # 8 => c = h + (8 - z - l)
      /\ z = 8 => c = 8
  BY FieldNumbers
<1>2. z \in 0..8 /\ l \in 0..8 /\ z + l <= 8 /\ (z # 8 => z \in 0..6 /\ l \in 2..8)
  BY ShapeNumbers
<1>3. (z = 0 => h = 1) /\ (z # 0 => h = z)
  BY DEF Fore
<1>4. \A i \in 1..8 : f[i] = IF i <= h THEN a[i] ELSE a[(i - h) + (z + l)]
  BY DEF Found
<1>5. z # 8 => \A i \in 1..8 : z < i /\ i <= z + l => a[i] = 0
  BY DEF Shape, IsRun
<1>6. F \in Seq(0..MaxPart) /\ Len(F) = c
  <2>1. c \in 0..c
    BY <1>1
  <2> QED
    BY <2>1, FieldsSoFar
<1>7. \A i \in 1..c : F[i] = f[i] /\ F[i] \in 0..MaxPart
  <2>1. \A i \in 1..c : F[i] = f[i]
    BY DEF Prefix
  <2> HIDE DEF F, c, f
  <2> QED
    BY <1>6, <2>1, ElementOfSeq
<1>8. a = Prefix(a, 8) /\ \A i \in 1..8 : a[i] \in 0..MaxPart
  BY DEF Parts, Prefix
<1> HIDE DEF c, h, f, F
<1>9. CASE z = 8
  <2>1. F = Prefix(a, 8)
    <3>1. \A i \in 1..8 : F[i] = a[i]
      BY <1>1, <1>3, <1>4, <1>7, <1>9
    <3>2. a \in Seq(0..MaxPart) /\ Len(a) = 8 /\ Len(F) = 8
      BY <1>1, <1>6, <1>9, PartsAreSeq
    <3>3. \A i \in 1..Len(F) : F[i] = a[i]
      BY <3>1, <3>2
    <3> QED
      BY <1>6, <1>8, <3>2, <3>3, SeqEqual
  <2> QED
    BY <1>1, <1>6, <1>8, <1>9, <2>1 DEF InsertZeros, F, f, c, h
<1>10. CASE z # 8
  <2> DEFINE A == SubSeq(F, 1, h)  Z == [i \in 1..(8 - c) |-> 0]  B == SubSeq(F, h + 1, c)
  <2>1. A = Prefix(a, h)
    <3>1. \A i \in 1..h : F[i] = a[i] /\ F[i] \in 0..MaxPart /\ a[i] \in 0..MaxPart
      BY <1>1, <1>4, <1>7, <1>8
    <3>2. A \in Seq(0..MaxPart) /\ Len(A) = h /\ \A i \in 1..h : A[i] = F[1 + i - 1]
      <4>1. 1 \in Int /\ h \in Int /\ 1 <= h /\ h - 1 + 1 = h
        BY <1>1
      <4> QED
        BY <3>1, <4>1, SubSeqProperties
    <3>3. \A i \in 1..h : A[i] = a[i]
      <4>1. \A i \in 1..h : 1 + i - 1 = i
        BY <1>1
      <4> QED
        BY <3>1, <3>2, <4>1
    <3>4. Prefix(a, h) \in Seq(0..MaxPart) /\ Len(Prefix(a, h)) = h /\ \A i \in 1..h : Prefix(a, h)[i] = a[i]
      <4>1. h \in Nat /\ Prefix(a, h) \in [1..h -> 0..MaxPart]
        BY <1>1, <3>1 DEF Prefix
      <4>2. Prefix(a, h) \in Seq(0..MaxPart)
        BY <4>1, SeqDef
      <4>3. Len(Prefix(a, h)) = h
        BY <4>1, PrefixGrows
      <4> QED
        BY <4>2, <4>3 DEF Prefix
    <3> HIDE DEF A
    <3> QED
      BY <3>2, <3>3, <3>4, SeqEqual
  <2>2. Z \in Seq(0..0) /\ Len(Z) = 8 - c /\ \A i \in 1..8 - c : Z[i] = a[h + i]
    <3>1. 8 - c \in Nat
      BY <1>1
    <3>2. ASSUME NEW i \in 1..8 - c PROVE a[h + i] = 0
      <4>1. h + i \in 1..8 /\ z < h + i /\ h + i <= z + l
        BY <1>1, <1>2, <1>3, <1>10
      <4> QED
        BY <1>5, <1>10, <4>1
    <3>3. Z \in Seq(0..0) /\ Len(Z) = 8 - c
      BY <3>1
    <3> QED
      BY <3>2, <3>3
  <2>3. B \in Seq(0..MaxPart) /\ Len(B) = c - h /\ \A i \in 1..c - h : B[i] = a[8 - c + h + i]
    <3>1. \A i \in h + 1..c : F[i] \in 0..MaxPart
      BY <1>1, <1>7
    <3>2. h + 1 \in Int /\ c \in Int /\ c - (h + 1) + 1 = c - h /\ (IF h + 1 <= c THEN c - (h + 1) + 1 ELSE 0) = c - h
      BY <1>1
    <3>3. B \in Seq(0..MaxPart) /\ Len(B) = c - h /\ \A i \in 1..c - h : B[i] = F[(h + 1) + i - 1]
      BY <3>1, <3>2, SubSeqProperties
    <3>4. ASSUME NEW i \in 1..c - h PROVE F[(h + 1) + i - 1] = a[8 - c + h + i]
      <4>1. (h + 1) + i - 1 = h + i /\ h + i \in 1..c /\ h + i \in 1..8 /\ ~(h + i <= h)
            /\ ((h + i) - h) + (z + l) = 8 - c + h + i
        BY <1>1, <1>2, <1>10
      <4>2. F[h + i] = f[h + i] /\ f[h + i] = a[((h + i) - h) + (z + l)]
        BY <1>4, <1>7, <4>1
      <4> QED
        BY <4>1, <4>2
    <3> QED
      BY <3>3, <3>4
  <2> HIDE DEF A, Z, B
  <2>4. A \o Z = Prefix(a, h + (8 - c))
    <3>1. h \in Nat /\ \A i \in 1..Len(Z) : Z[i] = a[h + i]
      BY <1>1, <2>2
    <3>2. Prefix(a, h) \o Z = Prefix(a, h + Len(Z))
      BY <2>2, <3>1, PrefixJoins
    <3> QED
      BY <2>1, <2>2, <3>2
  <2>5. Prefix(a, h + (8 - c)) \o B = Prefix(a, 8)
    <3> DEFINE k == h + (8 - c)
    <3>1. k \in Nat /\ k + (c - h) = 8 /\ \A i \in Nat : 8 - c + h + i = k + i
      BY <1>1
    <3>2. \A i \in 1..c - h : B[i] = a[k + i]
      BY <1>1, <2>3, <3>1
    <3> HIDE DEF k
    <3>3. \A i \in 1..Len(B) : B[i] = a[k + i]
      BY <2>3, <3>2
    <3>4. Prefix(a, k) \o B = Prefix(a, k + Len(B))
      <4>1. B \in Seq(0..MaxPart) /\ k \in Nat
        BY <2>3, <3>1
      <4> QED
        BY <3>3, <4>1, PrefixJoins
    <3>5. Prefix(a, k) \o B = Prefix(a, 8)
      BY <2>3, <3>1, <3>4
    <3> QED
      BY <3>5 DEF k
  <2>6. InsertZeros(F, h) = (A \o Z) \o B
    <3>1. h # -1
      BY <1>1
    <3> QED
      BY <1>6, <3>1 DEF InsertZeros, A, Z, B
  <2> QED
    BY <1>8, <1>10, <2>4, <2>5, <2>6 DEF F, f, c, h
<1> QED
  BY <1>9, <1>10

\* Groups do not touch.
LEMMA Apart ==
  ASSUME NEW a \in Parts, NEW z, NEW l, Shape(a, z, l), NEW i \in 1..15,
         z = 8 \/ (z + l < 8 /\ i < Gap(z) + 2 * (8 - z - l)) \/ i <= Gap(z)
  PROVE  Entries(a, z, l)[i] = Colon \/ Entries(a, z, l)[i + 1] = Colon
<1> DEFINE e == Entries(a, z, l)  g == Gap(z)
<1>1. /\ z \in 0..8 /\ l \in 0..8 /\ z + l <= 8 /\ (z # 8 => z \in 0..6 /\ l \in 2..8)
      /\ g \in 2..17 /\ 2 * z <= g /\ g <= 2 * z + 2
  BY ShapeNumbers
<1>2. z = 8 \/ (z + l < 8 /\ i < g + 2 * (8 - z - l)) \/ i <= g
  OBVIOUS
<1> HIDE DEF e, g
<1>3. CASE i <= 2 * z
  <2>1. PICK j \in 0..7 : i = 2 * j + 1 \/ i = 2 * j + 2
    OBVIOUS
  <2>2. j < z
    BY <1>1, <1>3, <2>1
  <2>3. e[2 * j + 2] = Colon
    BY <2>2, EntriesLeft DEF e
  <2>4. i = 2 * j + 2 \/ i + 1 = 2 * j + 2
    BY <2>1
  <2>5. e[i] = Colon \/ e[i + 1] = Colon
    BY <2>3, <2>4
  <2> QED
    BY <2>5 DEF e
<1>4. CASE ~(i <= 2 * z) /\ i <= g
  <2>1. z # 8 /\ 2 * z < i /\ i \in 1..16
    BY <1>1, <1>4
  <2>2. e[i] = Colon
    BY <1>4, <2>1, EntriesGap DEF e, g
  <2> QED
    BY <2>2 DEF e
<1>5. CASE ~(i <= 2 * z) /\ ~(i <= g)
  <2>1. z # 8 /\ i < g + 2 * (8 - z - l) /\ g < i
    BY <1>1, <1>2, <1>5
  <2>2. PICK j \in 0..7 : i - g = 2 * j + 1 \/ i - g = 2 * j + 2
    BY <1>1, <2>1
  <2>3. z + l + j < 8 /\ (i + 1 = g + 2 * j + 2 \/ i = g + 2 * j + 2)
    BY <1>1, <2>1, <2>2
  <2>4. e[g + 2 * j + 2] = Colon
    BY <2>1, <2>3, EntriesRight DEF e, g
  <2>5. e[i] = Colon \/ e[i + 1] = Colon
    BY <2>3, <2>4
  <2> QED
    BY <2>5 DEF e
<1> QED
  BY <1>3, <1>4, <1>5

\* So that there are at most eight.
LEMMA AtMostEight ==
  ASSUME NEW t, NEW n \in 0..15, NEW S, S \subseteq 1..n, \A i \in S : t[i] # Colon,
         \A i \in 1..n : i < n => t[i] = Colon \/ t[i + 1] = Colon
  PROVE  Cardinality(S) \in 0..8
<1> DEFINE f == [i \in S |-> (i + 1) \div 2]  m == 8
<1>0. m \in Nat /\ m = 8
  OBVIOUS
<1> HIDE DEF m
<1>1. ASSUME NEW i \in S PROVE i \in 1..15 /\ i <= n /\ (i + 1) \div 2 \in 1..m
  BY <1>0
<1>2. f \in [S -> 1..m]
  BY <1>1
<1>3. ASSUME NEW i \in S, NEW j \in S, (i + 1) \div 2 = (j + 1) \div 2, i < j PROVE FALSE
  <2>1. j = i + 1 /\ i < n /\ i \in 1..n
    BY <1>1, <1>3
  <2> QED
    BY <2>1
<1>4. ASSUME NEW i \in S, NEW j \in S, f[i] = f[j] PROVE i = j
  <2>1. i < j \/ j < i \/ i = j
    BY <1>1
  <2>2. (i + 1) \div 2 = (j + 1) \div 2
    BY <1>4
  <2> QED
    BY <1>3, <2>1, <2>2
<1>5. f \in Injection(S, 1..m)
  BY <1>2, <1>4 DEF Injection, IsInjective
<1>6. IsFiniteSet(1..m) /\ Cardinality(1..m) = m
  <2>1. m \in Nat
    BY <1>0
  <2> QED
    BY <2>1, FS_Interval
<1>7. IsFiniteSet(S) /\ Cardinality(S) <= 8
  BY <1>0, <1>5, <1>6, FS_Injection
<1> QED
  BY <1>7, FS_CardinalityType

\* The text of an address has at most 39 characters.
LEMMA ShortEnough ==
  ASSUME NEW a \in Parts, NEW z, NEW l, Shape(a, z, l)
  PROVE  ~(Chars(Prefix(Entries(a, z, l), Printed(z, l, 8))) >= 40)
<1> DEFINE e == Entries(a, z, l)  n == Printed(z, l, 8)  g == Gap(z)  t == Prefix(e, n)
<1>1. /\ z \in 0..8 /\ l \in 0..8 /\ z + l <= 8 /\ g \in 2..17
  BY ShapeNumbers
<1>2. n \in 0..15
  <2>1. 8 \in 0..8 /\ (8 <= z \/ 8 >= z + l)
    BY <1>1
  <2> QED
    BY <2>1, PrefixIsText
<1>3. z = 8 \/ (z # 8 /\ z + l = 8 /\ n = g) \/ (z # 8 /\ z + l < 8 /\ n = g + 2 * (8 - z - l) - 1)
  BY <1>1, FieldNumbers
<1>4. Len(t) = n /\ DOMAIN t = 1..n /\ \A i \in 1..n : t[i] = e[i]
  BY <1>2, PrefixGrows DEF Prefix
<1>5. ASSUME NEW i \in 1..n, i < n PROVE e[i] = Colon \/ e[i + 1] = Colon
  <2>1. i \in 1..15 /\ (z = 8 \/ (z + l < 8 /\ i < g + 2 * (8 - z - l)) \/ i <= g)
    BY <1>1, <1>2, <1>3, <1>5
  <2> QED
    BY <2>1, Apart
<1> HIDE DEF e, n, t
<1>6. \A i \in 1..n : i < n => t[i] = Colon \/ t[i + 1] = Colon
  <2>1. \A i \in 1..n : i < n => i + 1 \in 1..n
    BY <1>2
  <2> QED
    BY <1>4, <1>5, <2>1
<1>7. ASSUME NEW b \in Nat, b >= 16 PROVE Cardinality({i \in DOMAIN t : t[i] >= b}) \in 0..8
  <2> DEFINE S == {i \in DOMAIN t : t[i] >= b}
  <2>1. S \subseteq 1..n
    BY <1>4
  <2>2. \A i \in S : t[i] # Colon
    BY <1>7 DEF Colon
  <2> HIDE DEF S
  <2>3. Cardinality(S) \in 0..8
    BY <1>2, <1>6, <2>1, <2>2, AtMostEight
  <2> QED
    BY <2>3 DEF S
<1>8. /\ Cardinality({i \in DOMAIN t : t[i] >= 16}) \in 0..8
      /\ Cardinality({i \in DOMAIN t : t[i] >= 256}) \in 0..8
      /\ Cardinality({i \in DOMAIN t : t[i] >= 4096}) \in 0..8
  BY <1>7
<1> DEFINE N(b) == Cardinality({i \in DOMAIN t : t[i] >= b})
<1>9. Chars(t) = n + N(16) + N(256) + N(4096)
  BY <1>4 DEF Chars
<1>10. N(16) \in 0..8 /\ N(256) \in 0..8 /\ N(4096) \in 0..8
  BY <1>8
<1> HIDE DEF N
<1>11. ~(Chars(t) >= 40)
  BY <1>2, <1>9, <1>10
<1> QED
  BY <1>11 DEF t, e, n

\* stoip6 of the text of an address is the address; stoip4 refuses it.
THEOREM Ip6RoundTrip ==
  ASSUME NEW a \in Parts
  PROVE  stoip6(Canonical(a)) = a /\ stoip4(Canonical(a)) = Error
<1>1. PICK z, l : Shape(a, z, l) /\ Canonical(a) = Prefix(Entries(a, z, l), Printed(z, l, 8))
  BY CanonicalHasShape
<1> DEFINE t == Canonical(a)  s == Reached(a, z, l, Count(z, l))
<1>2. stoip4(t) = Error
  BY <1>1, NotIp4
<1>3. ~(Chars(t) >= 40)
  BY <1>1, ShortEnough
<1>4. Passes(Field(t), <<1, <<>>, -1>>, 9) = s
  BY <1>1, AllFieldsRead
<1>5. /\ s # Error /\ s[2] = Prefix(Found(a, z, l), Count(z, l))
      /\ s[3] = IF z = 8 THEN -1 ELSE Fore(z)
  <2>1. Fore(z) <= Count(z, l) /\ Fore(z) \in Int /\ Count(z, l) \in Int
    BY <1>1, FieldNumbers
  <2>2. ~(Count(z, l) < Fore(z))
    BY <2>1
  <2> QED
    BY <2>2 DEF Reached, Error
<1>6. InsertZeros(s[2], s[3]) = a
  BY <1>1, <1>5, ZerosInserted
<1> HIDE DEF t, s
<1>7. stoip6(t) = a
  BY <1>3, <1>4, <1>5, <1>6 DEF stoip6
<1> QED
  BY <1>2, <1>7 DEF t

-----------------------------------------------------------------------------
(* What the conversions yield.                                              *)

\* stoip4 of the text of an address is the address.
THEOREM Ip4RoundTrip ==
  ASSUME NEW a \in [1..4 -> 0..MaxByte]
  PROVE  ip4tos(a) \in Seq(Int) /\ stoip4(ip4tos(a)) = a
<1> DEFINE t == ip4tos(a)
<1>1. a[1] \in 0..MaxByte /\ a[2] \in 0..MaxByte /\ a[3] \in 0..MaxByte /\ a[4] \in 0..MaxByte
  OBVIOUS
<1>2. t = <<a[1], Dot, a[2], Dot, a[3], Dot, a[4]>>
  BY DEF ip4tos
<1>3. /\ Len(t) = 7 /\ t[2] = Dot /\ t[4] = Dot /\ t[6] = Dot
      /\ t[1] = a[1] /\ t[3] = a[2] /\ t[5] = a[3] /\ t[7] = a[4]
  BY <1>2
<1>4. t \in Seq(Int)
  BY <1>1, <1>2 DEF Dot
<1>5. <<a[1], a[2], a[3], a[4]>> = a
  <2>1. a = [i \in 1..4 |-> a[i]]
    OBVIOUS
  <2> QED
    BY <1>1, <2>1
<1> HIDE DEF t
<1>6. stoip4(t) = <<t[1], t[3], t[5], t[7]>>
  BY <1>1, <1>3 DEF stoip4
<1> QED
  BY <1>3, <1>4, <1>5, <1>6 DEF t

\* stoip4 yields an address, or fails.
LEMMA Ip4Yields ==
  ASSUME NEW text
  PROVE  stoip4(text) = Error \/ stoip4(text) \in [1..4 -> 0..MaxByte]
<1>1. CASE /\ Len(text) = 7
           /\ \A i \in {2, 4, 6} : text[i] = Dot
           /\ \A i \in {1, 3, 5, 7} : text[i] \in 0..MaxByte
  <2>1. stoip4(text) = <<text[1], text[3], text[5], text[7]>>
    BY <1>1 DEF stoip4
  <2>2. text[1] \in 0..MaxByte /\ text[3] \in 0..MaxByte /\ text[5] \in 0..MaxByte /\ text[7] \in 0..MaxByte
    BY <1>1
  <2> QED
    BY <2>1, <2>2
<1> QED
  BY <1>1 DEF stoip4

\* The states of the loop of stoip6: the "::" is among the fields read.
FieldState == {s \in Nat \X Seq(0..MaxPart) \X Int :
    Len(s[2]) <= 8 /\ (s[3] = -1 \/ (1 <= s[3] /\ s[3] <= Len(s[2])))}

\* The loop keeps to its states, whatever the text.
LEMMA FieldKeeps ==
  ASSUME NEW text \in Seq(Int), NEW s \in FieldState \cup {Error}
  PROVE  Field(text)[s] \in FieldState \cup {Error}
<1>1. CASE s = Error
  BY <1>1 DEF Field
<1>2. CASE s \in FieldState
  <2> DEFINE p == s[1]  F == s[2]  cc == s[3]  n == Len(text)
  <2>1. /\ p \in Nat /\ F \in Seq(0..MaxPart) /\ cc \in Int /\ s = <<p, F, cc>> /\ n \in Nat
        /\ Len(F) <= 8 /\ (cc = -1 \/ (1 <= cc /\ cc <= Len(F)))
    BY <1>2 DEF FieldState
  <2> HIDE DEF p, F, cc, n
  <2>2. StepIs(text, n, p, F, cc)
    BY <2>1, FieldStep DEF n
  <2> DEFINE q == IF text[p] = Colon THEN p ELSE p + 1
             x == IF q = p THEN 0 ELSE text[p]
             now == Append(F, x)
             double == q < n /\ text[q + 1] = Colon
             bad == \/ q # p /\ text[p] \notin 0..MaxPart
                    \/ Len(F) = 8
                    \/ q <= n /\ text[q] # Colon
                    \/ double /\ cc # -1
             r == Field(text)[s]
  <2>3. CASE p > n
    BY <1>2, <2>1, <2>2, <2>3 DEF StepIs
  <2>4. CASE ~(p > n)
    <3>1. r = IF bad THEN Error ELSE IF double THEN <<q + 2, now, Len(now)>> ELSE <<q + 1, now, cc>>
      <4>1. p <= n
        BY <2>1, <2>4
      <4> QED
        BY <2>1, <2>2, <4>1 DEF StepIs
    <3>2. q \in Nat
      BY <2>1
    <3>3. CASE bad
      BY <3>1, <3>3
    <3>4. CASE ~bad
      <4>1. 0 \in 0..MaxPart
        BY DEF MaxPart
      <4>2. x \in 0..MaxPart /\ Len(F) # 8
        BY <3>4, <4>1
      <4> HIDE DEF x
      <4>3. now \in Seq(0..MaxPart) /\ Len(now) = Len(F) + 1 /\ Len(now) \in Nat
        BY <2>1, <4>2
      <4>4. Len(now) <= 8
        <5> DEFINE c == Len(F)  d == Len(now)
        <5>1. c \in Nat /\ c <= 8 /\ c # 8 /\ d = c + 1
          BY <2>1, <4>2, <4>3
        <5> HIDE DEF c, d
        <5>2. d <= 8
          BY <5>1
        <5> QED
          BY <5>2 DEF d
      <4> HIDE DEF q, now, double, bad, r
      <4>5. CASE double
        <5>1. <<q + 2, now, Len(now)>> \in FieldState
          BY <2>1, <3>2, <4>3, <4>4 DEF FieldState
        <5> QED
          BY <3>1, <3>4, <4>5, <5>1 DEF r
      <4>6. CASE ~double
        <5>1. q + 1 \in Nat /\ (cc = -1 \/ (1 <= cc /\ cc <= Len(now)))
          BY <2>1, <3>2, <4>3
        <5>2. <<q + 1, now, cc>> \in FieldState
          BY <2>1, <4>3, <4>4, <5>1 DEF FieldState
        <5> QED
          BY <3>1, <3>4, <4>6, <5>2 DEF r
      <4> QED
        BY <4>5, <4>6
    <3> QED
      BY <3>3, <3>4
  <2> QED
    BY <2>3, <2>4
<1> QED
  BY <1>1, <1>2

\* stoip6 yields an address of eight parts, or fails, whatever the text.
THEOREM Ip6Yields ==
  ASSUME NEW text \in Seq(Int)
  PROVE  stoip6(text) = Error \/ stoip6(text) \in Parts
<1> DEFINE f == Field(text)  s == Passes(f, <<1, <<>>, -1>>, 9)  F == s[2]  cc == s[3]  n == Len(F)
           I == [k \in Nat |-> FieldState \cup {Error}]
<1>1. <<1, <<>>, -1>> \in I[0]
  <2> DEFINE start == <<1, <<>>, -1>>
  <2>1. /\ start[1] = 1 /\ start[2] = <<>> /\ start[3] = -1
        /\ 1 \in Nat /\ -1 \in Int
        /\ <<>> \in Seq(0..MaxPart) /\ Len(<<>>) = 0
    OBVIOUS
  <2>2. start \in Nat \X Seq(0..MaxPart) \X Int
    BY <2>1
  <2>3. Len(start[2]) <= 8
    BY <2>1
  <2> HIDE DEF start
  <2>4. start \in FieldState
    BY <2>1, <2>2, <2>3 DEF FieldState
  <2> QED
    BY <2>4 DEF start
<1>2. ASSUME NEW k \in Nat, NEW x \in I[k] PROVE f[x] \in I[k + 1]
  BY FieldKeeps
<1> HIDE DEF f
<1>3. s \in I[9]
  <2> HIDE DEF I
  <2> QED
    BY <1>1, <1>2, LoopRule
<1>4. stoip6(text) = IF Chars(text) >= 40 \/ s = Error THEN Error ELSE InsertZeros(F, cc)
  BY DEF stoip6, f
<1> HIDE DEF s
<1>5. CASE s \in FieldState
  <2>1. /\ F \in Seq(0..MaxPart) /\ n \in Nat /\ n <= 8 /\ cc \in Int
        /\ cc = -1 \/ (1 <= cc /\ cc <= n)
    BY <1>5 DEF FieldState
  <2> HIDE DEF F, cc
  <2>2. ASSUME NEW t \in Seq(0..MaxPart), Len(t) = 8 PROVE t \in Parts
    BY <2>2, LenProperties DEF Parts
  <2>3. CASE cc = -1
    <3>1. InsertZeros(F, cc) = IF n = 8 THEN F ELSE Error
      BY <2>3 DEF InsertZeros
    <3> QED
      BY <1>4, <2>1, <2>2, <3>1
  <2>4. CASE cc # -1
    <3> DEFINE A == SubSeq(F, 1, cc)  Z == [i \in 1..(8 - n) |-> 0]  B == SubSeq(F, cc + 1, n)
    <3>0. \A i \in 1..n : F[i] \in 0..MaxPart
      BY <2>1, ElementOfSeq
    <3> HIDE DEF n
    <3>1. A \in Seq(0..MaxPart) /\ Len(A) = cc
      <4>1. /\ 1 \in Int /\ cc \in Int /\ (IF 1 <= cc THEN cc - 1 + 1 ELSE 0) = cc
            /\ \A i \in 1..cc : F[i] \in 0..MaxPart
        BY <2>1, <2>4, <3>0
      <4> QED
        BY <4>1, SubSeqProperties
    <3>2. B \in Seq(0..MaxPart) /\ Len(B) = n - cc
      <4>1. /\ cc + 1 \in Int /\ n \in Int /\ (IF cc + 1 <= n THEN n - (cc + 1) + 1 ELSE 0) = n - cc
            /\ \A i \in cc + 1..n : F[i] \in 0..MaxPart
        BY <2>1, <2>4, <3>0
      <4> QED
        BY <4>1, SubSeqProperties
    <3>3. Z \in Seq(0..MaxPart) /\ Len(Z) = 8 - n
      <4> DEFINE k == 8 - n
      <4>0. 0 \in 0..MaxPart
        BY DEF MaxPart
      <4>1. k \in Nat /\ 0 \in 0..MaxPart
        BY <2>1, <4>0
      <4> HIDE DEF k
      <4>2. Z = [i \in 1..k |-> 0]
        BY DEF k
      <4> HIDE DEF Z
      <4>3. Z \in [1..k -> 0..MaxPart]
        BY <4>1, <4>2
      <4>4. Z \in Seq(0..MaxPart)
        <5> DEFINE S == 0..MaxPart
        <5>1. k \in Nat /\ Z \in [1..k -> S]
          BY <4>1, <4>3
        <5> HIDE DEF S
        <5>2. Z \in UNION {[1..j -> S] : j \in Nat}
          BY <5>1
        <5>3. Z \in Seq(S)
          BY <5>2, SeqDef
        <5> QED
          BY <5>3 DEF S
      <4>5. Len(Z) = k
        BY <4>1, <4>3, <4>4, LenProperties
      <4> QED
        BY <4>4, <4>5 DEF k
    <3>4. InsertZeros(F, cc) = (A \o Z) \o B
      BY <2>4 DEF InsertZeros, n
    <3> HIDE DEF A, B, Z
    <3>5. (A \o Z) \in Seq(0..MaxPart) /\ Len(A \o Z) = cc + (8 - n)
      BY <3>1, <3>3, ConcatProperties
    <3> DEFINE AZ == A \o Z
    <3>6. AZ \in Seq(0..MaxPart) /\ Len(AZ) = cc + (8 - n)
      BY <3>5
    <3> HIDE DEF AZ
    <3>7. (AZ \o B) \in Seq(0..MaxPart) /\ Len(AZ \o B) = Len(AZ) + Len(B)
      BY <3>2, <3>6, ConcatProperties
    <3>8. (cc + (8 - n)) + (n - cc) = 8
      BY <2>1
    <3>9. InsertZeros(F, cc) = AZ \o B
      BY <3>4 DEF AZ
    <3> QED
      BY <1>4, <2>2, <3>2, <3>6, <3>7, <3>8, <3>9
  <2> QED
    BY <2>3, <2>4
<1>6. CASE s = Error
  BY <1>4, <1>6
<1> QED
  BY <1>3, <1>5, <1>6

\* ip6tos yields a text, whatever fits.
LEMMA Ip6Text ==
  ASSUME NEW a \in Parts, NEW size
  PROVE  ip6tos(a, size) \in Seq(Int)
<1> DEFINE run == ZeroRun(a)  f == Printing(a, run, size)  I == [k \in Nat |-> PrintState]
<1>0. \A x \in 0..8, y \in Seq(Int) : <<x, y>> \in PrintState
  BY DEF PrintState
<1>1. \E z, l : Shape(a, z, l) /\ Leaves(run, z, l)
  BY CanonicalHasShape
<1>2. PICK z, l : Shape(a, z, l) /\ Leaves(run, z, l)
  BY <1>1
<1>3. z \in 0..8 /\ l \in 0..8 /\ z + l <= 8
  BY <1>2, ShapeNumbers
<1> HIDE DEF run
<1>4. ASSUME NEW k \in Nat, NEW s \in I[k] PROVE f[s] \in I[k + 1]
  <2> DEFINE n == s[1]  t == s[2]
  <2>1. s \in PrintState /\ n \in 0..8 /\ t \in Seq(Int)
    BY DEF PrintState
  <2>2. f[s] = IF n = 8 THEN s
             ELSE IF n = run[1]
               THEN <<n + run[2], t \o (IF n = 0 THEN <<Colon, Colon>> ELSE <<Colon>>)>>
             ELSE IF ~Fits(a[n + 1], size) THEN <<8, Append(t, a[n + 1] \div 16)>>
             ELSE <<n + 1, t \o (IF n < 7 THEN <<a[n + 1], Colon>> ELSE <<a[n + 1]>>)>>
    BY <2>1 DEF Printing, PrintState
  <2> HIDE DEF n, t, f
  <2>3. f[s] \in PrintState
    <3>0. Colon \in Int
      BY DEF Colon
    <3>1. CASE n = 8
      BY <2>1, <2>2, <3>1
    <3>2. CASE n # 8 /\ n = run[1]
      <4> DEFINE u == IF n = 0 THEN <<Colon, Colon>> ELSE <<Colon>>
      <4>1. n + run[2] \in 0..8
        <5>1. run[1] # 255
          BY <2>1, <3>2
        <5>2. n = z /\ run[2] = l
          BY <1>2, <3>2, <5>1 DEF Leaves
        <5> QED
          BY <1>3, <5>2
      <4>2. u \in Seq(Int)
        BY <3>0
      <4> HIDE DEF u
      <4>3. t \o u \in Seq(Int)
        BY <2>1, <4>2
      <4>4. f[s] = <<n + run[2], t \o u>>
        BY <2>2, <3>2 DEF u
      <4> QED
        BY <1>0, <4>1, <4>3, <4>4
    <3>3. CASE n # 8 /\ n # run[1]
      <4> DEFINE x == a[n + 1]  u == IF n < 7 THEN <<x, Colon>> ELSE <<x>>
      <4>1. n + 1 \in 1..8
        BY <2>1, <3>3
      <4>2. x \in Int
        BY <4>1 DEF Parts
      <4> HIDE DEF x
      <4>3. u \in Seq(Int) /\ x \div 16 \in Int
        BY <3>0, <4>2
      <4>4. f[s] = IF ~Fits(x, size) THEN <<8, Append(t, x \div 16)>> ELSE <<n + 1, t \o u>>
        BY <2>2, <3>3 DEF x
      <4> HIDE DEF u
      <4>5. t \o u \in Seq(Int) /\ Append(t, x \div 16) \in Seq(Int)
        BY <2>1, <4>3
      <4>6. n + 1 \in 0..8 /\ 8 \in 0..8
        BY <4>1
      <4> QED
        BY <1>0, <4>4, <4>5, <4>6
    <3> QED
      BY <3>1, <3>2, <3>3
  <2> QED
    BY <2>3
<1>5. <<0, <<>>>> \in I[0]
  <2>1. 0 \in 0..8 /\ <<>> \in Seq(Int)
    OBVIOUS
  <2>2. <<0, <<>>>> \in PrintState
    BY <1>0, <2>1
  <2> QED
    BY <2>2
<1> HIDE DEF f
<1>6. Passes(f, <<0, <<>>>>, 8) \in I[8]
  <2> HIDE DEF I
  <2> QED
    BY <1>4, <1>5, LoopRule
<1>7. ip6tos(a, size) = Passes(f, <<0, <<>>>>, 8)[2]
  BY DEF ip6tos, f, run
<1> QED
  BY <1>6, <1>7 DEF PrintState
-----------------------------------------------------------------------------
(* The inductive invariant of DatagramSocket.                               *)

\* What DInv says of one object, p being the size of a pointer.
Object == [addr : IpAddress \cup {Null}, port : Port, text : Seq(Int)]
Kept(o, p) ==
    o.text # Null => /\ o.addr # Null
                     /\ o.text = IF Version(o.addr) = "v4" THEN ip4tos(o.addr) ELSE ip6tos(o.addr, p)

\* An address has four bytes or eight parts, and is not the failure of a conversion.
LEMMA AddressKinds ==
  /\ \A a \in [1..4 -> 0..MaxByte] : Len(a) = 4 /\ a # Null /\ Version(a) = "v4"
  /\ \A a \in Parts : Len(a) = 8 /\ a # Null /\ Version(a) = "v6"
  /\ IpAddress = [1..4 -> 0..MaxByte] \cup Parts
<1>1. ASSUME NEW a \in [1..4 -> 0..MaxByte] PROVE Len(a) = 4 /\ a # Null /\ Version(a) = "v4"
  <2>1. DOMAIN a = 1..4 /\ 4 \in Nat /\ a \in Seq(0..MaxByte)
    <3>1. 4 \in Nat
      OBVIOUS
    <3>2. a \in Seq(0..MaxByte)
      BY <3>1, SeqDef
    <3> QED
      BY <3>1, <3>2
  <2>2. Len(a) = 4
    BY <2>1, LenProperties
  <2>3. Len(Null) = 0
    BY DEF Null, Error
  <2> QED
    BY <2>2, <2>3 DEF Version
<1>2. ASSUME NEW a \in Parts PROVE Len(a) = 8 /\ a # Null /\ Version(a) = "v6"
  <2>1. Len(a) = 8
    BY PartsAreSeq
  <2>2. Len(Null) = 0
    BY DEF Null, Error
  <2>3. a # Null
    BY <2>1, <2>2
  <2> QED
    BY <2>1, <2>3 DEF Version
<1>3. IpAddress = [1..4 -> 0..MaxByte] \cup Parts
  BY DEF IpAddress, Parts
<1> QED
  BY <1>1, <1>2, <1>3

\* The text of an address is a text.
LEMMA TextIsText ==
  ASSUME NEW a \in IpAddress PROVE TextOf(a) \in Seq(Int)
<1>1. CASE a \in [1..4 -> 0..MaxByte]
  BY <1>1, AddressKinds, Ip4RoundTrip DEF TextOf
<1>2. CASE a \in Parts
  BY <1>2, AddressKinds, Ip6Text DEF TextOf
<1> QED
  BY <1>1, <1>2, AddressKinds

\* The invariant, object by object.
LEMMA DInvByObject ==
  DInv <=> /\ address \in Object /\ Kept(address, pointer)
           /\ _connected_udp_address \in Object /\ Kept(_connected_udp_address, pointer)
           /\ family \in Versions /\ pointer \in {4, 8} /\ stray = FALSE
<1>1. \A o : Kept(o, pointer) <=> (o.text # Null => o.addr # Null /\ o.text = TextOf(o.addr))
  BY DEF Kept, TextOf
<1> QED
  BY <1>1 DEF DInv, DTypeOK, OnlyPeerHeard, Objects, Object

\* The invariant of the next state, where the build's pointers keep their size.
LEMMA DInvNext ==
  ASSUME pointer' = pointer, family' = family, pointer \in {4, 8}, family \in Versions, stray' = FALSE,
         address' \in Object, Kept(address', pointer),
         _connected_udp_address' \in Object, Kept(_connected_udp_address', pointer)
  PROVE  DInv'
<1>1. \A o : Kept(o, pointer)' <=> Kept(o, pointer)
  BY DEF Kept
<1>2. (\A o : Kept(o, pointer) <=> (o.text # Null => o.addr # Null /\ o.text = TextOf(o.addr)))'
  BY DEF Kept, TextOf
<1>3. \A o : Kept(o, pointer) <=> (o.text # Null => o.addr # Null /\ o.text = TextOf(o.addr)')
  BY <1>1, <1>2 
<1>4. Objects' = {address', _connected_udp_address'}
  BY DEF Objects
<1> QED
  BY <1>2, <1>4 DEF DInv, DTypeOK, OnlyPeerHeard, Object, Kept, TextOf

\* set_addr drops the text.
LEMMA AddressSet ==
  ASSUME NEW o \in Object, NEW a \in IpAddress \cup {Null}, NEW port \in Port, NEW p
  PROVE  /\ set_addr(o, a) \in Object /\ Kept(set_addr(o, a), p)
         /\ [set_addr(o, a) EXCEPT !.port = port] \in Object
         /\ Kept([set_addr(o, a) EXCEPT !.port = port], p)
<1>1. Null \in Seq(Int)
  BY DEF Null, Error
<1> QED
  BY <1>1 DEF set_addr, Object, Kept

\* get_ip_address keeps a text that it made, or the one there was.
LEMMA TextMade ==
  ASSUME NEW o \in Object, Kept(o, pointer)
  PROVE  WithText(o) \in Object /\ Kept(WithText(o), pointer)
<1>1. CASE o.addr = Null \/ o.text # Null
  BY <1>1 DEF WithText
<1>2. CASE ~(o.addr = Null \/ o.text # Null)
  <2>1. o.addr \in IpAddress /\ o.addr # Null
    BY <1>2 DEF Object
  <2>2. TextOf(o.addr) \in Seq(Int)
    BY <2>1, TextIsText
  <2>3. WithText(o) = [o EXCEPT !.text = TextOf(o.addr)]
    BY <1>2 DEF WithText
  <2>4. WithText(o) \in Object
    BY <2>2, <2>3 DEF Object
  <2>5. WithText(o).addr = o.addr /\ WithText(o).text = TextOf(o.addr)
    BY <2>3 DEF Object
  <2> QED
    BY <2>1, <2>4, <2>5 DEF Kept, TextOf
<1> QED
  BY <1>1, <1>2

\* FirstStates no object has an address or a text.
LEMMA DInitial == DInit => DInv
<1>1. Null \in Seq(Int) /\ 0 \in Port
  BY DEF Null, Error, Port
<1>2. Empty \in Object /\ Kept(Empty, pointer)
  BY <1>1 DEF Empty, Object, Kept
<1> QED
  BY <1>2, DInvByObject DEF DInit

\* Every step keeps the invariant.
LEMMA DStep == DInv /\ [DNext]_dvars => DInv'
<1> SUFFICES ASSUME DInv, [DNext]_dvars PROVE DInv'
  OBVIOUS
<1> DEFINE peer == _connected_udp_address
<1>0. /\ address \in Object /\ Kept(address, pointer)
      /\ peer \in Object /\ Kept(peer, pointer)
      /\ family \in Versions /\ pointer \in {4, 8} /\ stray = FALSE
  BY DInvByObject
<1>10. 0 \in Port
  BY DEF Port
<1> USE DatagramSocketAssumption
<1> HIDE DEF peer
<1>1. ASSUME NEW text \in Texts, set_ip_address(text) PROVE DInv'
  <2> DEFINE v4 == stoip4(text)  a == IF v4 # Error THEN v4 ELSE stoip6(text)
  <2>1. text \in Seq(Int)
    OBVIOUS
  <2>2. a \in IpAddress \cup {Null}
    <3>1. v4 = Error \/ v4 \in [1..4 -> 0..MaxByte]
      BY Ip4Yields
    <3>2. stoip6(text) = Error \/ stoip6(text) \in Parts
      BY <2>1, Ip6Yields
    <3> QED
      BY <3>1, <3>2, AddressKinds DEF Null
  <2>3. address' = set_addr(address, a)
    BY <1>1 DEF set_ip_address, set_addr
  <2>4. UNCHANGED <<_connected_udp_address, family, pointer, stray>>
    BY <1>1 DEF set_ip_address
  <2> HIDE DEF a, v4
  <2> QED
    BY <1>0, <1>10, <2>2, <2>3, <2>4, AddressSet, DInvNext DEF peer
<1>2. ASSUME NEW a \in Addresses, set_ip_bytes(a) PROVE DInv'
  <2>1. a \in IpAddress \cup {Null}
    OBVIOUS
  <2> QED
    BY <1>0, <1>10, <1>2, <2>1, AddressSet, DInvNext DEF set_ip_bytes, peer
<1>3. ASSUME NEW q \in Peers, set_port(q[2]) PROVE DInv'
  <2>1. q[2] \in Port
    OBVIOUS
  <2>2. address' \in Object /\ Kept(address', pointer)
    BY <1>0, <1>3, <2>1 DEF set_port, Object, Kept
  <2> QED
    BY <1>0, <1>3, <2>2, DInvNext DEF set_port, peer
<1>4. CASE get_ip_address
  BY <1>0, <1>4, TextMade, DInvNext DEF get_ip_address, peer
<1>5. CASE sendto
  BY <1>0, <1>5, TextMade, DInvNext DEF sendto, peer
<1>6. CASE udp_send
  BY <1>0, <1>6, TextMade, DInvNext DEF udp_send, peer
<1>7. ASSUME NEW q \in Peers \cup {<<Null, 0>>}, udp_connect(q[1], q[2]) PROVE DInv'
  <2>1. q[1] \in IpAddress \cup {Null} /\ q[2] \in Port
    BY <1>10
  <2> QED
    BY <1>0, <1>7, <2>1, AddressSet, DInvNext DEF udp_connect, peer
<1>8. ASSUME NEW q \in Peers, NEW wanted \in BOOLEAN, recvfrom(q[1], q[2], wanted) PROVE DInv'
  <2>1. q[1] \in IpAddress \cup {Null} /\ q[2] \in Port
    OBVIOUS
  <2>2. NonZero(peer) => peer.port = q[2] /\ peer.addr = q[1]
    BY <1>8 DEF recvfrom, Filtered, Equal, peer
  <2>3. stray' = FALSE
    BY <1>0, <1>8, <2>2 DEF recvfrom, peer
  <2>4. address' \in Object /\ Kept(address', pointer)
    BY <1>0, <1>8, <2>1, AddressSet DEF recvfrom
  <2> QED
    BY <1>0, <1>8, <2>3, <2>4, DInvNext DEF recvfrom, peer
<1>9. CASE UNCHANGED dvars
  BY <1>0, <1>9, DInvNext DEF dvars, peer
<1> QED
  BY <1>1, <1>2, <1>3, <1>4, <1>5, <1>6, <1>7, <1>8, <1>9 DEF DNext

\* A kept text that was not cut reads back as the address.
LEMMA DInvSound == DInv => AddressesSound
<1> SUFFICES ASSUME DInv, NEW o \in Objects, o.text # Null, ~Cut(o)
             PROVE  \/ Version(o.addr) = "v4" /\ stoip4(o.text) = o.addr
                    \/ /\ Version(o.addr) = "v6"
                       /\ o.text = Canonical(o.addr)
                       /\ stoip4(o.text) = Error /\ stoip6(o.text) = o.addr
  BY DEF AddressesSound, TextFollowsAddress, DInv
<1> DEFINE a == o.addr
<1>1. a \in IpAddress /\ o.text = TextOf(a)
  BY DEF DInv, DTypeOK
<1>2. CASE a \in [1..4 -> 0..MaxByte]
  BY <1>1, <1>2, AddressKinds, Ip4RoundTrip DEF TextOf
<1>3. CASE a \in Parts
  <2>1. Version(a) = "v6" /\ o.text = ip6tos(a, pointer)
    BY <1>1, <1>3, AddressKinds DEF TextOf
  <2>2. \A i \in 1..8 : Fits(a[i], pointer)
    BY <2>1 DEF Cut
  <2>3. o.text = Canonical(a)
    BY <1>3, <2>1, <2>2, Ip6TextIsCanonical
  <2> QED
    BY <1>3, <2>1, <2>3, Ip6RoundTrip
<1> QED
  BY <1>1, <1>2, <1>3, AddressKinds

\* The state of the address objects has its type.
THEOREM DatagramTypes == DSpec => []DTypeOK
<1>1. DInv => DTypeOK
  BY DEF DInv
<1> QED
  BY <1>1, DInitial, DStep, PTL DEF DSpec

\* An address object says what it is, and a datagram comes from the host that the
\* socket is connected to.
THEOREM AddressesAreSound == DSpec => []AddressesSound
  BY DInitial, DStep, DInvSound, PTL DEF DSpec
=============================================================================
