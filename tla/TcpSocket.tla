----------------------------- MODULE TcpSocket -----------------------------
(***************************************************************************)
(* mbed-os-netsocket's InternetSocket and TCPSocket: one socket object,    *)
(* used by several threads, on the IoT Socket layer (external).  open()    *)
(* only marks the object; the IoT socket is created by the first call that *)
(* needs it (verify_socket_type).  A call is a few steps, call[t].at:      *)
(*                                                                         *)
(*   test -> verify -> load -> io     the members tested, the IoT socket   *)
(*                                    found or created under _socket_lock, *)
(*                                    its id read, the IoT call made       *)
(*   lock -> reset                    close, which keeps the lock          *)
(*   lock -> verify                   set_timeout, which keeps the lock    *)
(*                                                                         *)
(* Between two steps other threads run; the id read may be stale by then,  *)
(* and the IoT layer gives the id of a closed socket to the next one.      *)
(*                                                                         *)
(* _socket_lock is made by osMutexNew(NULL): a thread that takes it twice  *)
(* waits for itself.  That is what set_timeout does, so that no timeout is *)
(* ever set: _timeout keeps its osWaitForever, IoT sockets block, and the  *)
(* loop of send runs once.                                                 *)
(***************************************************************************)
EXTENDS Integers, FiniteSets

CONSTANTS Thread, Nobody,
          Id,            \* IoT socket ids
          Invalid,       \* IOT_SOCKET_ID_INVALID
          MaxTcpCalls    \* calls of each thread

ASSUME TcpSocketAssumption ==
    Nobody \notin Thread /\ Invalid \notin Id /\ MaxTcpCalls \in Nat

VARIABLES _socket_opened, _socket_id, _iot_socket_af_type,
          _socket_lock,    \* the thread that holds it, or Nobody
          connections,     \* the ids of the objects accept() has made
          iot,             \* whose each IoT socket is
          call,            \* the call each thread is in
          tcpcalls,        \* calls so far
          history

object == <<_socket_opened, _socket_id, _iot_socket_af_type>>
tcpvars == <<object, _socket_lock, connections, iot, call, tcpcalls, history>>

Families == {"v4", "v6"}
NoCall == [op |-> "none", arg |-> "none", at |-> "none", id |-> Invalid]
\* option: setsockopt and getsockopt; transfer: send and recv; query: listen and
\* getpeername.
Ops == {"open", "close", "bind", "connect", "option", "transfer", "query", "accept",
        "set_timeout"}

TcpTypeOK ==
    /\ _socket_opened \in BOOLEAN
    /\ _socket_id \in Id \cup {Invalid}
    /\ _iot_socket_af_type \in Families \cup {"none"}
    /\ _socket_lock \in Thread \cup {Nobody}
    /\ connections \subseteq Id
    /\ iot \in [Id -> {"free", "object", "accepted", "other"}]
    /\ call \in [Thread -> [op : Ops \cup {"none"}, arg : Families \cup {"none"},
                            at : {"none", "test", "verify", "load", "io", "lock", "reset"},
                            id : Id \cup {Invalid}]]
    /\ tcpcalls \in [Thread -> 0..MaxTcpCalls]
    /\ history \in [crossed : BOOLEAN, misdirected : BOOLEAN, unclosed : BOOLEAN]

\* What has happened, for the properties: crossed, a close came between
\* another call's load and its IoT call, or that load between the two steps of a
\* close; misdirected, such a call reached a socket of somebody else; unclosed,
\* iotSocketClose failed for an object that is gone.
NoHistory == [crossed |-> FALSE, misdirected |-> FALSE, unclosed |-> FALSE]

TcpInit ==
    /\ _socket_opened = FALSE
    /\ _socket_id = Invalid
    /\ _iot_socket_af_type = "none"
    /\ _socket_lock = Nobody
    /\ connections = {}
    /\ iot = [i \in Id |-> "free"]
    /\ call = [t \in Thread |-> NoCall]
    /\ tcpcalls = [t \in Thread |-> 0]
    /\ history = NoHistory

-----------------------------------------------------------------------------
(* A definition Name_Slip, just above Name, is a plausible slip in the code *)
(* of Name: with it in Name's place the runs must report a violation.       *)

At(t, op, at) == call[t].op = op /\ call[t].at = at
GoTo(t, at) == call' = [call EXCEPT ![t].at = at] /\ UNCHANGED tcpcalls
Returns(t) == call' = [call EXCEPT ![t] = NoCall] /\ UNCHANGED tcpcalls
Mark(flag, holds) == history' = [history EXCEPT ![flag] = @ \/ holds]

\* The IoT layer takes ids in a fixed order: the one it would use next, if any.
Fresh == LET free == {i \in Id : iot[i] = "free"}
         IN  IF free = {} THEN {} ELSE {CHOOSE i \in free : TRUE}

\* osMutexAcquire and osMutexRelease; a step between the two that nothing of the
\* unlocked code can look into is one with them.
LockFree == _socket_lock = Nobody
Locks(t) == LockFree /\ _socket_lock' = t
Unlocks_Not(t) == UNCHANGED _socket_lock
Unlocks(t) == _socket_lock = t /\ _socket_lock' = Nobody

\* Where a call of the object begins.
Entry(op) == CASE op \in {"open", "close", "set_timeout"} -> "lock"
               [] op = "option" -> "verify"
               [] OTHER -> "test"
Arguments(op) == CASE op = "open" -> Families
                   [] op \in {"bind", "connect"} -> Families \cup {"none"}
                   [] OTHER -> {"none"}
Invoke(t) ==
    /\ call[t] = NoCall
    /\ tcpcalls[t] < MaxTcpCalls
    /\ \E op \in Ops : \E arg \in Arguments(op) :
          call' = [call EXCEPT ![t] = [NoCall EXCEPT !.op = op, !.arg = arg, !.at = Entry(op)]]
    /\ tcpcalls' = [tcpcalls EXCEPT ![t] = @ + 1]
    /\ UNCHANGED <<object, _socket_lock, connections, iot, history>>

\* open(nsapi_socket_type).
open(t) ==
    /\ At(t, "open", "lock") /\ LockFree
    /\ LET fits == ~_socket_opened /\ _iot_socket_af_type \in {"none", call[t].arg}
       IN  IF fits THEN /\ _socket_opened' = TRUE
                        /\ _iot_socket_af_type' = call[t].arg
                        /\ UNCHANGED _socket_id
                   ELSE UNCHANGED object
    /\ Returns(t)
    /\ UNCHANGED <<_socket_lock, connections, iot, history>>

\* close(): the members are reset only if iotSocketClose succeeds, which it does
\* not for a socket that was never created, and need not otherwise.  The other
\* calls read _socket_id without the lock, between the two as well.
Crosses == \E u \in Thread : call[u].at = "io" /\ call[u].id = _socket_id
close(t) ==
    /\ At(t, "close", "lock")
    /\ \/ /\ LockFree
          /\ Returns(t)
          /\ UNCHANGED <<_socket_lock, iot, history>>
       \/ /\ _socket_id # Invalid
          /\ Locks(t)
          /\ iot' = [iot EXCEPT ![_socket_id] = "free"]
          /\ Mark("crossed", Crosses)
          /\ GoTo(t, "reset")
    /\ UNCHANGED <<object, connections>>
ForgetId == _socket_id' = Invalid
close_reset(t) ==
    /\ At(t, "close", "reset")
    /\ _socket_opened' = FALSE
    /\ ForgetId
    /\ _iot_socket_af_type' = "none"
    /\ Unlocks(t)
    /\ Returns(t)
    /\ UNCHANGED <<connections, iot, history>>

\* close() of an object that accept() made: it deletes itself, and its
\* destructor closes the IoT socket, whatever that returns.
close_accepted(i) ==
    /\ i \in connections
    /\ connections' = connections \ {i}
    /\ \/ iot' = [iot EXCEPT ![i] = "free"] /\ UNCHANGED history
       \/ Mark("unclosed", TRUE) /\ UNCHANGED iot
    /\ UNCHANGED <<object, _socket_lock, call, tcpcalls>>

-----------------------------------------------------------------------------
\* verify_socket_type(family), "none" for NSAPI_UNSPEC, with the lock held: the
\* object has an IoT socket of that family or gets one, or it is refused.
\* iotSocketCreate may run out of sockets.
Wanted(family) ==
    IF family # "none" THEN family
    ELSE IF _socket_opened THEN _iot_socket_af_type ELSE "v4"
Verified(family) ==
    /\ _socket_id # Invalid
    /\ Wanted(family) = _iot_socket_af_type
    /\ UNCHANGED <<_socket_id, _iot_socket_af_type, iot>>
Created(family) ==
    /\ _socket_id = Invalid
    /\ _socket_opened
    /\ _iot_socket_af_type' = Wanted(family)
    /\ \E i \in Fresh : /\ iot' = [iot EXCEPT ![i] = "object"]
                        /\ _socket_id' = i
Refused(family) ==
    /\ \/ /\ _socket_id # Invalid
          /\ Wanted(family) # _iot_socket_af_type
          /\ UNCHANGED _iot_socket_af_type
       \/ /\ _socket_id = Invalid
          /\ ~_socket_opened
          /\ UNCHANGED _iot_socket_af_type
       \/ /\ _socket_id = Invalid
          /\ _socket_opened
          /\ _iot_socket_af_type' = Wanted(family)
    /\ UNCHANGED <<_socket_id, iot>>

\* The first test of a call: bind and connect ask whether the object is open,
\* the others whether it has an IoT socket.
Test(t) ==
    /\ call[t].at = "test"
    /\ \/ call[t].op \in {"bind", "connect"} /\ _socket_opened /\ GoTo(t, "verify")
       \/ call[t].op \in {"bind", "connect"} /\ ~_socket_opened /\ Returns(t)
       \/ call[t].op \notin {"bind", "connect"} /\ _socket_id # Invalid /\ GoTo(t, "load")
       \/ call[t].op \notin {"bind", "connect"} /\ _socket_id = Invalid /\ Returns(t)
    /\ UNCHANGED <<object, _socket_lock, connections, iot, history>>

\* bind, connect, setsockopt and getsockopt.
Verify(t) ==
    /\ call[t].op \in {"bind", "connect", "option"} /\ call[t].at = "verify"
    /\ LockFree
    /\ \/ Verified(call[t].arg) /\ GoTo(t, "load")
       \/ Created(call[t].arg) /\ GoTo(t, "load")
       \/ Refused(call[t].arg) /\ Returns(t)
    /\ UNCHANGED <<_socket_opened, _socket_lock, connections, history>>

Load(t) ==
    /\ call[t].at = "load"
    /\ call' = [call EXCEPT ![t].at = "io", ![t].id = _socket_id]
    /\ Mark("crossed", \E u \in Thread : At(u, "close", "reset"))
    /\ UNCHANGED <<object, _socket_lock, connections, iot, tcpcalls>>

-----------------------------------------------------------------------------
\* The IoT call of every operation but accept, whatever comes of it.
Live(i) == i # Invalid /\ iot[i] # "free"
Misdirected(i) == Live(i) /\ iot[i] # "object"
Io(t) ==
    /\ call[t].at = "io"
    /\ call[t].op # "accept"
    /\ Returns(t)
    /\ Mark("misdirected", Misdirected(call[t].id))
    /\ UNCHANGED <<object, _socket_lock, connections, iot>>

\* accept(), which may fail; without memory for the new object the new IoT socket
\* is closed, if iotSocketClose does so.
Accepted(i) ==
    /\ iot' = [iot EXCEPT ![i] = "accepted"]
    /\ connections' = connections \cup {i}
NoMemory_Kept(i, closed) == iot' = [iot EXCEPT ![i] = "accepted"]
NoMemory(i, closed) == iot' = IF closed THEN iot ELSE [iot EXCEPT ![i] = "accepted"]
accept(t) ==
    /\ At(t, "accept", "io")
    /\ \E unclosed \in BOOLEAN :
          /\ \/ ~unclosed /\ UNCHANGED <<iot, connections>>
             \/ Live(call[t].id) /\ ~unclosed /\ \E i \in Fresh : Accepted(i)
             \/ /\ Live(call[t].id) /\ \E i \in Fresh : NoMemory(i, ~unclosed)
                /\ UNCHANGED connections
          /\ history' = [history EXCEPT !.misdirected = @ \/ Misdirected(call[t].id),
                                        !.unclosed = @ \/ unclosed]
    /\ Returns(t)
    /\ UNCHANGED <<object, _socket_lock>>

-----------------------------------------------------------------------------
\* set_timeout(timeout) takes the lock and lets the object look open; then
\* verify_socket_type takes the lock again, which never returns.
set_timeout(t) ==
    /\ At(t, "set_timeout", "lock")
    /\ Locks(t)
    /\ _socket_opened' = TRUE
    /\ GoTo(t, "verify")
    /\ UNCHANGED <<_socket_id, _iot_socket_af_type, connections, iot, history>>
Hangs(t) == At(t, "set_timeout", "verify")

\* Another part of the program opens or closes a socket of its own, with an id
\* that is free; one such socket at a time is enough to be met.
ForeignOpen(i) ==
    /\ \A j \in Id : iot[j] # "other"
    /\ i \in Fresh
    /\ iot' = [iot EXCEPT ![i] = "other"]
    /\ UNCHANGED <<object, _socket_lock, connections, call, tcpcalls, history>>
ForeignClose(i) ==
    /\ iot[i] = "other"
    /\ iot' = [iot EXCEPT ![i] = "free"]
    /\ UNCHANGED <<object, _socket_lock, connections, call, tcpcalls, history>>

\* One step of the call thread t is in.
TcpStep(t) ==
    \/ open(t) \/ close(t) \/ close_reset(t) \/ Test(t) \/ Verify(t) \/ Load(t) \/ Io(t)
    \/ accept(t) \/ set_timeout(t)
TcpEnv == \E i \in Id : close_accepted(i) \/ ForeignOpen(i) \/ ForeignClose(i)
TcpNext == TcpEnv \/ \E t \in Thread : Invoke(t) \/ TcpStep(t)

\* Every thread runs, and the IoT layer's calls return.
TcpFairness == \A t \in Thread : WF_tcpvars(TcpStep(t))
TcpSpec == TcpInit /\ [][TcpNext]_tcpvars /\ TcpFairness

-----------------------------------------------------------------------------
(* Properties.                                                              *)

\* An IoT call reaches a socket that belongs to somebody else only if another
\* thread closed the object around the moment the call read its id
\* (TCPSocket.cpp:68, :99, :134 read _socket_id without the lock).
StaleOnlyIfCrossed == history.misdirected => history.crossed

\* Every IoT socket the object or accept() created is still held by an object
\* that will close it, unless iotSocketClose itself failed for an object that
\* no longer exists (InternetSocket.cpp:14, TCPSocket.cpp:166).
NoIotSocketLeaked ==
    \A i \in Id :
        /\ iot[i] = "object" => i = _socket_id
        /\ iot[i] = "accepted" => i \in connections \/ history.unclosed

\* An IoT socket has exactly one user: the id an object keeps is its own, and no
\* socket is left without an object, however calls and closes cross.
IotSocketsOwned == StaleOnlyIfCrossed /\ NoIotSocketLeaked

\* Every call of the socket returns, on every path and with any crossing, unless
\* one that is in set_timeout keeps the lock (InternetSocket.cpp:123).
CallsReturn ==
    \A t \in Thread : call[t] # NoCall ~> call[t] = NoCall \/ \E u \in Thread : Hangs(u)

\* "Set timeout on blocking socket operations" (Socket.h:184): set_timeout
\* returns, whoever else uses the socket.  It never does: verify_socket_type
\* (InternetSocket.h:145) takes the lock its caller holds.
SetTimeoutReturns == \A t \in Thread : call[t].op = "set_timeout" ~> call[t] = NoCall
=============================================================================
