------------------------------ MODULE SocketIo ------------------------------
(***************************************************************************)
(* The Azure SDK's socket I/O adapter, socketio_openiot.c, on top of the   *)
(* single TCP connection object of tcpsocketconnection_openiot.c.  The SDK *)
(* calls the adapter from one thread; the error callback may close the     *)
(* instance that is being worked on.  IoT Socket (external) is a set of    *)
(* numbered sockets, the bytes accepted for sending and nondeterministic   *)
(* results.                                                                *)
(***************************************************************************)
EXTENDS Integers, Sequences, SequencesExt

CONSTANTS Instance,       \* SOCKET_IO_INSTANCEs
          MaxSockets,     \* sockets created in a behaviour
          MaxSends,       \* socketio_send calls in a behaviour
          Sizes,          \* sizes of the buffers given to socketio_send
          MaxSent         \* bytes handed to the network in a behaviour

NoInstance == "none"

ASSUME SocketIoAssumption ==
    /\ MaxSockets \in Nat /\ MaxSends \in Nat /\ MaxSent \in Nat
    /\ Sizes \subseteq Nat \ {0}
    /\ NoInstance \notin Instance

ESOCK == 0      \* IOT_SOCKET_ESOCK: no socket

VARIABLES
    io_state, tcp,         \* of each instance: IO_STATE, and connection held?
    pending,               \* of each instance: pending_io_list, the buffers
    id, isConnected,       \* openiot_tcp_socket, shared by all instances
    sockets,               \* IoT Socket: state of each socket created so far
    work, step,            \* the instance in socketio_dowork, and where it is
    sends,                 \* socketio_send calls so far
    accepted, sent,        \* history: bytes queued, bytes handed to the network
    errors,                \* history: on_io_error calls since the last open
    \* history: has a send taken only part of its buffer; has the connection
    \* object been given a second user, or survived a failed close?
    partial, shared,
    \* history: sockets that tcpsocketconnection_destroy could not close, and
    \* sockets replaced by the open of another instance while in use
    unclosed, displaced

conn == <<id, isConnected, sockets>>
lost == <<unclosed, displaced>>
records == <<sends, accepted, sent, errors, partial, shared, lost>>
io_vars == <<io_state, tcp, pending, conn, work, step, records>>

SocketStates == {"created", "connected", "closed"}
Byte == Nat \X Nat        \* the socketio_send call a byte belongs to, and its place

SocketIoTypeOK ==
    /\ io_state \in [Instance -> {"NULL", "CLOSED", "OPEN", "ERROR"}]
    /\ tcp \in [Instance -> BOOLEAN]
    /\ id \in 0..MaxSockets
    /\ isConnected \in BOOLEAN
    /\ sockets \in Seq(SocketStates)
    /\ work \in Instance \cup {NoInstance}
    /\ step \in {"idle", "send", "send_error", "receive", "receive_error"}
    /\ sends \in 0..MaxSends
    /\ pending \in [Instance -> Seq(Seq(Byte))]
    /\ accepted \in [Instance -> Seq(Byte)] /\ sent \in [Instance -> Seq(Byte)]
    /\ errors \in [Instance -> Nat]
    /\ partial \in BOOLEAN /\ shared \in BOOLEAN
    /\ unclosed \subseteq Nat /\ displaced \subseteq Nat

SocketIoInit ==
    /\ io_state = [i \in Instance |-> "NULL"]
    /\ tcp = [i \in Instance |-> FALSE]
    /\ pending = [i \in Instance |-> <<>>]
    /\ id = ESOCK
    /\ isConnected = FALSE
    /\ sockets = <<>>
    /\ work = NoInstance
    /\ step = "idle"
    /\ sends = 0
    /\ accepted = [i \in Instance |-> <<>>]
    /\ sent = [i \in Instance |-> <<>>]
    /\ errors = [i \in Instance |-> 0]
    /\ partial = FALSE /\ shared = FALSE
    /\ unclosed = {} /\ displaced = {}

Store(f, i, v) == f' = [f EXCEPT ![i] = v]

\* The adapter is entered by the SDK, or again from its error callback.
Callable == step \in {"idle", "send_error", "receive_error"}

-----------------------------------------------------------------------------
(* tcpsocketconnection_openiot.c                                            *)

SocketUp == id # ESOCK /\ sockets[id] = "connected"

Held == {id} \ {ESOCK}

\* iotSocketClose may fail, and fails without a socket.
CloseResults == IF id = ESOCK THEN {FALSE} ELSE BOOLEAN

\* tcpsocketconnection_close then tcpsocketconnection_destroy.  A failed close
\* leaves both fields alone; the destroy that follows tries the close again
\* and resets only the id.
CloseAndDestroy(first, second) ==
    /\ sockets' = IF first \/ second THEN [sockets EXCEPT ![id] = "closed"] ELSE sockets
    /\ isConnected' = IF first THEN FALSE ELSE isConnected
    /\ id' = IF first \/ second THEN ESOCK ELSE id
    /\ shared' = (shared \/ ~first)
    /\ unclosed' = IF first \/ second THEN unclosed ELSE unclosed \cup Held
    /\ UNCHANGED displaced

-----------------------------------------------------------------------------
(* A definition Name_Slip, just above Name, is a plausible slip in the code *)
(* of Name: with it in Name's place the runs must report a violation.       *)

socketio_create(i) ==
    /\ step = "idle"
    /\ io_state[i] = "NULL"
    /\ Store(io_state, i, "CLOSED")
    /\ UNCHANGED <<tcp, pending, conn, work, step, records>>

\* close_tcp_connection, for an instance that is not closed.
close_tcp_connection(i) ==
    IF io_state[i] # "CLOSED" /\ tcp[i]
      THEN \E first, second \in CloseResults : CloseAndDestroy(first, second)
      ELSE UNCHANGED <<conn, shared, lost>>

\* Close, drop every pending buffer and free the instance.
socketio_destroy(i) ==
    /\ step = "idle"
    /\ io_state[i] # "NULL"
    /\ close_tcp_connection(i)
    /\ Store(io_state, i, "NULL")
    /\ Store(tcp, i, FALSE)
    /\ Store(pending, i, <<>>)
    /\ Store(accepted, i, <<>>)
    /\ Store(sent, i, <<>>)
    /\ UNCHANGED <<work, step, sends, errors, partial>>

\* tcpsocketconnection_create puts a new socket into the shared object, whatever
\* that holds; tcpsocketconnection_connect trusts isConnected.  When it fails,
\* tcpsocketconnection_destroy closes the new socket, or fails to.
NewSocket == Len(sockets) + 1
Connect == isConnected
FailedOpen_Leaks == "created"
FailedOpen == "closed"
socketio_open(i) ==
    /\ Callable
    /\ io_state[i] = "CLOSED"
    /\ Len(sockets) < MaxSockets
    /\ \/ /\ Connect
          /\ sockets' = Append(sockets, "created")
          /\ id' = NewSocket
          /\ UNCHANGED isConnected
          /\ Store(tcp, i, TRUE)
          /\ Store(io_state, i, "OPEN")
          /\ Store(errors, i, 0)
          /\ UNCHANGED unclosed
       \/ /\ ~Connect
          /\ sockets' = Append(sockets, "connected")
          /\ id' = NewSocket
          /\ isConnected' = TRUE
          /\ Store(tcp, i, TRUE)
          /\ Store(io_state, i, "OPEN")
          /\ Store(errors, i, 0)
          /\ UNCHANGED unclosed
       \/ /\ ~Connect         \* resolution or connection fails: destroy
          /\ sockets' = Append(sockets, FailedOpen)
          /\ id' = ESOCK
          /\ UNCHANGED <<isConnected, tcp, io_state, errors, unclosed>>
       \/ /\ ~Connect         \* and the close fails as well
          /\ sockets' = Append(sockets, "created")
          /\ id' = NewSocket
          /\ unclosed' = unclosed \cup {NewSocket}
          /\ UNCHANGED <<isConnected, tcp, io_state, errors>>
    /\ shared' = (shared \/ \E j \in Instance : tcp[j])
    /\ displaced' = IF \E j \in Instance : tcp[j] THEN displaced \cup Held ELSE displaced
    /\ UNCHANGED <<pending, work, step, sends, accepted, sent, partial>>

socketio_close(i) ==
    /\ Callable
    /\ io_state[i] \in {"OPEN", "ERROR"}
    /\ close_tcp_connection(i)
    /\ Store(tcp, i, FALSE)
    /\ Store(io_state, i, "CLOSED")
    /\ UNCHANGED <<pending, work, step, sends, accepted, sent, errors, partial>>

\* add_pending_io.  (on_send_complete is called here, and again when the buffer
\* has been sent.)
Buffer(n) == [k \in 1..n |-> <<sends, k>>]
AddPending_Front(i, b) == <<b>> \o pending[i]
AddPending(i, b) == Append(pending[i], b)
socketio_send(i, n) ==
    /\ Callable
    /\ io_state[i] = "OPEN"
    /\ sends < MaxSends
    /\ Store(pending, i, AddPending(i, Buffer(n)))
    /\ Store(accepted, i, accepted[i] \o Buffer(n))
    /\ sends' = sends + 1
    /\ UNCHANGED <<io_state, tcp, conn, work, step, sent, errors, partial, shared, lost>>

-----------------------------------------------------------------------------
(* socketio_dowork: send_queued_data, then retrieve_data.                   *)

socketio_dowork(i) ==
    /\ step = "idle"
    /\ io_state[i] = "OPEN"
    /\ work' = i
    /\ step' = "send"
    /\ UNCHANGED <<io_state, tcp, pending, conn, records>>

\* indicate_error: the error callback runs at step "callback"; without one the
\* code goes on at step "after".
AlreadyIndicated(i) == io_state[i] \in {"CLOSED", "ERROR"}
indicate_error(i, callback, after) ==
    IF AlreadyIndicated(i)
      THEN step' = after /\ UNCHANGED <<io_state, errors>>
      ELSE /\ Store(io_state, i, "ERROR")
           /\ Store(errors, i, errors[i] + 1)
           /\ step' = callback

\* What tcpsocketconnection_send and _receive need to reach the network.
Reachable(i) == tcp[i] /\ isConnected /\ SocketUp

\* "send something, wait for the rest": the unsent tail moves to the front and
\* the size stays.
Shift(b, k) == SubSeq(b, k + 1, Len(b)) \o SubSeq(b, Len(b) - k + 1, Len(b))

SendHead(k) ==
    LET b == Head(pending[work]) IN
    /\ step = "send"
    /\ pending[work] # <<>>
    /\ Reachable(work)
    /\ k \in 0..Len(b)
    /\ Len(sent[work]) + k <= MaxSent
    /\ Store(sent, work, sent[work] \o SubSeq(b, 1, k))
    /\ IF k = Len(b)
         THEN Store(pending, work, Tail(pending[work]))
         ELSE Store(pending, work, <<Shift(b, k)>> \o Tail(pending[work]))
    /\ partial' = (partial \/ k < Len(b))
    /\ UNCHANGED <<io_state, tcp, conn, work, step, sends, accepted, errors, shared, lost>>

SendFails ==
    /\ step = "send"
    /\ pending[work] # <<>>
    /\ indicate_error(work, "send_error", "receive")
    /\ UNCHANGED <<tcp, pending, conn, work, sends, accepted, sent, partial, shared, lost>>

QueueSent ==
    /\ step = "send"
    /\ pending[work] = <<>>
    /\ step' = "receive"
    /\ UNCHANGED <<io_state, tcp, pending, conn, work, records>>

\* The error callback is back.  An error met while sending is followed by
\* retrieve_data, one met while receiving ends socketio_dowork.
ErrorHandled ==
    /\ \/ step = "send_error" /\ step' = "receive" /\ UNCHANGED work
       \/ step = "receive_error" /\ step' = "idle" /\ work' = NoInstance
    /\ UNCHANGED <<io_state, tcp, pending, conn, records>>

\* Nothing to read (IOT_SOCKET_EAGAIN), or data was delivered and the
\* instance is not open any more: socketio_dowork returns.
ReceiveEnds ==
    /\ step = "receive"
    /\ Reachable(work) \/ io_state[work] # "OPEN"
    /\ step' = "idle"
    /\ work' = NoInstance
    /\ UNCHANGED <<io_state, tcp, pending, conn, records>>

\* The peer closed the connection, or the receive failed.
ReceiveFails ==
    /\ step = "receive"
    /\ indicate_error(work, "receive_error", "idle")
    /\ work' = IF step' = "idle" THEN NoInstance ELSE work
    /\ UNCHANGED <<tcp, pending, conn, sends, accepted, sent, partial, shared, lost>>

SocketIoNext ==
    \/ \E i \in Instance :
         \/ socketio_create(i) \/ socketio_destroy(i)
         \/ socketio_open(i) \/ socketio_close(i)
         \/ \E n \in Sizes : socketio_send(i, n)
         \/ socketio_dowork(i)
    \/ \E n \in Sizes : \E k \in 0..n : SendHead(k)
    \/ SendFails \/ QueueSent
    \/ ErrorHandled \/ ReceiveEnds \/ ReceiveFails

SocketIoSpec == SocketIoInit /\ [][SocketIoNext]_io_vars

-----------------------------------------------------------------------------
\* "send something, wait for the rest" (send_queued_data): the bytes handed to the
\* network are the bytes given to socketio_send, in order, none twice and none
\* left out, across errors, closes and reopenings.
SentIsPrefixOfAccepted == \A i \in Instance : IsPrefix(sent[i], accepted[i])

\* The same, as long as the network takes whole buffers.
WholeBuffersInOrder == partial \/ SentIsPrefixOfAccepted

\* An open instance talks through a connected socket: tcpsocketconnection_connect
\* answers "already connected" only when that is so.
OpenMeansConnected ==
    \A i \in Instance : io_state[i] = "OPEN" /\ work = NoInstance => SocketUp

\* The same, for an instance that has the connection object to itself and closes
\* without failing.
AloneMeansConnected == shared \/ OpenMeansConnected

\* Every socket that was created and not closed is the one in use, but for a socket
\* that tcpsocketconnection_destroy could not close and one that another instance's
\* open replaced while it was in use: no other sequence of failed opens, errors,
\* closes and destroys loses a socket.
NoSocketLeaked ==
    \A s \in DOMAIN sockets : sockets[s] # "closed" =>
        (s = id /\ \E i \in Instance : tcp[i]) \/ s \in unclosed \cup displaced

\* on_io_error is called at most once per open, however sending and receiving
\* fail within one socketio_dowork and across several.
ErrorIndicatedOnce ==
    \A i \in Instance : errors[i] <= 1 /\ (io_state[i] = "ERROR" => errors[i] = 1)

\* Over any sequence of opens, closes, errors and callbacks of two instances on the
\* one connection object: connected when open, no socket lost, one error per open.
InstancesSound == AloneMeansConnected /\ NoSocketLeaked /\ ErrorIndicatedOnce
=============================================================================
