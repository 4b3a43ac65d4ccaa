---------------------------- MODULE MCNetsocket -----------------------------
(* The socket library: a TCP socket with two threads and two IoT socket ids, *)
(* a TLS wrapper, or a datagram socket and its addresses.  They share       *)
(* nothing but the IoT layer, so that a behaviour is one of one of them.    *)
EXTENDS TcpSocket, TlsSocket, DatagramSocket

VARIABLE kind      \* whose the behaviour is

\* IPv6: every pattern with at most two runs of zero parts, and an address with
\* parts of four digits.
Starts(a) == {i \in 1..8 : a[i] = 0 /\ (i = 1 \/ a[i - 1] # 0)}
MCAddresses == {a \in [1..8 -> {0, 1}] : Cardinality(Starts(a)) <= 2}
               \cup {<<8193, 3512, 0, 0, 0, 0, 0, 1>>, <<127, 0, 0, 1>>}
MCPeers == {<<<<127, 0, 0, 1>>, 7>>, <<<<127, 0, 0, 1>>, 9>>,
            <<<<0, 0, 0, 0, 0, 0, 0, 1>>, 7>>}
\* "127.0.0.1", "2001:db8::1", "127.0.1", "256.0.0.1", "1::1::1", ":::1", ":1:...:1", and
\* eight fields and "::", in 17 and in 41 characters
C == -1
D == -2
MCTexts == {<<127, D, 0, D, 0, D, 1>>, <<8193, C, 3512, C, C, 1>>, <<127, D, 0, D, 1>>,
            <<256, D, 0, D, 0, D, 1>>, <<1, C, C, 1, C, C, 1>>, <<C, C, C, 1>>,
            <<C, 1, C, 1, C, 1, C, 1, C, 1, C, 1, C, 1>>}
           \cup {[i \in 1..17 |-> IF i % 2 = 1 /\ i < 16 THEN g ELSE C] : g \in {1, 4096}}

\* Those that are not used have one initial state.
MCInit ==
    /\ TcpInit /\ TlsInit /\ DInit
    /\ kind \in {"stream", "tls", "datagram"}
    /\ kind # "tls" => _connect_transport /\ _close_transport
    /\ kind # "datagram" => family = "v4" /\ pointer = 4
MCNext ==
    \/ kind = "stream" /\ TcpNext /\ UNCHANGED <<tlsvars, dvars, kind>>
    \/ kind = "tls" /\ TlsNext /\ UNCHANGED <<tcpvars, dvars, kind>>
    \/ kind = "datagram" /\ DNext /\ UNCHANGED <<tcpvars, tlsvars, kind>>
MCSpec == MCInit /\ [][MCNext]_<<tcpvars, tlsvars, dvars, kind>> /\ TcpFairness
=============================================================================
