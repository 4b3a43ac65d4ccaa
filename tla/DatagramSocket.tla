--------------------------- MODULE DatagramSocket ---------------------------
(***************************************************************************)
(* mbed-os-netsocket's SocketAddress and InternetDatagramSocket: an        *)
(* application's address object, the socket's _connected_udp_address, and  *)
(* the datagrams that arrive.  The socket is open and has its IoT socket   *)
(* (TcpSocket models how InternetSocket gets and loses it).  One thread    *)
(* uses the objects.                                                       *)
(***************************************************************************)
EXTENDS IpString

CONSTANTS Addresses,    \* IPv4 and IPv6 addresses
          Texts,        \* texts given to set_ip_address, addresses or not
          Peers         \* other hosts' sockets, <<address, port>>

Port == 0..65535
IpAddress == [1..4 -> 0..MaxByte] \cup [1..8 -> 0..MaxPart]

ASSUME DatagramSocketAssumption ==
    /\ Addresses \subseteq IpAddress
    /\ Texts \subseteq Seq(Int)
    /\ Peers \subseteq IpAddress \X Port

VARIABLES address,                 \* the application's SocketAddress
          _connected_udp_address,
          family,      \* _iot_socket_af_type
          pointer,     \* sizeof(char *) of the build
          stray        \* history: was a datagram of another host delivered?

dvars == <<address, _connected_udp_address, family, pointer, stray>>

Null == Error
Version(a) == IF a = Null THEN "UNSPEC" ELSE IF Len(a) = 4 THEN "v4" ELSE "v6"
Versions == {"v4", "v6"}
Empty == [addr |-> Null, port |-> 0, text |-> Null]
Objects == {address, _connected_udp_address}

DTypeOK ==
    /\ Objects \subseteq [addr : IpAddress \cup {Null}, port : Port, text : Seq(Int)]
    /\ family \in Versions /\ pointer \in {4, 8} /\ stray \in BOOLEAN

DInit ==
    /\ address = Empty /\ _connected_udp_address = Empty
    /\ family \in Versions
    /\ pointer \in {4, 8}
    /\ stray = FALSE

-----------------------------------------------------------------------------
(* SocketAddress.                                                           *)
(* A definition Name_Slip, just above Name, is a plausible slip in the code *)
(* of Name: with it in Name's place the run must report a violation.        *)

\* set_addr: the cached text is dropped.
set_addr_Keeps(o, a) == [o EXCEPT !.addr = a]
set_addr(o, a) == [o EXCEPT !.addr = a, !.text = Null]

set_ip_address(text) ==
    LET v4 == stoip4(text)
        a  == IF v4 # Error THEN v4 ELSE stoip6(text)
    IN  /\ address' = [address EXCEPT !.addr = a, !.text = Null]
        /\ UNCHANGED <<_connected_udp_address, family, pointer, stray>>

set_ip_bytes(a) ==
    /\ address' = set_addr(address, a)
    /\ UNCHANGED <<_connected_udp_address, family, pointer, stray>>

set_port(port) ==
    /\ address' = [address EXCEPT !.port = port]
    /\ UNCHANGED <<_connected_udp_address, family, pointer, stray>>

\* get_ip_address: the text is made once and kept.
TextOf(a) == IF Version(a) = "v4" THEN ip4tos(a) ELSE ip6tos(a, pointer)
WithText(o) ==
    IF o.addr = Null \/ o.text # Null THEN o ELSE [o EXCEPT !.text = TextOf(o.addr)]
get_ip_address ==
    /\ address' = WithText(address)
    /\ UNCHANGED <<_connected_udp_address, family, pointer, stray>>

\* operator bool and operator==.
NonZero(o) == \E i \in DOMAIN o.addr : o.addr[i] # 0
Equal(o, a, port) ==
    \/ ~NonZero(o) /\ ~NonZero([addr |-> a])
    \/ Version(o.addr) = Version(a) /\ o.port = port /\ o.addr = a

-----------------------------------------------------------------------------
(* InternetDatagramSocket.                                                  *)

\* connect(address), the argument being an address object of its own.
udp_connect(a, port) ==
    /\ _connected_udp_address' = [set_addr(_connected_udp_address, a) EXCEPT !.port = port]
    /\ UNCHANGED <<address, family, pointer, stray>>

\* sendto, from send too.  verify_socket_type refuses the other family.  The IoT
\* layer is given the characters of the text where it takes the bytes of an
\* address; which host they name is not modelled.
verify_socket_type(version) == version \in {family, "UNSPEC"}
sendto ==
    /\ verify_socket_type(Version(address.addr))
    /\ address' = WithText(address)
    /\ UNCHANGED <<_connected_udp_address, family, pointer, stray>>
udp_send ==
    /\ NonZero(_connected_udp_address)        \* else NO_ADDRESS
    /\ verify_socket_type(Version(_connected_udp_address.addr))
    /\ _connected_udp_address' = WithText(_connected_udp_address)
    /\ UNCHANGED <<address, family, pointer, stray>>

\* recvfrom(&address), or recv: a datagram comes from the host a.  A datagram that
\* the filter refuses is reported as 0 bytes.
Filtered(a, port) ==
    /\ NonZero(_connected_udp_address)
    /\ ~Equal(_connected_udp_address, a, port)
recvfrom(a, port, wanted) ==
    /\ Version(a) = family
    /\ wanted => verify_socket_type(Version(address.addr))
    /\ ~Filtered(a, port)
    /\ stray' = (stray \/ LET peer == _connected_udp_address
                         IN  NonZero(peer) /\ <<peer.addr, peer.port>> # <<a, port>>)
    /\ address' = IF wanted THEN [set_addr(address, a) EXCEPT !.port = port] ELSE address
    /\ UNCHANGED <<_connected_udp_address, family, pointer>>

DNext ==
    \/ \E text \in Texts : set_ip_address(text)
    \/ \E a \in Addresses : set_ip_bytes(a)
    \/ \E p \in Peers : set_port(p[2])
    \/ get_ip_address \/ sendto \/ udp_send
    \/ \E p \in Peers \cup {<<Null, 0>>} : udp_connect(p[1], p[2])
    \/ \E p \in Peers, wanted \in BOOLEAN : recvfrom(p[1], p[2], wanted)

DSpec == DInit /\ [][DNext]_dvars

-----------------------------------------------------------------------------
(* Properties.                                                              *)

\* Some part of the address does not fit in the text of ip6tos (ip6tos.c:93).
Cut(o) == Version(o.addr) = "v6" /\ \E i \in 1..8 : ~Fits(o.addr[i], pointer)

\* The text of an address object is the text of the address it now has
\* (SocketAddress.cpp:72 keeps it): for IPv6 the one of RFC 5952, and set_ip_address
\* of it gives the address back.  On a build with 4-byte pointers that is not so
\* of an address with a part of four digits.
TextFollowsAddress ==
    \A o \in Objects :
        o.text # Null /\ ~Cut(o) =>
            \/ Version(o.addr) = "v4" /\ stoip4(o.text) = o.addr
            \/ /\ Version(o.addr) = "v6"
               /\ o.text = Canonical(o.addr)
               /\ stoip4(o.text) = Error /\ stoip6(o.text) = o.addr

\* "If socket is connected, only packets coming from connected peer address are
\* accepted" (InternetDatagramSocket.h): port included, and unless the address
\* connected is zero.
OnlyPeerHeard == ~stray

\* The inductive invariant: a text that is kept was made from the address.
DInv ==
    /\ DTypeOK /\ OnlyPeerHeard
    /\ \A o \in Objects : o.text # Null => o.addr # Null /\ o.text = TextOf(o.addr)

\* Both: an address object says what it is, and a datagram comes from where the
\* socket was connected to.
AddressesSound == TextFollowsAddress /\ OnlyPeerHeard
=============================================================================
