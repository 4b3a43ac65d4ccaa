--------------------------- MODULE LwipStackProofs ---------------------------
(***************************************************************************)
(* The lwIP port's safety, for any number of packets, frames and posted    *)
(* callbacks.  Three parts are inductive with the types: what the output   *)
(* path holds, what the input path has been told, and what the callbacks   *)
(* of the two contexts leave of the connection.                            *)
(***************************************************************************)
EXTENDS LwipStack, TLAPS

-----------------------------------------------------------------------------
(* The output path.                                                         *)

\* The packet in ethernetif_output, and the buffer not yet given to the EMAC.
Outputting(p) == out # Idle /\ out.buf[2] = p
Pending(b) == out # Idle /\ out.at = "prepared" /\ out.buf = b

\* A pbuf has the stack's reference during ethernetif_output and the EMAC's from
\* then until ethernetif_sent; a copy lives that long.  No buffer is given twice.
Handed(b) == Pending(b) \/ b \in sending \cup refused
Referenced ==
    \A p \in Packets :
        refs[p] = (IF Outputting(p) THEN 1 ELSE 0) + (IF Handed(<<"pbuf", p>>) THEN 1 ELSE 0)
Copied == \A p \in Packets : p \in copies <=> Handed(<<"copy", p>>)
HandedOnce ==
    /\ sending \cap refused = {}
    /\ \A b \in Buffers : Pending(b) => b \notin sending \cup refused
OutputInv == Referenced /\ Copied /\ HandedOnce

\* The status callback keeps the context's types, whatever it is called with.
LEMMA StatusTyped ==
  ASSUME NEW u, NEW l, NEW c \in Statuses, NEW a,
         ContextTypeOK, netif_status_irq(u, l, c, a)
  PROVE  ContextTypeOK'
<1>1. connected' \in Statuses
  BY DEF ContextTypeOK, netif_status_irq, set_dhcp, StatusesFor, Statuses,
         DISCONNECTED, CONNECTING, GLOBAL_UP, LOCAL_UP
<1>2. /\ dhcp_has_to_be_set' \in BOOLEAN /\ dhcp_started' \in BOOLEAN
      /\ told' \in {"nothing", "NETWORK_UP", "NETWORK_DOWN"}
  BY DEF ContextTypeOK, netif_status_irq, set_dhcp, DhcpDone
<1>3. has_any_addr' \in BOOLEAN
  BY DEF ContextTypeOK, netif_status_irq
<1> QED
  BY <1>1, <1>2, <1>3 DEF ContextTypeOK

\* So does netif_set_up or netif_set_down.
LEMMA SetUpTyped ==
  ASSUME NEW u \in BOOLEAN, NEW l, NEW c \in Statuses, ContextTypeOK, SetUp(u, l, c)
  PROVE  ContextTypeOK' /\ up' \in BOOLEAN
<1>1. CASE u # up
  BY <1>1, StatusTyped DEF SetUp
<1>2. CASE u = up
  BY <1>2 DEF SetUp, ContextTypeOK
<1> QED
  BY <1>1, <1>2 DEF SetUp

\* And the link callback.
LEMMA LinkIrqTyped ==
  ASSUME NEW l \in BOOLEAN, ContextTypeOK, netif_link_irq(l)
  PROVE  ContextTypeOK' /\ up' \in BOOLEAN
<1>1. connected \in Statuses /\ CONNECTING \in Statuses
  BY DEF ContextTypeOK, Statuses
<1>2. (IF up THEN LinkLost(connected) ELSE connected) \in Statuses
  BY <1>1 DEF LinkLost
<1> QED
  BY <1>1, <1>2, SetUpTyped DEF netif_link_irq

\* Context, interface and input: every action keeps their types.
LEMMA StateTyped ==
  ContextTypeOK /\ NetifTypeOK /\ InputTypeOK /\ [Next]_vars
    => ContextTypeOK' /\ NetifTypeOK' /\ InputTypeOK'
<1> SUFFICES ASSUME ContextTypeOK, NetifTypeOK, InputTypeOK, [Next]_vars
             PROVE  ContextTypeOK' /\ NetifTypeOK' /\ InputTypeOK'
  OBVIOUS
<1> USE LwipStackAssumption DEF context, netif, input, faults, emac, output
<1>1. CASE start_network_task
  <2>1. ContextTypeOK'
    BY <1>1 DEF start_network_task, ContextTypeOK
  <2>2. NetifTypeOK'
    BY <1>1 DEF start_network_task, NetifTypeOK
  <2>3. InputTypeOK'
    BY <1>1 DEF start_network_task, InputTypeOK
  <2> QED
    BY <2>1, <2>2, <2>3
<1>2. CASE ethernet_interface_init
  <2>1. ContextTypeOK'
    BY <1>2 DEF ethernet_interface_init, ContextTypeOK
  <2>2. NetifTypeOK'
    BY <1>2 DEF ethernet_interface_init, NetifTypeOK
  <2>3. InputTypeOK'
    BY <1>2 DEF ethernet_interface_init, InputTypeOK, ethernetif_init
  <2> QED
    BY <2>1, <2>2, <2>3
<1>3. CASE ethernet_interface_bringup
  <2>1. ContextTypeOK'
    BY <1>3 DEF ethernet_interface_bringup, ContextTypeOK, Statuses
  <2>2. NetifTypeOK'
    BY <1>3 DEF ethernet_interface_bringup, NetifTypeOK
  <2>3. InputTypeOK'
    BY <1>3 DEF ethernet_interface_bringup, InputTypeOK, NetifTypeOK
  <2> QED
    BY <2>1, <2>2, <2>3
<1>4. CASE AnnounceLink
  <2>1. ContextTypeOK'
    BY <1>4 DEF AnnounceLink, ContextTypeOK
  <2>2. NetifTypeOK'
    BY <1>4 DEF AnnounceLink, NetifTypeOK
  <2>3. InputTypeOK'
    BY <1>4 DEF AnnounceLink, InputTypeOK
  <2> QED
    BY <2>1, <2>2, <2>3
<1>5. CASE WaitForInput
  <2>1. ContextTypeOK'
    BY <1>5 DEF WaitForInput, ContextTypeOK
  <2>2. NetifTypeOK'
    BY <1>5 DEF WaitForInput, NetifTypeOK
  <2>3. InputTypeOK'
    BY <1>5 DEF WaitForInput, InputTypeOK
  <2> QED
    BY <2>1, <2>2, <2>3
<1>6. CASE Receive
  <2>1. ContextTypeOK'
    BY <1>6 DEF Receive, ContextTypeOK
  <2>2. NetifTypeOK'
    BY <1>6 DEF Receive, NetifTypeOK
  <2>3. InputTypeOK'
    <3>1. frames' \in 0..MaxFrames
      BY <1>6 DEF Receive, ReceiveFails, InputTypeOK
    <3>2. cut_short' \in BOOLEAN /\ task' \in {"wait", "input"}
      BY <1>6 DEF Receive, ReceiveFails, InputTypeOK
    <3> QED
      BY <1>6, <3>1, <3>2 DEF Receive, InputTypeOK
  <2> QED
    BY <2>1, <2>2, <2>3
<1>7. CASE Input
  <2>1. ContextTypeOK'
    BY <1>7 DEF Input, ContextTypeOK
  <2>2. NetifTypeOK'
    BY <1>7 DEF Input, NetifTypeOK
  <2>3. InputTypeOK'
    BY <1>7 DEF Input, InputTypeOK, AfterReceive
  <2> QED
    BY <2>1, <2>2, <2>3
<1>8. CASE NoPbuf
  <2>1. ContextTypeOK'
    BY <1>8 DEF NoPbuf, ContextTypeOK
  <2>2. NetifTypeOK'
    BY <1>8 DEF NoPbuf, NetifTypeOK
  <2>3. InputTypeOK'
    BY <1>8 DEF NoPbuf, InputTypeOK
  <2> QED
    BY <2>1, <2>2, <2>3
<1>9. CASE TcpipCallback
  <2> DEFINE l == Head(posted) = "up"
  <2>1. ContextTypeOK' /\ up' \in BOOLEAN
    <3>1. CASE l # link /\ added
      BY <1>9, <3>1, LinkIrqTyped DEF TcpipCallback
    <3>2. CASE ~(l # link /\ added)
      BY <1>9, <3>2 DEF TcpipCallback, ContextTypeOK, NetifTypeOK
    <3> QED
      BY <3>1, <3>2
  <2>2. NetifTypeOK'
    <3>1. link' \in BOOLEAN /\ addrs' \subseteq {"local", "global"} /\ cable' \in BOOLEAN
      BY <1>9 DEF TcpipCallback, NetifTypeOK
    <3>2. posted' \in Seq({"up", "down"}) /\ Len(posted') <= MaxPosted
      BY <1>9 DEF TcpipCallback, NetifTypeOK
    <3> QED
      BY <2>1, <3>1, <3>2 DEF NetifTypeOK
  <2>3. InputTypeOK'
    BY <1>9 DEF TcpipCallback, InputTypeOK
  <2> QED
    BY <2>1, <2>2, <2>3
<1>10. ASSUME NEW a \in {"local", "global"}, AddressAcquired(a) PROVE (ContextTypeOK /\ NetifTypeOK /\ InputTypeOK)'
  <2>1. ContextTypeOK'
    BY <1>10, StatusTyped DEF AddressAcquired, ContextTypeOK
  <2>2. NetifTypeOK'
    BY <1>10 DEF AddressAcquired, NetifTypeOK
  <2>3. InputTypeOK'
    BY <1>10 DEF AddressAcquired, InputTypeOK
  <2> QED
    BY <2>1, <2>2, <2>3
<1>11. ASSUME NEW a \in {"local", "global"}, AddressLost(a) PROVE (ContextTypeOK /\ NetifTypeOK /\ InputTypeOK)'
  <2>1. ContextTypeOK'
    BY <1>11, StatusTyped DEF AddressLost, ContextTypeOK
  <2>2. NetifTypeOK'
    BY <1>11 DEF AddressLost, NetifTypeOK
  <2>3. InputTypeOK'
    BY <1>11 DEF AddressLost, InputTypeOK
  <2> QED
    BY <2>1, <2>2, <2>3
<1>12. ASSUME NEW u \in BOOLEAN, ApplicationSets(u) PROVE (ContextTypeOK /\ NetifTypeOK /\ InputTypeOK)'
  <2>1. ContextTypeOK' /\ up' \in BOOLEAN
    BY <1>12, SetUpTyped DEF ApplicationSets, ContextTypeOK
  <2>2. NetifTypeOK'
    BY <1>12, <2>1 DEF ApplicationSets, NetifTypeOK
  <2>3. InputTypeOK'
    BY <1>12 DEF ApplicationSets, InputTypeOK
  <2> QED
    BY <2>1, <2>2, <2>3
<1>13. CASE ethernetif_input
  <2>1. ContextTypeOK'
    BY <1>13 DEF ethernetif_input, ContextTypeOK
  <2>2. NetifTypeOK'
    BY <1>13 DEF ethernetif_input, NetifTypeOK
  <2>3. InputTypeOK'
    BY <1>13 DEF ethernetif_input, InputTypeOK, signal_receive
  <2> QED
    BY <2>1, <2>2, <2>3
<1>14. CASE emac_state_change
  <2>1. ContextTypeOK'
    BY <1>14 DEF emac_state_change, ContextTypeOK
  <2>2. NetifTypeOK'
    BY <1>14 DEF emac_state_change, NetifTypeOK, InferredLink
  <2>3. InputTypeOK'
    BY <1>14 DEF emac_state_change, InputTypeOK
  <2> QED
    BY <2>1, <2>2, <2>3
<1>15. ASSUME NEW p \in Packets, Prepare(p) PROVE (ContextTypeOK /\ NetifTypeOK /\ InputTypeOK)'
  <2>1. ContextTypeOK'
    BY <1>15 DEF Prepare, ContextTypeOK
  <2>2. NetifTypeOK'
    BY <1>15 DEF Prepare, NetifTypeOK
  <2>3. InputTypeOK'
    BY <1>15 DEF Prepare, InputTypeOK
  <2> QED
    BY <2>1, <2>2, <2>3
<1>16. CASE Transmit
  <2>1. ContextTypeOK'
    BY <1>16 DEF Transmit, ContextTypeOK
  <2>2. NetifTypeOK'
    BY <1>16 DEF Transmit, NetifTypeOK
  <2>3. InputTypeOK'
    BY <1>16 DEF Transmit, InputTypeOK
  <2> QED
    BY <2>1, <2>2, <2>3
<1>17. CASE StackFrees
  <2>1. ContextTypeOK'
    BY <1>17 DEF StackFrees, ContextTypeOK
  <2>2. NetifTypeOK'
    BY <1>17 DEF StackFrees, NetifTypeOK
  <2>3. InputTypeOK'
    BY <1>17 DEF StackFrees, InputTypeOK
  <2> QED
    BY <2>1, <2>2, <2>3
<1>18. ASSUME NEW b \in Buffers, ethernetif_sent(b) PROVE (ContextTypeOK /\ NetifTypeOK /\ InputTypeOK)'
  <2>1. ContextTypeOK'
    BY <1>18 DEF ethernetif_sent, ContextTypeOK
  <2>2. NetifTypeOK'
    BY <1>18 DEF ethernetif_sent, NetifTypeOK
  <2>3. InputTypeOK'
    BY <1>18 DEF ethernetif_sent, InputTypeOK
  <2> QED
    BY <2>1, <2>2, <2>3
<1>19. CASE UNCHANGED vars
  BY <1>19 DEF vars, ContextTypeOK, NetifTypeOK, InputTypeOK
<1> QED
  BY <1>1, <1>2, <1>3, <1>4, <1>5, <1>6, <1>7, <1>8, <1>9, <1>10,
     <1>11, <1>12, <1>13, <1>14, <1>15, <1>16, <1>17, <1>18, <1>19
     DEF Next, Task

\* The output path keeps its types: a reference is only given back by its holder.
LEMMA OutputTyped == OutputTypeOK /\ OutputInv /\ [Next]_vars => OutputTypeOK'
<1> SUFFICES ASSUME OutputTypeOK, OutputInv, [Next]_vars PROVE OutputTypeOK'
  OBVIOUS
<1> USE DEF OutputTypeOK, output
<1>1. CASE start_network_task
  BY <1>1 DEF start_network_task
<1>2. CASE ethernet_interface_init
  BY <1>2 DEF ethernet_interface_init
<1>3. CASE ethernet_interface_bringup
  BY <1>3 DEF ethernet_interface_bringup
<1>4. CASE AnnounceLink
  BY <1>4 DEF AnnounceLink
<1>5. CASE WaitForInput
  BY <1>5 DEF WaitForInput
<1>6. CASE Receive
  BY <1>6 DEF Receive
<1>7. CASE Input
  BY <1>7 DEF Input
<1>8. CASE NoPbuf
  BY <1>8 DEF NoPbuf
<1>9. CASE TcpipCallback
  BY <1>9 DEF TcpipCallback
<1>10. ASSUME NEW a \in {"local", "global"}, AddressAcquired(a) PROVE OutputTypeOK'
  BY <1>10 DEF AddressAcquired
<1>11. ASSUME NEW a \in {"local", "global"}, AddressLost(a) PROVE OutputTypeOK'
  BY <1>11 DEF AddressLost
<1>12. ASSUME NEW u \in BOOLEAN, ApplicationSets(u) PROVE OutputTypeOK'
  BY <1>12 DEF ApplicationSets
<1>13. CASE ethernetif_input
  BY <1>13 DEF ethernetif_input
<1>14. CASE emac_state_change
  BY <1>14 DEF emac_state_change
<1>15. ASSUME NEW p \in Packets, Prepare(p) PROVE OutputTypeOK'
  BY <1>15 DEF Prepare, TakesReference, Buffers, Idle
<1>16. CASE Transmit
  BY <1>16 DEF Transmit, Buffers, Idle
<1>17. CASE StackFrees
  <2>1. out # Idle /\ out.buf \in Buffers
    BY <1>17 DEF StackFrees, Idle
  <2>2. out.buf[2] \in Packets
    BY <2>1 DEF Buffers
  <2>3. refs[out.buf[2]] > 0
    <3> DEFINE p == out.buf[2]
    <3>1. Outputting(p)
      BY <2>1 DEF Outputting
    <3>2. refs[p] = 1 + (IF Handed(<<"pbuf", p>>) THEN 1 ELSE 0)
      BY <2>2, <3>1 DEF OutputInv, Referenced
    <3> QED
      BY <3>2
  <2> QED
    BY <1>17, <2>2, <2>3 DEF StackFrees
<1>18. ASSUME NEW b \in Buffers, ethernetif_sent(b) PROVE OutputTypeOK'
  BY <1>18 DEF ethernetif_sent, Free, Buffers, OutputInv, Referenced, Handed
<1>19. CASE UNCHANGED vars
  BY <1>19 DEF vars
<1> QED
  BY <1>1, <1>2, <1>3, <1>4, <1>5, <1>6, <1>7, <1>8, <1>9, <1>10,
     <1>11, <1>12, <1>13, <1>14, <1>15, <1>16, <1>17, <1>18, <1>19
     DEF Next, Task

\* Buffers change hands as OutputInv says.
LEMMA OutputStep == OutputTypeOK /\ OutputInv /\ [Next]_vars => OutputInv'
<1> SUFFICES ASSUME OutputTypeOK, OutputInv, [Next]_vars PROVE OutputInv'
  OBVIOUS
<1> USE DEF OutputInv, Referenced, Copied, HandedOnce, Handed, Pending, Outputting, output
<1>1. CASE start_network_task
  BY <1>1 DEF start_network_task
<1>2. CASE ethernet_interface_init
  BY <1>2 DEF ethernet_interface_init
<1>3. CASE ethernet_interface_bringup
  BY <1>3 DEF ethernet_interface_bringup
<1>4. CASE AnnounceLink
  BY <1>4 DEF AnnounceLink
<1>5. CASE WaitForInput
  BY <1>5 DEF WaitForInput
<1>6. CASE Receive
  BY <1>6 DEF Receive
<1>7. CASE Input
  BY <1>7 DEF Input
<1>8. CASE NoPbuf
  BY <1>8 DEF NoPbuf
<1>9. CASE TcpipCallback
  BY <1>9 DEF TcpipCallback
<1>10. ASSUME NEW a \in {"local", "global"}, AddressAcquired(a) PROVE OutputInv'
  BY <1>10 DEF AddressAcquired
<1>11. ASSUME NEW a \in {"local", "global"}, AddressLost(a) PROVE OutputInv'
  BY <1>11 DEF AddressLost
<1>12. ASSUME NEW u \in BOOLEAN, ApplicationSets(u) PROVE OutputInv'
  BY <1>12 DEF ApplicationSets
<1>13. CASE ethernetif_input
  BY <1>13 DEF ethernetif_input
<1>14. CASE emac_state_change
  BY <1>14 DEF emac_state_change
<1>15. ASSUME NEW p \in Packets, Prepare(p) PROVE OutputInv'
  BY <1>15 DEF Prepare, TakesReference, Buffers, Idle, OutputTypeOK
<1>16. CASE Transmit
  BY <1>16 DEF Transmit, Buffers, Idle, OutputTypeOK
<1>17. CASE StackFrees
  BY <1>17 DEF StackFrees, Buffers, Idle, OutputTypeOK
<1>18. ASSUME NEW b \in Buffers, ethernetif_sent(b) PROVE OutputInv'
  BY <1>18 DEF ethernetif_sent, Free, Buffers, OutputTypeOK
<1>19. CASE UNCHANGED vars
  BY <1>19 DEF vars
<1> QED
  BY <1>1, <1>2, <1>3, <1>4, <1>5, <1>6, <1>7, <1>8, <1>9, <1>10,
     <1>11, <1>12, <1>13, <1>14, <1>15, <1>16, <1>17, <1>18, <1>19
     DEF Next, Task

-----------------------------------------------------------------------------
(* The input path.                                                          *)

\* The receive buffer is there once the interface is added, and until the task has
\* taken a signal every frame has one behind it, unless the last loop was cut short.
RxBufferHeld == added => rx_buffer = "allocated"
FramesSignalled ==
    task \notin {"receive", "input"} /\ ~semaphore => cut_short \/ frames = 0
InputInv == RxBufferHeld /\ FramesSignalled

\* A frame is never without a signal, a task at work or a loop that was cut short.
LEMMA InputStep == InputTypeOK /\ InputInv /\ [Next]_vars => InputInv'
<1> SUFFICES ASSUME InputTypeOK, InputInv, [Next]_vars PROVE InputInv'
  OBVIOUS
<1> USE DEF InputTypeOK, InputInv, RxBufferHeld, FramesSignalled, input, faults, emac
<1>1. CASE start_network_task
  BY <1>1 DEF start_network_task
<1>2. CASE ethernet_interface_init
  BY <1>2 DEF ethernet_interface_init, ethernetif_init
<1>3. CASE ethernet_interface_bringup
  BY <1>3 DEF ethernet_interface_bringup
<1>4. CASE AnnounceLink
  BY <1>4 DEF AnnounceLink
<1>5. CASE WaitForInput
  BY <1>5 DEF WaitForInput
<1>6. CASE Receive
  BY <1>6 DEF Receive, ReceiveFails
<1>7. CASE Input
  BY <1>7 DEF Input, AfterReceive
<1>8. CASE NoPbuf
  BY <1>8 DEF NoPbuf
<1>9. CASE TcpipCallback
  BY <1>9 DEF TcpipCallback
<1>10. ASSUME NEW a \in {"local", "global"}, AddressAcquired(a) PROVE InputInv'
  BY <1>10 DEF AddressAcquired
<1>11. ASSUME NEW a \in {"local", "global"}, AddressLost(a) PROVE InputInv'
  BY <1>11 DEF AddressLost
<1>12. ASSUME NEW u \in BOOLEAN, ApplicationSets(u) PROVE InputInv'
  BY <1>12 DEF ApplicationSets
<1>13. CASE ethernetif_input
  BY <1>13 DEF ethernetif_input, signal_receive
<1>14. CASE emac_state_change
  BY <1>14 DEF emac_state_change
<1>15. ASSUME NEW p \in Packets, Prepare(p) PROVE InputInv'
  BY <1>15 DEF Prepare
<1>16. CASE Transmit
  BY <1>16 DEF Transmit
<1>17. CASE StackFrees
  BY <1>17 DEF StackFrees
<1>18. ASSUME NEW b \in Buffers, ethernetif_sent(b) PROVE InputInv'
  BY <1>18 DEF ethernetif_sent
<1>19. CASE UNCHANGED vars
  BY <1>19 DEF vars
<1> QED
  BY <1>1, <1>2, <1>3, <1>4, <1>5, <1>6, <1>7, <1>8, <1>9, <1>10,
     <1>11, <1>12, <1>13, <1>14, <1>15, <1>16, <1>17, <1>18, <1>19
     DEF Next, Task

-----------------------------------------------------------------------------
(* The connection.                                                          *)

\* Before the EMAC is powered nothing has been posted; before the task has brought
\* the interface up, the callbacks of a link that comes and goes have no effect.
Before == {"none", "start", "bringup"}
NotStarted ==
    /\ task \in {"none", "start"} => ~powered /\ ~link /\ posted = <<>>
    /\ task \in Before => /\ connected = DISCONNECTED /\ ~dhcp_has_to_be_set
                          /\ ~dhcp_started /\ ~up

\* From then on DHCP is either to be started or started, on an interface that
\* netif_add accepted.
DhcpPending == task \notin Before => (dhcp_has_to_be_set <=> ~dhcp_started)
InterfaceAdded == up \/ dhcp_started => added
AddressSeen == has_any_addr => expired \/ addrs # {}

\* As long as link events wait for each other's callback, what the link flag will be
\* once the posted callbacks have run is the cable, or its opposite.
LinkToBe == IF posted = <<>> THEN link ELSE posted[Len(posted)] = "up"
LinkPosted ==
    task \in {"wait", "receive", "input"} /\ ~bunched => (LinkToBe <=> (cable <=> ~guessed))

\* Over a link that came up before the bring-up the interface stays down.
EarlyDown == early => link /\ ~up /\ ~dhcp_started /\ task \notin Before
StatusInv ==
    /\ NotStarted /\ DhcpPending /\ InterfaceAdded /\ AddressSeen /\ LinkPosted
    /\ EarlyDown /\ LinkBringsUp /\ ConnectedMeansConfigured

\* The status callback, called after the task's bring-up with the status c: a
\* connected status comes with an interface, an address and NETWORK_UP.
LEMMA StatusCallback ==
  ASSUME NEW u \in BOOLEAN, NEW l \in BOOLEAN, NEW c \in Statuses, NEW a, NEW e \in BOOLEAN,
         ContextTypeOK, dhcp_has_to_be_set <=> ~dhcp_started,
         c \in Connected => u /\ l /\ dhcp_started /\ (e \/ a # {}) /\ told = "NETWORK_UP",
         has_any_addr => e \/ a # {},
         netif_status_irq(u, l, c, a)
  PROVE  /\ dhcp_has_to_be_set' <=> ~dhcp_started'
         /\ dhcp_started' => dhcp_started \/ (u /\ l)
         /\ has_any_addr' => e \/ a # {}
         /\ connected' \in Connected =>
                u /\ l /\ dhcp_started' /\ (e \/ a # {}) /\ told' = "NETWORK_UP"
<1> USE DEF ContextTypeOK, Connected, Statuses, DISCONNECTED, CONNECTING, GLOBAL_UP, LOCAL_UP
<1>1. CASE u /\ l /\ dhcp_has_to_be_set
  <2>1. c \notin Connected /\ ~dhcp_started /\ UNCHANGED has_any_addr /\ set_dhcp(c)
    BY <1>1 DEF netif_status_irq
  <2>2. CASE DhcpDone /\ dhcp_started' = TRUE /\ connected' = c
    BY <1>1, <2>1, <2>2 DEF DhcpDone
  <2>3. CASE connected' = DISCONNECTED /\ UNCHANGED <<dhcp_has_to_be_set, dhcp_started>>
    BY <1>1, <2>1, <2>3
  <2> QED
    BY <2>1, <2>2, <2>3 DEF set_dhcp
<1>2. CASE u /\ l /\ ~dhcp_has_to_be_set
  <2>1. has_any_addr' => e \/ a # {}
    BY <1>2 DEF netif_status_irq, HasAddr
  <2>2. dhcp_started /\ dhcp_started' = dhcp_started /\ dhcp_has_to_be_set' = dhcp_has_to_be_set
    BY <1>2 DEF netif_status_irq
  <2>3. connected' \in Connected => (e \/ a # {}) /\ told' = "NETWORK_UP"
    BY <1>2, <2>1 DEF netif_status_irq
  <2> QED
    BY <1>2, <2>1, <2>2, <2>3
<1>3. CASE ~u /\ l
  BY <1>3 DEF netif_status_irq
<1>4. CASE ~l
  BY <1>4 DEF netif_status_irq
<1> QED
  BY <1>1, <1>2, <1>3, <1>4

\* netif_set_up and netif_set_down call it on a change.
LEMMA SetUpCallback ==
  ASSUME NEW u \in BOOLEAN, NEW l \in BOOLEAN, NEW c \in Statuses,
         ContextTypeOK, NetifTypeOK, expired \in BOOLEAN, dhcp_has_to_be_set <=> ~dhcp_started,
         c \in Connected => u /\ l /\ dhcp_started /\ (expired \/ addrs # {}) /\ told = "NETWORK_UP",
         AddressSeen, SetUp(u, l, c)
  PROVE  /\ up' = u
         /\ dhcp_has_to_be_set' <=> ~dhcp_started'
         /\ dhcp_started' => dhcp_started \/ (u /\ l)
         /\ has_any_addr' => expired \/ addrs # {}
         /\ connected' \in Connected =>
                u /\ l /\ dhcp_started' /\ (expired \/ addrs # {}) /\ told' = "NETWORK_UP"
<1>1. CASE u # up
  <2>1. netif_status_irq(u, l, c, addrs) /\ up' = u
    BY <1>1 DEF SetUp
  <2> QED
    BY <2>1, StatusCallback DEF AddressSeen
<1>2. CASE u = up
  BY <1>2 DEF SetUp, AddressSeen
<1> QED
  BY <1>1, <1>2

\* The link callback leaves no connected status unless the link has come up.
LEMMA LinkCallback ==
  ASSUME NEW l \in BOOLEAN, ContextTypeOK, NetifTypeOK, expired \in BOOLEAN,
         dhcp_has_to_be_set <=> ~dhcp_started,
         ConnectedMeansConfigured, AddressSeen, netif_link_irq(l)
  PROVE  /\ l /\ connected' = CONNECTING => up'
         /\ dhcp_has_to_be_set' <=> ~dhcp_started'
         /\ has_any_addr' => expired \/ addrs # {}
         /\ connected' \in Connected =>
                up' /\ l /\ dhcp_started' /\ (expired \/ addrs # {}) /\ told' = "NETWORK_UP"
<1> DEFINE c == IF up THEN LinkLost(connected) ELSE connected
<1>1. /\ CONNECTING \notin Connected /\ CONNECTING \in Statuses /\ connected \in Statuses
      /\ up \in BOOLEAN
  BY DEF Connected, CONNECTING, GLOBAL_UP, LOCAL_UP, Statuses, ContextTypeOK, NetifTypeOK
<1>2. c \notin Connected /\ c \in Statuses
  BY <1>1 DEF LinkLost, ConnectedMeansConfigured
<1>3. CASE l /\ connected = CONNECTING
  <2>1. SetUp(TRUE, l, CONNECTING)
    BY <1>3 DEF netif_link_irq
  <2> QED
    BY <1>1, <2>1, SetUpCallback
<1>4. CASE ~(l /\ connected = CONNECTING)
  <2>1. SetUp(FALSE, l, c)
    BY <1>4 DEF netif_link_irq
  <2>2. l => connected' # CONNECTING
    <3>1. CASE up
      BY <2>1, <3>1 DEF SetUp, netif_status_irq, DISCONNECTED, CONNECTING
    <3>2. CASE ~up
      BY <1>1, <1>4, <2>1, <3>2 DEF SetUp
    <3> QED
      BY <3>1, <3>2
  <2> HIDE DEF c
  <2> QED
    BY <1>2, <2>1, <2>2, SetUpCallback
<1> QED
  BY <1>3, <1>4

\* Every action keeps the connection's part of the invariant.
LEMMA StatusStep ==
  ContextTypeOK /\ NetifTypeOK /\ InputTypeOK /\ StatusInv /\ [Next]_vars => StatusInv'
<1> SUFFICES ASSUME ContextTypeOK, NetifTypeOK, InputTypeOK, StatusInv, [Next]_vars
             PROVE  StatusInv'
  OBVIOUS
<1>a. /\ NotStarted /\ DhcpPending /\ InterfaceAdded /\ AddressSeen /\ LinkPosted
      /\ EarlyDown /\ LinkBringsUp /\ ConnectedMeansConfigured
  BY DEF StatusInv
<1>b. /\ up \in BOOLEAN /\ link \in BOOLEAN /\ cable \in BOOLEAN /\ expired \in BOOLEAN
      /\ bunched \in BOOLEAN /\ guessed \in BOOLEAN /\ early \in BOOLEAN /\ posted \in Seq({"up", "down"})
  BY DEF NetifTypeOK, InputTypeOK
<1> USE <1>a, <1>b DEF context, netif, input, faults, emac
<1>1. CASE start_network_task
  BY <1>1 DEF start_network_task, NotStarted, DhcpPending, InterfaceAdded, AddressSeen, LinkPosted,
         EarlyDown, LinkBringsUp, LinkToBe, ConnectedMeansConfigured, StatusInv, Before
<1>2. CASE ethernet_interface_init
  BY <1>2 DEF ethernet_interface_init, ethernetif_init, NotStarted, DhcpPending, InterfaceAdded, AddressSeen, LinkPosted,
         EarlyDown, LinkBringsUp, LinkToBe, ConnectedMeansConfigured, StatusInv, Before
<1>3. CASE ethernet_interface_bringup
  <2>1. /\ connected = DISCONNECTED /\ ~dhcp_has_to_be_set /\ ~dhcp_started /\ ~up
        /\ task = "bringup" /\ task' = "announce"
    BY <1>3 DEF ethernet_interface_bringup, NotStarted, Before
  <2>2. /\ connected' = CONNECTING /\ dhcp_has_to_be_set' /\ early' = link
        /\ UNCHANGED <<up, link, addrs, added, dhcp_started, has_any_addr, expired, posted, powered>>
    BY <1>3, <2>1 DEF ethernet_interface_bringup, DISCONNECTED, CONNECTING, GLOBAL_UP
  <2>3. NotStarted' /\ DhcpPending' /\ LinkPosted'
    BY <2>1, <2>2 DEF NotStarted, DhcpPending, LinkPosted, Before
  <2>4. EarlyDown' /\ LinkBringsUp'
    BY <2>1, <2>2 DEF EarlyDown, LinkBringsUp, Before
  <2>5. InterfaceAdded' /\ AddressSeen' /\ ConnectedMeansConfigured'
    BY <2>1, <2>2 DEF InterfaceAdded, AddressSeen, ConnectedMeansConfigured, Connected,
                      CONNECTING, GLOBAL_UP, LOCAL_UP
  <2> QED
    BY <2>3, <2>4, <2>5 DEF StatusInv
<1>4. CASE AnnounceLink
  <2>1. /\ posted' = Append(posted, "up") /\ guessed' = ~cable /\ cable' = cable
        /\ task = "announce" /\ task' = "wait"
    BY <1>4 DEF AnnounceLink
  <2>2. NotStarted' /\ DhcpPending'
    BY <1>4, <2>1 DEF AnnounceLink, NotStarted, DhcpPending, Before
  <2>3. LinkPosted'
    <3>1. posted' # <<>> /\ posted'[Len(posted')] = "up"
      BY <2>1
    <3> QED
      BY <2>1, <3>1 DEF LinkPosted, LinkToBe
  <2>4. EarlyDown' /\ LinkBringsUp'
    BY <1>4, <2>1 DEF AnnounceLink, EarlyDown, LinkBringsUp, Before
  <2>5. InterfaceAdded' /\ AddressSeen' /\ ConnectedMeansConfigured'
    BY <1>4 DEF AnnounceLink, InterfaceAdded, AddressSeen, ConnectedMeansConfigured
  <2> QED
    BY <2>2, <2>3, <2>4, <2>5 DEF StatusInv
<1>5. CASE WaitForInput
  BY <1>5 DEF WaitForInput, NotStarted, DhcpPending, InterfaceAdded, AddressSeen, LinkPosted,
         EarlyDown, LinkBringsUp, LinkToBe, ConnectedMeansConfigured, StatusInv, Before
<1>6. CASE Receive
  BY <1>6 DEF Receive, ReceiveFails, NotStarted, DhcpPending, InterfaceAdded, AddressSeen, LinkPosted,
         EarlyDown, LinkBringsUp, LinkToBe, ConnectedMeansConfigured, StatusInv, Before
<1>7. CASE Input
  BY <1>7 DEF Input, AfterReceive, NotStarted, DhcpPending, InterfaceAdded, AddressSeen, LinkPosted,
         EarlyDown, LinkBringsUp, LinkToBe, ConnectedMeansConfigured, StatusInv, Before
<1>8. CASE NoPbuf
  BY <1>8 DEF NoPbuf, NotStarted, DhcpPending, InterfaceAdded, AddressSeen, LinkPosted,
         EarlyDown, LinkBringsUp, LinkToBe, ConnectedMeansConfigured, StatusInv, Before
<1>9. CASE TcpipCallback
  <2> DEFINE l == Head(posted) = "up"
  <2>1. /\ task \notin {"none", "start"} /\ task' = task /\ link' = l /\ l \in BOOLEAN
        /\ posted # <<>> /\ posted' = Tail(posted) /\ early' = (early /\ l)
        /\ UNCHANGED <<addrs, added, cable, powered, bunched, guessed, expired>>
    BY <1>9 DEF TcpipCallback, NotStarted
  <2>2. l # link /\ added => netif_link_irq(l)
    BY <1>9 DEF TcpipCallback
  <2>3. ~(l # link /\ added) => UNCHANGED <<up, context, told>>
    BY <1>9 DEF TcpipCallback
  <2>4. LinkPosted'
    <3>1. LinkToBe' = LinkToBe
      <4>1. posted \in Seq({"up", "down"}) /\ Len(posted) \in Nat /\ Len(posted) # 0
        BY <2>1
      <4>2. Len(posted') = Len(posted) - 1
        BY <2>1, <4>1
      <4>3. CASE Len(posted) = 1
        <5>1. posted' = <<>> /\ Head(posted) = posted[Len(posted)]
          BY <2>1, <4>1, <4>2, <4>3
        <5> QED
          BY <2>1, <5>1 DEF LinkToBe
      <4>4. CASE Len(posted) # 1
        <5>1. Len(posted') \in 1..Len(posted')
          BY <4>1, <4>2, <4>4
        <5>2. posted'[Len(posted')] = posted[Len(posted)]
          BY <2>1, <4>1, <4>2, <4>4
        <5>3. posted' # <<>> /\ posted # <<>>
          <6>1. Len(<<>>) = 0
            OBVIOUS
          <6> HIDE DEF l
          <6>2. Len(posted') # 0
            BY <4>1, <4>2, <4>4
          <6> QED
            BY <4>1, <6>1, <6>2
        <5> QED
          BY <5>2, <5>3 DEF LinkToBe
      <4> QED
        BY <4>3, <4>4
    <3> QED
      BY <2>1, <3>1 DEF LinkPosted
  <2>5. CASE task \in Before
    <3>1. UNCHANGED <<up, connected, dhcp_has_to_be_set, dhcp_started, has_any_addr, told>>
      <4>1. connected = DISCONNECTED /\ up = FALSE
        BY <2>5 DEF NotStarted
      <4>2. netif_link_irq(l) =>
                UNCHANGED <<up, connected, dhcp_has_to_be_set, dhcp_started, has_any_addr, told>>
        BY <4>1 DEF netif_link_irq, SetUp, DISCONNECTED, CONNECTING
      <4> QED
        BY <2>2, <2>3, <4>2
    <3>2. ~early /\ connected = DISCONNECTED /\ ~up /\ ~dhcp_started /\ ~dhcp_has_to_be_set
      BY <2>5 DEF EarlyDown, NotStarted
    <3>3. NotStarted' /\ DhcpPending' /\ EarlyDown'
      BY <2>1, <2>5, <3>1, <3>2 DEF NotStarted, DhcpPending, EarlyDown
    <3>4. LinkBringsUp' /\ ConnectedMeansConfigured' /\ InterfaceAdded' /\ AddressSeen'
      BY <2>1, <3>1, <3>2 DEF LinkBringsUp, ConnectedMeansConfigured, InterfaceAdded, AddressSeen,
                              Connected, DISCONNECTED, CONNECTING, GLOBAL_UP, LOCAL_UP
    <3> QED
      BY <2>4, <3>3, <3>4 DEF StatusInv
  <2>6. CASE task \notin Before
    <3>1. dhcp_has_to_be_set <=> ~dhcp_started
      BY <2>6 DEF DhcpPending
    <3>2. /\ dhcp_has_to_be_set' <=> ~dhcp_started'
          /\ has_any_addr' => expired \/ addrs # {}
          /\ connected' \in Connected =>
                 up' /\ l /\ dhcp_started' /\ (expired \/ addrs # {}) /\ told' = "NETWORK_UP"
          /\ up' \/ dhcp_started' => added
      <4>1. CASE l # link /\ added
        <5>1. netif_link_irq(l)
          BY <2>2, <4>1
        <5> HIDE DEF l
        <5> QED
          BY <2>1, <3>1, <4>1, <5>1, LinkCallback
      <4>2. CASE ~(l # link /\ added)
        BY <2>1, <2>3, <3>1, <4>2
           DEF AddressSeen, InterfaceAdded, ConnectedMeansConfigured
      <4> QED
        BY <4>1, <4>2
    <3>3. AddressSeen' /\ ConnectedMeansConfigured' /\ InterfaceAdded'
      BY <2>1, <3>2 DEF AddressSeen, ConnectedMeansConfigured, InterfaceAdded
    <3>4. LinkBringsUp' /\ EarlyDown'
      <4>1. CASE l # link /\ added
        <5>1. netif_link_irq(l)
          BY <2>2, <4>1
        <5> HIDE DEF l
        <5>2. l /\ connected' = CONNECTING => up'
          BY <2>1, <3>1, <5>1, LinkCallback
        <5>3. ~early'
          BY <2>1, <4>1 DEF EarlyDown
        <5> QED
          BY <2>1, <5>2, <5>3 DEF LinkBringsUp, EarlyDown
      <4>2. CASE ~(l # link /\ added)
        <5>1. early' => early
          BY <2>1
        <5>2. added => (link' = link)
          BY <2>1, <4>2
        <5>3. early /\ l => early'
          BY <2>1
        <5> QED
          BY <2>1, <2>3, <4>2, <5>1, <5>2, <5>3 DEF LinkBringsUp, EarlyDown
      <4> QED
        BY <4>1, <4>2
    <3>5. NotStarted' /\ DhcpPending'
      BY <2>1, <2>6, <3>2 DEF NotStarted, DhcpPending, Before
    <3> QED
      BY <2>4, <3>3, <3>4, <3>5 DEF StatusInv
  <2> QED
    BY <2>5, <2>6
<1>10. ASSUME NEW a \in {"local", "global"}, AddressAcquired(a) PROVE StatusInv'
  <2>1. /\ task \notin Before /\ task' = task /\ up /\ link /\ added /\ ~early
        /\ netif_status_irq(up, link, connected, addrs')
        /\ UNCHANGED <<up, link, added, posted, cable, powered, bunched, guessed, early>>
    BY <1>10 DEF AddressAcquired, NotStarted, InterfaceAdded, EarlyDown
  <2>2. dhcp_has_to_be_set <=> ~dhcp_started
    BY <2>1 DEF DhcpPending
  <2>3. expired' = expired /\ connected \in Statuses
    BY <1>10 DEF AddressAcquired, ContextTypeOK
  <2>4. addrs' # {}
    BY <1>10 DEF AddressAcquired
  <2> DEFINE a2 == addrs'
             e2 == expired'
  <2>5. has_any_addr => e2 \/ a2 # {}
    BY <2>3, <2>4 DEF AddressSeen
  <2>6. connected \in Connected => up /\ link /\ dhcp_started /\ (e2 \/ a2 # {}) /\ told = "NETWORK_UP"
    BY <2>3, <2>4 DEF ConnectedMeansConfigured
  <2>7. e2 \in BOOLEAN /\ netif_status_irq(up, link, connected, a2)
    BY <2>1, <2>3
  <2> HIDE DEF a2, e2
  <2>8. /\ dhcp_has_to_be_set' <=> ~dhcp_started'
        /\ has_any_addr' => e2 \/ a2 # {}
        /\ connected' \in Connected =>
               up /\ link /\ dhcp_started' /\ (e2 \/ a2 # {}) /\ told' = "NETWORK_UP"
    BY <2>2, <2>3, <2>5, <2>6, <2>7, StatusCallback
  <2>9. AddressSeen' /\ ConnectedMeansConfigured'
    BY <2>1, <2>8 DEF AddressSeen, ConnectedMeansConfigured, a2, e2
  <2>10. LinkPosted' /\ EarlyDown' /\ LinkBringsUp'
    BY <2>1 DEF LinkPosted, LinkToBe, EarlyDown, LinkBringsUp
  <2> QED
    BY <2>1, <2>8, <2>9, <2>10 DEF StatusInv, NotStarted, DhcpPending, InterfaceAdded, Before
<1>11. ASSUME NEW a \in {"local", "global"}, AddressLost(a) PROVE StatusInv'
  <2>1. /\ task \notin Before /\ task' = task /\ up /\ link /\ added /\ ~early
        /\ netif_status_irq(up, link, connected, addrs')
        /\ UNCHANGED <<up, link, added, posted, cable, powered, bunched, guessed, early>>
    BY <1>11 DEF AddressLost, NotStarted, InterfaceAdded, EarlyDown
  <2>2. dhcp_has_to_be_set <=> ~dhcp_started
    BY <2>1 DEF DhcpPending
  <2>3. expired' = TRUE /\ connected \in Statuses
    BY <1>11 DEF AddressLost, ContextTypeOK
  <2>4. expired'
    BY <1>11 DEF AddressLost
  <2> DEFINE a2 == addrs'
             e2 == expired'
  <2>5. has_any_addr => e2 \/ a2 # {}
    BY <2>3, <2>4 DEF AddressSeen
  <2>6. connected \in Connected => up /\ link /\ dhcp_started /\ (e2 \/ a2 # {}) /\ told = "NETWORK_UP"
    BY <2>3, <2>4 DEF ConnectedMeansConfigured
  <2>7. e2 \in BOOLEAN /\ netif_status_irq(up, link, connected, a2)
    BY <2>1, <2>3
  <2> HIDE DEF a2, e2
  <2>8. /\ dhcp_has_to_be_set' <=> ~dhcp_started'
        /\ has_any_addr' => e2 \/ a2 # {}
        /\ connected' \in Connected =>
               up /\ link /\ dhcp_started' /\ (e2 \/ a2 # {}) /\ told' = "NETWORK_UP"
    BY <2>2, <2>3, <2>5, <2>6, <2>7, StatusCallback
  <2>9. AddressSeen' /\ ConnectedMeansConfigured'
    BY <2>1, <2>8 DEF AddressSeen, ConnectedMeansConfigured, a2, e2
  <2>10. LinkPosted' /\ EarlyDown' /\ LinkBringsUp'
    BY <2>1 DEF LinkPosted, LinkToBe, EarlyDown, LinkBringsUp
  <2> QED
    BY <2>1, <2>8, <2>9, <2>10 DEF StatusInv, NotStarted, DhcpPending, InterfaceAdded, Before
<1>12. ASSUME NEW u \in BOOLEAN, ApplicationSets(u) PROVE StatusInv'
  <2>1. /\ task \notin Before /\ task' = task /\ dhcp_started /\ added /\ u # up /\ ~early
        /\ netif_status_irq(u, link, connected, addrs) /\ up' = u
        /\ UNCHANGED <<link, addrs, added, posted, cable, powered, bunched, guessed, early, expired>>
    BY <1>12 DEF ApplicationSets, NotStarted, InterfaceAdded, SetUp, EarlyDown
  <2>2. (dhcp_has_to_be_set <=> ~dhcp_started) /\ connected \in Statuses
    BY <2>1 DEF DhcpPending, ContextTypeOK
  <2>3. /\ dhcp_has_to_be_set' <=> ~dhcp_started'
        /\ has_any_addr' => expired \/ addrs # {}
        /\ connected' \in Connected =>
               u /\ link /\ dhcp_started' /\ (expired \/ addrs # {}) /\ told' = "NETWORK_UP"
    <3>1. CASE u
      <4>1. connected \notin Connected
        BY <2>1, <3>1 DEF ConnectedMeansConfigured
      <4> QED
        BY <2>1, <2>2, <4>1, StatusCallback DEF AddressSeen
    <3>2. CASE ~u
      <4>1. connected' \notin Connected
        BY <2>1, <3>2 DEF netif_status_irq, ConnectedMeansConfigured, Connected, DISCONNECTED,
                         GLOBAL_UP, LOCAL_UP
      <4>2. UNCHANGED <<dhcp_has_to_be_set, dhcp_started, has_any_addr>>
        BY <2>1, <3>2 DEF netif_status_irq
      <4> QED
        BY <2>2, <4>1, <4>2 DEF AddressSeen
    <3> QED
      BY <3>1, <3>2
  <2>4. AddressSeen' /\ ConnectedMeansConfigured'
    BY <2>1, <2>3 DEF AddressSeen, ConnectedMeansConfigured
  <2>5. link /\ connected' = CONNECTING => u
    BY <2>1 DEF netif_status_irq, DISCONNECTED, CONNECTING
  <2>6. LinkPosted' /\ EarlyDown' /\ LinkBringsUp'
    BY <2>1, <2>5 DEF LinkPosted, LinkToBe, EarlyDown, LinkBringsUp
  <2> QED
    BY <2>1, <2>3, <2>4, <2>6 DEF StatusInv, NotStarted, DhcpPending, InterfaceAdded, Before
<1>13. CASE ethernetif_input
  BY <1>13 DEF ethernetif_input, NotStarted, DhcpPending, InterfaceAdded, AddressSeen, LinkPosted,
         EarlyDown, LinkBringsUp, LinkToBe, ConnectedMeansConfigured, StatusInv, Before
<1>14. CASE emac_state_change
  <2>1. /\ task \notin {"none", "start"} /\ posted' = Append(posted, InferredLink)
        /\ bunched' = (bunched \/ posted # <<>>) /\ cable' = ~cable
        /\ UNCHANGED <<task, link, guessed>>
    BY <1>14 DEF emac_state_change, NotStarted
  <2>2. NotStarted' /\ DhcpPending' /\ EarlyDown' /\ LinkBringsUp'
    BY <1>14, <2>1 DEF emac_state_change, NotStarted, DhcpPending, EarlyDown, LinkBringsUp, Before
  <2>3. LinkPosted'
    <3>1. CASE posted = <<>>
      <4>1. posted' # <<>> /\ posted'[Len(posted')] = InferredLink
        BY <2>1
      <4>2. LinkToBe' <=> ~link
        BY <4>1 DEF LinkToBe, InferredLink
      <4>3. LinkToBe <=> link
        BY <3>1 DEF LinkToBe
      <4> QED
        BY <2>1, <4>2, <4>3 DEF LinkPosted
    <3>2. CASE posted # <<>>
      BY <2>1, <3>2 DEF LinkPosted
    <3> QED
      BY <3>1, <3>2
  <2>4. InterfaceAdded' /\ AddressSeen' /\ ConnectedMeansConfigured'
    BY <1>14 DEF emac_state_change, InterfaceAdded, AddressSeen, ConnectedMeansConfigured
  <2> QED
    BY <2>2, <2>3, <2>4 DEF StatusInv
<1>15. ASSUME NEW p \in Packets, Prepare(p) PROVE StatusInv'
  BY <1>15 DEF Prepare, NotStarted, DhcpPending, InterfaceAdded, AddressSeen, LinkPosted,
         EarlyDown, LinkBringsUp, LinkToBe, ConnectedMeansConfigured, StatusInv, Before
<1>16. CASE Transmit
  BY <1>16 DEF Transmit, NotStarted, DhcpPending, InterfaceAdded, AddressSeen, LinkPosted,
         EarlyDown, LinkBringsUp, LinkToBe, ConnectedMeansConfigured, StatusInv, Before
<1>17. CASE StackFrees
  BY <1>17 DEF StackFrees, NotStarted, DhcpPending, InterfaceAdded, AddressSeen, LinkPosted,
         EarlyDown, LinkBringsUp, LinkToBe, ConnectedMeansConfigured, StatusInv, Before
<1>18. ASSUME NEW b \in Buffers, ethernetif_sent(b) PROVE StatusInv'
  BY <1>18 DEF ethernetif_sent, NotStarted, DhcpPending, InterfaceAdded, AddressSeen, LinkPosted,
         EarlyDown, LinkBringsUp, LinkToBe, ConnectedMeansConfigured, StatusInv, Before
<1>19. CASE UNCHANGED vars
  BY <1>19 DEF vars, NotStarted, DhcpPending, InterfaceAdded, AddressSeen, LinkPosted,
         EarlyDown, LinkBringsUp, LinkToBe, ConnectedMeansConfigured, StatusInv, Before
<1> QED
  BY <1>1, <1>2, <1>3, <1>4, <1>5, <1>6, <1>7, <1>8, <1>9, <1>10,
     <1>11, <1>12, <1>13, <1>14, <1>15, <1>16, <1>17, <1>18, <1>19
     DEF Next, Task

-----------------------------------------------------------------------------
(* Together.                                                                *)

LwipInv == TypeOK /\ OutputInv /\ InputInv /\ StatusInv

\* The initial state satisfies it, a received frame and a posted callback being
\* still to come.
LEMMA LwipInit == Init => LwipInv
<1> SUFFICES ASSUME Init PROVE LwipInv
  OBVIOUS
<1>1. ContextTypeOK /\ NetifTypeOK /\ InputTypeOK /\ OutputTypeOK
  <2>1. ContextTypeOK
    BY DEF Init, ContextTypeOK, Statuses
  <2>2. NetifTypeOK
    <3>1. posted \in Seq({"up", "down"}) /\ Len(posted) <= MaxPosted
      BY LwipStackAssumption DEF Init
    <3> QED
      BY <3>1 DEF Init, NetifTypeOK
  <2>3. InputTypeOK
    <3>1. frames \in 0..MaxFrames
      BY LwipStackAssumption DEF Init
    <3> QED
      BY <3>1 DEF Init, InputTypeOK
  <2>4. OutputTypeOK
    BY DEF Init, OutputTypeOK
  <2> QED
    BY <2>1, <2>2, <2>3, <2>4
<1>2. OutputInv
  BY DEF Init, OutputInv, Referenced, Copied, HandedOnce, Handed, Pending, Outputting
<1>3. InputInv
  BY DEF Init, InputInv, RxBufferHeld, FramesSignalled
<1>4. StatusInv
  BY DEF Init, StatusInv, NotStarted, DhcpPending, InterfaceAdded, AddressSeen, LinkPosted,
         EarlyDown, LinkBringsUp, ConnectedMeansConfigured, Before, Connected,
         DISCONNECTED, CONNECTING, GLOBAL_UP, LOCAL_UP
<1> QED
  BY <1>1, <1>2, <1>3, <1>4 DEF LwipInv, TypeOK

\* Every step keeps it.
LEMMA LwipStep == LwipInv /\ [Next]_vars => LwipInv'
BY StateTyped, OutputTyped, OutputStep, InputStep, StatusStep DEF LwipInv, TypeOK

\* The inductive invariant holds in every reachable state of the port.
THEOREM LwipSafe == Spec => []LwipInv
BY LwipInit, LwipStep, PTL DEF Spec

\* The callbacks of the tcpip thread and of the EMAC's interrupt, in any order and
\* over any sequence of link losses, address changes and failures, leave a
\* connection status that the interface, DHCP and the cable agree with
\* (lwip_stack.c:113-189, lwip_emac_netif.c:153-165).
THEOREM StatusFollows == Spec => []StatusFollowsInterface
<1>1. LwipInv => StatusFollowsInterface
  <2> SUFFICES ASSUME LwipInv PROVE StatusFollowsInterface
    OBVIOUS
  <2>1. ConnectedMeansConfigured
    BY DEF LwipInv, StatusInv
  <2>2. DhcpStartedOnce
    BY DEF LwipInv, StatusInv, NotStarted, DhcpPending, DhcpStartedOnce, Before
  <2>3. LinkFollowsCable
    BY DEF LwipInv, StatusInv, LinkPosted, LinkToBe, LinkFollowsCable, TypeOK, NetifTypeOK,
           InputTypeOK
  <2>4. LinkBringsUp
    BY DEF LwipInv, StatusInv
  <2> QED
    BY <2>1, <2>2, <2>3, <2>4 DEF StatusFollowsInterface
<1> QED
  BY <1>1, LwipSafe, PTL

\* No frame is forgotten, and no buffer is lost or used after it was freed, however
\* many packets are on their way and whichever of the stack and the EMAC is done
\* first (lwip_emac_netif.c:107-202).
THEOREM FramesSafe == Spec => []FramesAccounted
<1>1. LwipInv => FramesAccounted
  <2> SUFFICES ASSUME LwipInv PROVE FramesAccounted
    OBVIOUS
  <2>1. NoFrameStranded
    BY DEF LwipInv, InputInv, FramesSignalled, NoFrameStranded
  <2>2. MemoryHeld
    <3>1. task \in {"receive", "input"} => rx_buffer = "allocated" \/ ~added
      BY DEF LwipInv, InputInv, RxBufferHeld
    <3>2. ASSUME NEW p \in Packets
          PROVE  /\ <<"pbuf", p>> \in sending => refs[p] > 0
                 /\ <<"copy", p>> \in sending => p \in copies
      BY DEF LwipInv, OutputInv, Referenced, Copied, Handed
    <3> QED
      BY <3>1, <3>2 DEF MemoryHeld
  <2>3. NothingKept
    BY DEF LwipInv, OutputInv, Referenced, Copied, Handed, Pending, Outputting, NothingKept
  <2> QED
    BY <2>1, <2>2, <2>3 DEF FramesAccounted
<1> QED
  BY <1>1, LwipSafe, PTL

=============================================================================
