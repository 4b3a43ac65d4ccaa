------------------------------ MODULE NxDriver ------------------------------
(***************************************************************************)
(* The NetX Duo IP link driver over an MCU-Driver-HAL (MDH) EMAC,          *)
(* components/azure-rtos/netxduo/nx-ip-link-mdh/src/iotsdk/nx_driver_mdh.c *)
(*                                                                         *)
(* NetX Duo serialises the link commands (its IP mutex is held around the  *)
(* driver entry), so there is one driver thread, at most one command deep. *)
(* The EMAC's three callbacks are interrupts: each runs to completion but  *)
(* may fall between any two steps of the command in progress.              *)
(***************************************************************************)
EXTENDS Integers, FiniteSets

CONSTANTS Packet,            \* NX_PACKETs of the default packet pool
          NoPacket,          \* NULL
          Group,             \* multicast groups
          MaxHeap,           \* buffers the memory manager's heap can hold
          MaxRx              \* frames the EMAC queues

ASSUME NxDriverAssumption ==
    /\ NoPacket \notin Packet
    /\ MaxHeap \in Nat
    /\ MaxRx \in Nat

NX_DRIVER_STATE_ZERO            == 0    \* gs_device is zero initialised
NX_DRIVER_STATE_NOT_INITIALIZED == 1
NX_DRIVER_STATE_INITIALIZED     == 3
NX_DRIVER_STATE_LINK_ENABLED    == 4
States == {NX_DRIVER_STATE_ZERO, NX_DRIVER_STATE_NOT_INITIALIZED,
           NX_DRIVER_STATE_INITIALIZED, NX_DRIVER_STATE_LINK_ENABLED}

VARIABLES
    \* device_driver_t and nx_driver_t
    state, busy_transmitting, outgoing_packet, deferred_event, attached,
    \* nx_interface_link_up of interface 0
    link_up,
    \* the command in progress and its packet
    pc, packet,
    \* NX_PACKETs: who holds each one, and how many Ethernet headers
    \* nx_packet_prepend_ptr and nx_packet_length currently include
    holder, headers,
    \* NetX: the IP thread has been asked to call NX_LINK_DEFERRED_PROCESSING
    requested,
    \* live buffers of the memory manager, and how many of them nobody will free
    heap, leaked,
    \* the EMAC: powered, the packet whose frame is being sent, frames waiting
    \* to be fetched, multicast groups, and the cable
    powered, in_flight, rx_frames, groups, cable,
    \* history: was the cable out when the link was taken to be up?
    drift,
    \* history: frames for which no deferred processing will run
    unannounced,
    \* history: was the last send issued while a frame was in flight?  Packets a
    \* completion released in the place of its own, packets that stay with the
    \* driver after their frame is gone, and whether the link was disabled in
    \* mid-transmission since the driver was initialised
    overlapped, stray, stranded, wedged

device   == <<state, busy_transmitting, outgoing_packet, deferred_event, attached>>
packets  == <<holder, headers>>
buffers  == <<heap, leaked>>
wire     == <<cable, drift>>
emac     == <<powered, in_flight, rx_frames, groups, wire>>
sends    == <<overlapped, stray, stranded, wedged>>
history  == <<unannounced, sends>>
vars     == <<device, link_up, pc, packet, packets, requested, buffers, emac,
              history>>

Commands == {"idle", "init", "enable", "disable", "send", "send_buffer",
             "send_transmit", "rx_buffer", "rx_fetch", "rx_packet"}

Nullable == Packet \cup {NoPacket}

FlagsTypeOK ==
    /\ busy_transmitting \in BOOLEAN
    /\ deferred_event \in BOOLEAN
    /\ attached \in BOOLEAN
    /\ link_up \in BOOLEAN
    /\ requested \in BOOLEAN
    /\ powered \in BOOLEAN
    /\ cable \in BOOLEAN
    /\ drift \in BOOLEAN
    /\ overlapped \in BOOLEAN
    /\ wedged \in BOOLEAN

CountersTypeOK ==
    /\ state \in States
    /\ heap \in Int
    /\ leaked \in Nat
    /\ rx_frames \in Nat
    /\ unannounced \in Nat

PacketsTypeOK ==
    /\ pc \in Commands
    /\ outgoing_packet \in Nullable
    /\ packet \in Nullable
    /\ in_flight \in Nullable
    /\ holder \in [Packet -> {"pool", "netx", "driver"}]
    /\ headers \in [Packet -> Int]
    /\ groups \in SUBSET Group
    /\ stray \in SUBSET Packet
    /\ stranded \in SUBSET Packet

\* Every variable stays within its type; in particular the driver never
\* reaches the declared state INITIALIZE_FAILED.
TypeOK == FlagsTypeOK /\ CountersTypeOK /\ PacketsTypeOK

Init ==
    /\ state = NX_DRIVER_STATE_ZERO
    /\ busy_transmitting = FALSE
    /\ outgoing_packet = NoPacket
    /\ deferred_event = FALSE
    /\ attached = FALSE
    /\ link_up = FALSE
    /\ pc = "idle"
    /\ packet = NoPacket
    /\ holder = [p \in Packet |-> "pool"]
    /\ headers = [p \in Packet |-> 0]
    /\ requested = FALSE
    /\ heap = 0
    /\ leaked = 0
    /\ powered = FALSE
    /\ in_flight = NoPacket
    /\ rx_frames = 0
    /\ groups = {}
    /\ cable \in BOOLEAN
    /\ drift = FALSE
    /\ unannounced = 0
    /\ overlapped = FALSE
    /\ stray = {}
    /\ stranded = {}
    /\ wedged = FALSE

-----------------------------------------------------------------------------
(* The memory manager (iotsdk_memory_manager.c): a buffer is taken from the *)
(* heap, goes back to it, or is forgotten.                                  *)

alloc_from_heap == heap' = heap + 1 /\ UNCHANGED leaked
free_buf == heap' = heap - 1 /\ UNCHANGED leaked
lose_buf == leaked' = leaked + 1 /\ UNCHANGED heap

-----------------------------------------------------------------------------
(* NetX Duo, as the driver sees it (external): it takes packets from the    *)
(* pool and releases the ones it holds.                                     *)

NetxAllocate(p) ==
    /\ holder[p] = "pool"
    /\ holder' = [holder EXCEPT ![p] = "netx"]
    /\ headers' = [headers EXCEPT ![p] = 0]
    /\ UNCHANGED <<device, link_up, pc, packet, requested, buffers, emac, history>>

NetxRelease(p) ==
    /\ holder[p] = "netx"
    /\ p # packet
    /\ holder' = [holder EXCEPT ![p] = "pool"]
    /\ UNCHANGED <<device, link_up, pc, packet, headers, requested, buffers, emac,
                   history>>

-----------------------------------------------------------------------------
(* Link commands.  nx_ip_create issues attach, initialize and enable in     *)
(* this order and nx_ip_delete disables the link, so initialize never meets *)
(* an enabled link.                                                         *)
(* A definition Name_Slip, just above Name, is a plausible slip in the code *)
(* of Name: with it in Name's place the runs must report a violation.       *)

nx_link_interface_attach ==
    /\ pc = "idle"
    /\ ~attached
    /\ attached' = TRUE
    /\ UNCHANGED <<state, busy_transmitting, outgoing_packet, deferred_event,
                   link_up, pc, packet, packets, requested, buffers, emac,
                   history>>

\* mdh_emac_power_up: on success the callbacks are armed.
PowerUp(ok) == powered' = (powered \/ ok)

\* state = NOT_INITIALIZED, then hardware_enable inside hardware_initialize.
nx_link_initialize(ok) ==
    /\ pc = "idle"
    /\ attached
    /\ state # NX_DRIVER_STATE_LINK_ENABLED
    /\ state' = NX_DRIVER_STATE_NOT_INITIALIZED
    /\ PowerUp(ok)
    /\ pc' = IF ok THEN "init" ELSE "idle"
    /\ UNCHANGED <<busy_transmitting, outgoing_packet, deferred_event, attached,
                   link_up, packet, packets, requested, buffers, in_flight,
                   rx_frames, groups, wire, history>>

InitializedState(ok) == IF ok THEN NX_DRIVER_STATE_INITIALIZED ELSE state

\* The rest of hardware_initialize, which fails when the MAC address cannot
\* be read, and of nx_link_initialize.
hardware_initialize(ok) ==
    /\ pc = "init"
    /\ busy_transmitting' = IF ok THEN FALSE ELSE busy_transmitting
    /\ state' = InitializedState(ok)
    /\ wedged' = (wedged /\ ~ok)
    /\ pc' = "idle"
    /\ UNCHANGED <<outgoing_packet, deferred_event, attached, link_up, packet,
                   packets, requested, buffers, emac, unannounced, overlapped, stray,
                   stranded>>

nx_link_enable(ok) ==
    /\ pc = "idle"
    /\ state = NX_DRIVER_STATE_INITIALIZED
    /\ PowerUp(ok)
    /\ pc' = IF ok THEN "enable" ELSE "idle"
    /\ UNCHANGED <<device, link_up, packet, packets, requested, buffers, in_flight,
                   rx_frames, groups, wire, history>>

LinkEnabled ==
    /\ pc = "enable"
    /\ link_up' = TRUE
    /\ drift' = ~cable
    /\ state' = NX_DRIVER_STATE_LINK_ENABLED
    /\ pc' = "idle"
    /\ UNCHANGED <<busy_transmitting, outgoing_packet, deferred_event, attached,
                   packet, packets, requested, buffers, powered, in_flight, rx_frames,
                   groups, cable, history>>

\* mdh_emac_power_down discards what the EMAC still holds: no callback comes
\* for a frame in flight or for frames nobody fetched.
nx_link_disable(ok) ==
    /\ pc = "idle"
    /\ state = NX_DRIVER_STATE_LINK_ENABLED
    /\ \/ /\ ok
          /\ powered' = FALSE
          /\ in_flight' = NoPacket
          /\ rx_frames' = 0
          /\ unannounced' = 0
          /\ stranded' = stranded \cup ({in_flight} \ {NoPacket})
          /\ wedged' = (wedged \/ in_flight # NoPacket)
          /\ IF in_flight # NoPacket THEN lose_buf ELSE UNCHANGED buffers
          /\ pc' = "disable"
       \/ ~ok /\ UNCHANGED <<powered, in_flight, rx_frames, unannounced, stranded,
                            wedged, buffers, pc>>
    /\ UNCHANGED <<device, link_up, packet, packets, requested, groups, wire,
                   overlapped, stray>>

LinkDisabled ==
    /\ pc = "disable"
    /\ link_up' = FALSE
    /\ state' = NX_DRIVER_STATE_INITIALIZED
    /\ pc' = "idle"
    /\ UNCHANGED <<busy_transmitting, outgoing_packet, deferred_event, attached,
                   packet, packets, requested, buffers, emac, history>>

nx_link_multicast_join(g) ==
    /\ pc = "idle"
    /\ state = NX_DRIVER_STATE_LINK_ENABLED
    /\ groups' = groups \cup {g}
    /\ UNCHANGED <<device, link_up, pc, packet, packets, requested, buffers, powered,
                   in_flight, rx_frames, wire, history>>

nx_link_multicast_leave(g) ==
    /\ pc = "idle"
    /\ state = NX_DRIVER_STATE_LINK_ENABLED
    /\ groups' = groups \ {g}
    /\ UNCHANGED <<device, link_up, pc, packet, packets, requested, buffers, powered,
                   in_flight, rx_frames, wire, history>>

-----------------------------------------------------------------------------
(* Transmission.                                                            *)

AddHeader(p) == headers' = [headers EXCEPT ![p] = @ + 1]

remove_header_Skipped(p) == UNCHANGED headers
remove_nx_packet_ethernet_header(p) ==
    headers' = [headers EXCEPT ![p] = @ - 1]

RememberOutgoing_Dropped(p) == UNCHANGED outgoing_packet
RememberOutgoing(p) == outgoing_packet' = p

\* The send path up to the call of hardware_send_packet.  A packet over the
\* MTU has its header removed again and is refused (no net change); any other
\* becomes device->outgoing_packet before the busy test, whether or not a frame
\* is in flight.
nx_link_packet_send(p) ==
    /\ pc = "idle"
    /\ holder[p] = "netx"
    /\ state = NX_DRIVER_STATE_LINK_ENABLED
    /\ AddHeader(p)
    /\ RememberOutgoing(p)
    /\ packet' = p
    /\ pc' = "send"
    /\ overlapped' = (in_flight # NoPacket)
    /\ UNCHANGED <<state, busy_transmitting, deferred_event, attached, link_up,
                   holder, requested, buffers, emac, unannounced, stray, stranded,
                   wedged>>

\* hardware_send_packet failed: the caller keeps the packet.
SendFails ==
    /\ remove_nx_packet_ethernet_header(packet)
    /\ packet' = NoPacket
    /\ pc' = "idle"
    /\ UNCHANGED <<device, link_up, holder, requested, emac, history>>

BusyTest ==
    /\ pc = "send"
    /\ \/ /\ busy_transmitting
          /\ SendFails
          /\ UNCHANGED buffers
       \/ /\ ~busy_transmitting
          /\ pc' = "send_buffer"
          /\ UNCHANGED <<device, link_up, packet, packets, requested, buffers, emac,
                         history>>

SendAllocate ==
    /\ pc = "send_buffer"
    /\ \/ heap >= MaxHeap /\ SendFails /\ UNCHANGED buffers
       \/ /\ heap < MaxHeap
          /\ alloc_from_heap
          /\ pc' = "send_transmit"
          /\ UNCHANGED <<device, link_up, packet, packets, requested, emac,
                         history>>

MarkBusy == busy_transmitting' = TRUE

\* busy_transmitting = true, mdh_emac_transmit, and busy_transmitting = false
\* again when the EMAC refuses the buffer.  The buffer is not freed then.
Transmit(ok) ==
    /\ pc = "send_transmit"
    /\ \/ /\ ok
          /\ MarkBusy
          /\ in_flight' = packet
          /\ holder' = [holder EXCEPT ![packet] = "driver"]
          /\ packet' = NoPacket
          /\ pc' = "idle"
          /\ overlapped' = FALSE
          /\ UNCHANGED <<state, outgoing_packet, deferred_event, attached,
                         link_up, headers, requested, buffers, powered, rx_frames,
                         groups, wire, unannounced, stray, stranded, wedged>>
       \/ /\ ~ok
          /\ remove_nx_packet_ethernet_header(packet)
          /\ packet' = NoPacket
          /\ pc' = "idle"
          /\ busy_transmitting' = FALSE
          /\ lose_buf
          /\ UNCHANGED <<state, outgoing_packet, deferred_event, attached,
                         link_up, holder, requested, emac, history>>

nx_packet_transmit_release_Dropped(p) == UNCHANGED holder
nx_packet_transmit_release(p) == holder' = [holder EXCEPT ![p] = "pool"]

\* Interrupt: strips and releases whatever outgoing_packet names by now.
on_transmit_complete ==
    /\ powered
    /\ in_flight # NoPacket
    /\ in_flight' = NoPacket
    /\ busy_transmitting' = FALSE
    /\ remove_nx_packet_ethernet_header(outgoing_packet)
    /\ nx_packet_transmit_release(outgoing_packet)
    /\ free_buf
    /\ stray' = stray \cup ({outgoing_packet} \ {in_flight, NoPacket})
    /\ stranded' = stranded \cup ({in_flight} \ {outgoing_packet})
    /\ UNCHANGED <<state, outgoing_packet, deferred_event, attached, link_up, pc,
                   packet, requested, powered, rx_frames, groups, wire,
                   unannounced, overlapped, wedged>>

-----------------------------------------------------------------------------
(* Reception.                                                               *)

\* _nx_ip_driver_deferred_processing wakes the IP thread.
RequestDeferred_Dropped == UNCHANGED requested
RequestDeferred == requested' = TRUE

\* Interrupt: a frame has arrived.  When the event bit is already set the two
\* interrupts merge, and the later frame has no deferred processing of its own.
on_receive_complete ==
    /\ powered
    /\ rx_frames < MaxRx
    /\ rx_frames' = rx_frames + 1
    /\ unannounced' = IF deferred_event THEN unannounced + 1 ELSE unannounced
    /\ deferred_event' = TRUE
    /\ RequestDeferred
    /\ UNCHANGED <<state, busy_transmitting, outgoing_packet, attached, link_up,
                   pc, packet, packets, buffers, powered, in_flight, groups, wire,
                   sends>>

TakeEvents == deferred_event' = FALSE

AfterEvents == IF deferred_event THEN "rx_buffer" ELSE "idle"

\* The IP thread's NX_LINK_DEFERRED_PROCESSING: the event bits are read and
\* cleared with interrupts disabled.
nx_link_deferred_processing ==
    /\ pc = "idle"
    /\ requested
    /\ requested' = FALSE
    /\ TakeEvents
    /\ pc' = AfterEvents
    /\ UNCHANGED <<state, busy_transmitting, outgoing_packet, attached, link_up,
                   packet, packets, buffers, emac, history>>

RxAllocate ==
    /\ pc = "rx_buffer"
    /\ \/ /\ heap < MaxHeap
          /\ alloc_from_heap
          /\ pc' = "rx_fetch"
          /\ UNCHANGED unannounced
       \/ /\ heap >= MaxHeap
          /\ unannounced' = unannounced + 1
          /\ pc' = "idle"
          /\ UNCHANGED buffers
    /\ UNCHANGED <<device, link_up, packet, packets, requested, emac, sends>>

\* mdh_emac_receive: fails when nothing is queued, and may fail otherwise,
\* leaving the frame where it is.
RxFetch(ok) ==
    /\ pc = "rx_fetch"
    /\ \/ /\ ok
          /\ rx_frames > 0
          /\ rx_frames' = rx_frames - 1
          /\ pc' = "rx_packet"
          /\ UNCHANGED <<buffers, unannounced>>
       \/ /\ ~ok
          /\ free_buf
          /\ unannounced' = unannounced + 1
          /\ pc' = "idle"
          /\ UNCHANGED rx_frames
    /\ UNCHANGED <<device, link_up, packet, packets, requested, powered, in_flight,
                   groups, wire, sends>>

\* nx_packet_allocate, copy_from_buf and transfer_to_netx.  The frame is
\* dropped when the pool is empty, the copy yields nothing or its EtherType is
\* none of IP, IPv6, ARP and RARP; otherwise NetX gets the packet.
RxDrop ==
    /\ pc = "rx_packet"
    /\ free_buf
    /\ pc' = "idle"
    /\ UNCHANGED <<device, link_up, packet, packets, requested, emac, history>>

RxDeliver(p) ==
    /\ pc = "rx_packet"
    /\ holder[p] = "pool"
    /\ holder' = [holder EXCEPT ![p] = "netx"]
    /\ headers' = [headers EXCEPT ![p] = 0]
    /\ free_buf
    /\ pc' = "idle"
    /\ UNCHANGED <<device, link_up, packet, requested, emac, history>>

-----------------------------------------------------------------------------
(* Interrupt: the cable is plugged or pulled.  on_event infers the new link *)
(* status by inverting the current one.                                     *)

InferLink == link_up' = ~link_up

on_event ==
    /\ powered
    /\ cable' = ~cable
    /\ InferLink
    /\ UNCHANGED <<device, pc, packet, packets, requested, buffers, powered,
                   in_flight, rx_frames, groups, drift, history>>

\* The cable moves while the EMAC is off: no event.
CableMovesUnseen ==
    /\ ~powered
    /\ cable' = ~cable
    /\ UNCHANGED <<device, link_up, pc, packet, packets, requested, buffers, powered,
                   in_flight, rx_frames, groups, drift, history>>

-----------------------------------------------------------------------------
DriverStep ==
    \/ LinkEnabled
    \/ LinkDisabled
    \/ \E ok \in BOOLEAN : hardware_initialize(ok) \/ Transmit(ok) \/ RxFetch(ok)
    \/ BusyTest
    \/ SendAllocate
    \/ RxAllocate
    \/ RxDrop
    \/ \E p \in Packet : RxDeliver(p)

Command ==
    \/ nx_link_interface_attach
    \/ \E ok \in BOOLEAN :
          nx_link_initialize(ok) \/ nx_link_enable(ok) \/ nx_link_disable(ok)
    \/ \E g \in Group : nx_link_multicast_join(g) \/ nx_link_multicast_leave(g)
    \/ \E p \in Packet : nx_link_packet_send(p)

Interrupt ==
    \/ on_transmit_complete
    \/ on_receive_complete
    \/ on_event

Next ==
    \/ DriverStep
    \/ Command
    \/ nx_link_deferred_processing
    \/ Interrupt
    \/ CableMovesUnseen
    \/ \E p \in Packet : NetxAllocate(p) \/ NetxRelease(p)

Spec == Init /\ [][Next]_vars

\* A command in progress is finished, a frame in flight completes, and the IP
\* thread, which queues for the IP mutex like every other caller, gets its turn.
FairSpec ==
    /\ Spec
    /\ WF_vars(DriverStep)
    /\ WF_vars(on_transmit_complete)
    /\ SF_vars(nx_link_deferred_processing)

-----------------------------------------------------------------------------
(* Inductive strengthenings used by NxDriverProofs.                         *)

Sending == {"send", "send_buffer", "send_transmit"}

\* What the command in progress knows of the driver's state.
CommandKnows ==
    /\ pc = "init" => state = NX_DRIVER_STATE_NOT_INITIALIZED
    /\ pc = "enable" => state = NX_DRIVER_STATE_INITIALIZED
    /\ pc \in Sending => state = NX_DRIVER_STATE_LINK_ENABLED /\ packet # NoPacket
    /\ pc \in {"send_buffer", "send_transmit"} => ~busy_transmitting

\* A frame is in flight only over an enabled link, and none was lost before it.
InFlightOverLink ==
    in_flight # NoPacket =>
        state = NX_DRIVER_STATE_LINK_ENABLED /\ pc # "disable" /\ ~wedged

\* A send in progress owns outgoing_packet, and its packet unless a completion
\* released that one under it.
SendOwnsPacket ==
    /\ pc \in Sending =>
          /\ packet \in Packet
          /\ outgoing_packet = packet
          /\ packet # in_flight
          /\ packet \notin stray => holder[packet] = "netx" /\ headers[packet] = 1
          /\ in_flight # NoPacket => overlapped
    /\ pc \notin Sending => packet = NoPacket

-----------------------------------------------------------------------------
(* Properties.                                                              *)

\* Whatever the commands and the interrupts do, the busy flag is up exactly while
\* the EMAC holds a frame, so that two frames are never in flight together; or
\* else the link was disabled in mid-transmission (nx_driver_mdh.c:209), and no
\* send succeeds before the next initialisation.
TxInterlock == busy_transmitting <=> (in_flight # NoPacket \/ wedged)

\* "The packet is released in the transmit callback if successfully sent or an
\* error occurs whilst sending. Otherwise it is up to the application to
\* release" (end of nx_link_packet_send, nx_driver_mdh.c:256-257): the callback
\* that ends a frame's transmission releases that frame's packet.
CompletionReleasesItsPacket ==
    [][\A p \in Packet : in_flight = p /\ on_transmit_complete => holder'[p] = "pool"]_vars

\* The packet of the frame in flight is in the driver's hands, with exactly one
\* Ethernet header unless an earlier callback had taken it for another's, and the
\* callback will release it exactly if no other send command was issued since:
\* being refused as busy is enough to mislead the callback, and nothing else is.
MisledOnlyByOverlap ==
    \A p \in Packet : in_flight = p =>
        /\ holder[p] = "driver"
        /\ p \notin stray => headers[p] = 1
        /\ outgoing_packet = p <=> ~overlapped

\* The driver keeps no packet but the one in flight and those whose completion
\* went to another packet or was lost with the power of the EMAC.
NoOtherPacketKept ==
    \A p \in Packet : holder[p] = "driver" => p = in_flight \/ p \in stranded

\* The busy flag, outgoing_packet and the packets' holders agree on the frame in
\* flight across commands, refusals and completions.
CompletionsAccounted == TxInterlock /\ MisledOnlyByOverlap /\ NoOtherPacketKept

\* Every path out of a send command, and the callback, leave a packet that is
\* not the driver's as NetX passed it, with no Ethernet header left on it or
\* stripped twice, unless a completion took it for the packet in flight.
PacketsRestored ==
    \A p \in Packet \ stray : p # packet /\ holder[p] # "driver" => headers[p] = 0

\* Buffers are freed once, and lost only where nobody can free them: the heap holds
\* the buffer of the frame in flight, the one the command in progress is working
\* on, and those of refused and of interrupted transmissions.
BufferInHand == pc \in {"send_transmit", "rx_fetch", "rx_packet"}
BuffersCounted ==
    heap = leaked + (IF in_flight # NoPacket THEN 1 ELSE 0) + (IF BufferInHand THEN 1 ELSE 0)

\* No path of a send or a receive, completed, refused or failing half-way, leaves
\* a packet altered, a buffer freed twice, or one lost that the EMAC did not refuse or
\* lose its power over (nx_driver_mdh.c:426).
BuffersAccounted == PacketsRestored /\ BuffersCounted

\* An event bit set by the receive interrupt, at whatever point of the deferred
\* processing it falls, always has a processing request behind it.
DeferredEventRequested == deferred_event => requested

\* A frame waits in the EMAC without anybody coming for it only if its
\* interrupt merged with an earlier one or its deferred processing gave up.
PendingReceives ==
    (IF deferred_event THEN 1 ELSE 0) + (IF pc \in {"rx_buffer", "rx_fetch"} THEN 1 ELSE 0)
FramesAnnounced == rx_frames <= PendingReceives + unannounced

\* Inverting the flag on every event keeps it equal to the cable's state for as
\* long as the link is enabled, exactly if it was so when the link was enabled.
LinkFlagFollowsCable ==
    state = NX_DRIVER_STATE_LINK_ENABLED /\ pc # "disable" => drift = (link_up # cable)

\* What the interrupts told the driver is not forgotten while threads copy, clear
\* and act on it: event bits, frames and the state of the cable.
EventsAccounted == DeferredEventRequested /\ FramesAnnounced /\ LinkFlagFollowsCable

\* Liveness: a packet accepted for transmission goes back to the pool, unless its
\* completion was misled or lost with the power of the EMAC.
AcceptedPacketReleased ==
    \A p \in Packet : in_flight = p ~> (holder[p] = "pool" \/ p \in stranded)

\* Liveness: the busy flag falls again, unless the link was disabled meanwhile.
BusyEnds == busy_transmitting ~> (~busy_transmitting \/ wedged)

\* Liveness: an event bit is always consumed by a later deferred processing.
DeferredEventConsumed == deferred_event ~> ~deferred_event

\* Liveness: what the EMAC or an interrupt started is finished: the transmission,
\* for its packet and for the next sender, and the deferred event.
WorkFinishes == AcceptedPacketReleased /\ BusyEnds /\ DeferredEventConsumed

\* The inductive invariants.
InterlockInv == TypeOK /\ CommandKnows /\ InFlightOverLink /\ TxInterlock
OwnershipInv ==
    /\ InterlockInv
    /\ SendOwnsPacket
    /\ MisledOnlyByOverlap
    /\ NoOtherPacketKept
    /\ PacketsRestored
=============================================================================
