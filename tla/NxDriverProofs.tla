--------------------------- MODULE NxDriverProofs ---------------------------
(***************************************************************************)
(* Proofs about NxDriver, for every packet pool, heap and queue size.      *)
(***************************************************************************)
EXTENDS NxDriver, TLAPS

\* Adding or removing a header, and handing a packet over, keep the two packet
\* tables typed, whichever packet (or NULL) is named.
LEMMA HeadersTyped ==
  ASSUME NEW h \in [Packet -> Int], NEW p
  PROVE  /\ [h EXCEPT ![p] = @ + 1] \in [Packet -> Int]
         /\ [h EXCEPT ![p] = @ - 1] \in [Packet -> Int]
         /\ [h EXCEPT ![p] = 0] \in [Packet -> Int]
<1>1. CASE p \in Packet
  BY <1>1
<1>2. CASE p \notin Packet
  <2>1. /\ [h EXCEPT ![p] = @ + 1] = h
        /\ [h EXCEPT ![p] = @ - 1] = h
        /\ [h EXCEPT ![p] = 0] = h
    BY <1>2
  <2> QED
    BY <2>1
<1> QED
  BY <1>1, <1>2

\* Whoever a packet is handed to is one of its possible holders.
LEMMA HolderTyped ==
  ASSUME NEW h \in [Packet -> {"pool", "netx", "driver"}], NEW p,
         NEW s \in {"pool", "netx", "driver"}
  PROVE  [h EXCEPT ![p] = s] \in [Packet -> {"pool", "netx", "driver"}]
OBVIOUS

\* Typing is preserved by every step of the driver, of its interrupts and of NetX.
LEMMA TypeStep == TypeOK /\ [Next]_vars => TypeOK'
<1> SUFFICES ASSUME TypeOK, [Next]_vars PROVE TypeOK'
  OBVIOUS
<1> USE NxDriverAssumption
<1> USE DEF TypeOK, FlagsTypeOK, CountersTypeOK, PacketsTypeOK, Nullable, States, Commands, device, packets, buffers, emac, wire, sends, history,
            NX_DRIVER_STATE_ZERO, NX_DRIVER_STATE_NOT_INITIALIZED,
            NX_DRIVER_STATE_INITIALIZED, NX_DRIVER_STATE_LINK_ENABLED
<1>1. CASE DriverStep
  <2>1. CASE LinkEnabled
    <3>1. FlagsTypeOK'
      BY <2>1 DEF LinkEnabled
    <3>2. CountersTypeOK'
      BY <2>1 DEF LinkEnabled
    <3>3. PacketsTypeOK'
      BY <2>1 DEF LinkEnabled
    <3> QED
      BY <3>1, <3>2, <3>3 DEF TypeOK
  <2>2. CASE LinkDisabled
    <3>1. FlagsTypeOK'
      BY <2>2 DEF LinkDisabled
    <3>2. CountersTypeOK'
      BY <2>2 DEF LinkDisabled
    <3>3. PacketsTypeOK'
      BY <2>2 DEF LinkDisabled
    <3> QED
      BY <3>1, <3>2, <3>3 DEF TypeOK
  <2>3. ASSUME NEW ok \in BOOLEAN, hardware_initialize(ok) PROVE TypeOK'
    <3>1. FlagsTypeOK'
      BY <2>3 DEF hardware_initialize, InitializedState
    <3>2. CountersTypeOK'
      BY <2>3 DEF hardware_initialize, InitializedState
    <3>3. PacketsTypeOK'
      BY <2>3 DEF hardware_initialize, InitializedState
    <3> QED
      BY <3>1, <3>2, <3>3 DEF TypeOK
  <2>4. ASSUME NEW ok \in BOOLEAN, Transmit(ok) PROVE TypeOK'
    <3>1. FlagsTypeOK'
      BY <2>4 DEF Transmit, MarkBusy, lose_buf, remove_nx_packet_ethernet_header
    <3>2. CountersTypeOK'
      BY <2>4 DEF Transmit, MarkBusy, lose_buf, remove_nx_packet_ethernet_header
    <3>3. PacketsTypeOK'
      BY <2>4, HeadersTyped, HolderTyped DEF Transmit, MarkBusy, lose_buf, remove_nx_packet_ethernet_header
    <3> QED
      BY <3>1, <3>2, <3>3 DEF TypeOK
  <2>5. ASSUME NEW ok \in BOOLEAN, RxFetch(ok) PROVE TypeOK'
    <3>1. FlagsTypeOK'
      BY <2>5 DEF RxFetch, free_buf
    <3>2. CountersTypeOK'
      BY <2>5 DEF RxFetch, free_buf
    <3>3. PacketsTypeOK'
      BY <2>5 DEF RxFetch, free_buf
    <3> QED
      BY <3>1, <3>2, <3>3 DEF TypeOK
  <2>6. CASE BusyTest
    <3>1. FlagsTypeOK'
      BY <2>6 DEF BusyTest, SendFails, remove_nx_packet_ethernet_header
    <3>2. CountersTypeOK'
      BY <2>6 DEF BusyTest, SendFails, remove_nx_packet_ethernet_header
    <3>3. PacketsTypeOK'
      BY <2>6, HeadersTyped, HolderTyped DEF BusyTest, SendFails, remove_nx_packet_ethernet_header
    <3> QED
      BY <3>1, <3>2, <3>3 DEF TypeOK
  <2>7. CASE SendAllocate
    <3>1. FlagsTypeOK'
      BY <2>7 DEF SendAllocate, SendFails, remove_nx_packet_ethernet_header
    <3>2. CountersTypeOK'
      BY <2>7 DEF SendAllocate, SendFails, alloc_from_heap, remove_nx_packet_ethernet_header
    <3>3. PacketsTypeOK'
      BY <2>7, HeadersTyped, HolderTyped DEF SendAllocate, SendFails, remove_nx_packet_ethernet_header
    <3> QED
      BY <3>1, <3>2, <3>3 DEF TypeOK
  <2>8. CASE RxAllocate
    <3>1. FlagsTypeOK'
      BY <2>8 DEF RxAllocate
    <3>2. CountersTypeOK'
      BY <2>8 DEF RxAllocate, alloc_from_heap
    <3>3. PacketsTypeOK'
      BY <2>8 DEF RxAllocate
    <3> QED
      BY <3>1, <3>2, <3>3 DEF TypeOK
  <2>9. CASE RxDrop
    <3>1. FlagsTypeOK'
      BY <2>9 DEF RxDrop, free_buf
    <3>2. CountersTypeOK'
      BY <2>9 DEF RxDrop, free_buf
    <3>3. PacketsTypeOK'
      BY <2>9 DEF RxDrop, free_buf
    <3> QED
      BY <3>1, <3>2, <3>3 DEF TypeOK
  <2>10. ASSUME NEW p \in Packet, RxDeliver(p) PROVE TypeOK'
    <3>1. FlagsTypeOK'
      BY <2>10 DEF RxDeliver, free_buf
    <3>2. CountersTypeOK'
      BY <2>10 DEF RxDeliver, free_buf
    <3>3. PacketsTypeOK'
      BY <2>10 DEF RxDeliver, free_buf
    <3> QED
      BY <3>1, <3>2, <3>3 DEF TypeOK
  <2> QED
    BY <1>1, <2>1, <2>2, <2>3, <2>4, <2>5, <2>6, <2>7, <2>8, <2>9, <2>10
       DEF DriverStep
<1>2. CASE Command
  <2>1. CASE nx_link_interface_attach
    <3>1. FlagsTypeOK'
      BY <2>1 DEF nx_link_interface_attach
    <3>2. CountersTypeOK'
      BY <2>1 DEF nx_link_interface_attach
    <3>3. PacketsTypeOK'
      BY <2>1 DEF nx_link_interface_attach
    <3> QED
      BY <3>1, <3>2, <3>3 DEF TypeOK
  <2>2. ASSUME NEW ok \in BOOLEAN, nx_link_initialize(ok) PROVE TypeOK'
    <3>1. FlagsTypeOK'
      BY <2>2 DEF nx_link_initialize, PowerUp
    <3>2. CountersTypeOK'
      BY <2>2 DEF nx_link_initialize, PowerUp
    <3>3. PacketsTypeOK'
      BY <2>2 DEF nx_link_initialize, PowerUp
    <3> QED
      BY <3>1, <3>2, <3>3 DEF TypeOK
  <2>3. ASSUME NEW ok \in BOOLEAN, nx_link_enable(ok) PROVE TypeOK'
    <3>1. FlagsTypeOK'
      BY <2>3 DEF nx_link_enable, PowerUp
    <3>2. CountersTypeOK'
      BY <2>3 DEF nx_link_enable, PowerUp
    <3>3. PacketsTypeOK'
      BY <2>3 DEF nx_link_enable, PowerUp
    <3> QED
      BY <3>1, <3>2, <3>3 DEF TypeOK
  <2>4. ASSUME NEW ok \in BOOLEAN, nx_link_disable(ok) PROVE TypeOK'
    <3>1. FlagsTypeOK'
      BY <2>4 DEF nx_link_disable
    <3>2. CountersTypeOK'
      BY <2>4 DEF nx_link_disable, lose_buf
    <3>3. PacketsTypeOK'
      BY <2>4 DEF nx_link_disable
    <3> QED
      BY <3>1, <3>2, <3>3 DEF TypeOK
  <2>5. ASSUME NEW g \in Group, nx_link_multicast_join(g) PROVE TypeOK'
    <3>1. FlagsTypeOK'
      BY <2>5 DEF nx_link_multicast_join
    <3>2. CountersTypeOK'
      BY <2>5 DEF nx_link_multicast_join
    <3>3. PacketsTypeOK'
      BY <2>5 DEF nx_link_multicast_join
    <3> QED
      BY <3>1, <3>2, <3>3 DEF TypeOK
  <2>6. ASSUME NEW g \in Group, nx_link_multicast_leave(g) PROVE TypeOK'
    <3>1. FlagsTypeOK'
      BY <2>6 DEF nx_link_multicast_leave
    <3>2. CountersTypeOK'
      BY <2>6 DEF nx_link_multicast_leave
    <3>3. PacketsTypeOK'
      BY <2>6 DEF nx_link_multicast_leave
    <3> QED
      BY <3>1, <3>2, <3>3 DEF TypeOK
  <2>7. ASSUME NEW p \in Packet, nx_link_packet_send(p) PROVE TypeOK'
    <3>1. FlagsTypeOK'
      BY <2>7 DEF nx_link_packet_send, RememberOutgoing, AddHeader
    <3>2. CountersTypeOK'
      BY <2>7 DEF nx_link_packet_send, RememberOutgoing, AddHeader
    <3>3. PacketsTypeOK'
      BY <2>7 DEF nx_link_packet_send, RememberOutgoing, AddHeader
    <3> QED
      BY <3>1, <3>2, <3>3 DEF TypeOK
  <2> QED
    BY <1>2, <2>1, <2>2, <2>3, <2>4, <2>5, <2>6, <2>7
       DEF Command
<1>3. CASE Interrupt
  <2>1. CASE on_transmit_complete
    <3>1. FlagsTypeOK'
      BY <2>1 DEF on_transmit_complete, nx_packet_transmit_release, free_buf, remove_nx_packet_ethernet_header
    <3>2. CountersTypeOK'
      BY <2>1 DEF on_transmit_complete, nx_packet_transmit_release, free_buf, remove_nx_packet_ethernet_header
    <3>3. PacketsTypeOK'
      BY <2>1, HeadersTyped, HolderTyped DEF on_transmit_complete, nx_packet_transmit_release, free_buf, remove_nx_packet_ethernet_header
    <3> QED
      BY <3>1, <3>2, <3>3 DEF TypeOK
  <2>2. CASE on_receive_complete
    <3>1. FlagsTypeOK'
      BY <2>2 DEF on_receive_complete, RequestDeferred
    <3>2. CountersTypeOK'
      BY <2>2 DEF on_receive_complete, RequestDeferred
    <3>3. PacketsTypeOK'
      BY <2>2 DEF on_receive_complete, RequestDeferred
    <3> QED
      BY <3>1, <3>2, <3>3 DEF TypeOK
  <2>3. CASE on_event
    <3>1. FlagsTypeOK'
      BY <2>3 DEF on_event, InferLink
    <3>2. CountersTypeOK'
      BY <2>3 DEF on_event, InferLink
    <3>3. PacketsTypeOK'
      BY <2>3 DEF on_event, InferLink
    <3> QED
      BY <3>1, <3>2, <3>3 DEF TypeOK
  <2> QED
    BY <1>3, <2>1, <2>2, <2>3
       DEF Interrupt
<1>4. CASE nx_link_deferred_processing
  <2>1. FlagsTypeOK'
    BY <1>4 DEF nx_link_deferred_processing, TakeEvents, AfterEvents
  <2>2. CountersTypeOK'
    BY <1>4 DEF nx_link_deferred_processing, TakeEvents, AfterEvents
  <2>3. PacketsTypeOK'
    BY <1>4 DEF nx_link_deferred_processing, TakeEvents, AfterEvents
  <2> QED
    BY <2>1, <2>2, <2>3 DEF TypeOK
<1>5. CASE CableMovesUnseen
  <2>1. FlagsTypeOK'
    BY <1>5 DEF CableMovesUnseen
  <2>2. CountersTypeOK'
    BY <1>5 DEF CableMovesUnseen
  <2>3. PacketsTypeOK'
    BY <1>5 DEF CableMovesUnseen
  <2> QED
    BY <2>1, <2>2, <2>3 DEF TypeOK
<1>6. ASSUME NEW p \in Packet, NetxAllocate(p) PROVE TypeOK'
  <2>1. FlagsTypeOK'
    BY <1>6 DEF NetxAllocate
  <2>2. CountersTypeOK'
    BY <1>6 DEF NetxAllocate
  <2>3. PacketsTypeOK'
    BY <1>6 DEF NetxAllocate
  <2> QED
    BY <2>1, <2>2, <2>3 DEF TypeOK
<1>7. ASSUME NEW p \in Packet, NetxRelease(p) PROVE TypeOK'
  <2>1. FlagsTypeOK'
    BY <1>7 DEF NetxRelease
  <2>2. CountersTypeOK'
    BY <1>7 DEF NetxRelease
  <2>3. PacketsTypeOK'
    BY <1>7 DEF NetxRelease
  <2> QED
    BY <2>1, <2>2, <2>3 DEF TypeOK
<1>8. CASE UNCHANGED vars
  BY <1>8 DEF vars
<1> QED
  BY <1>1, <1>2, <1>3, <1>4, <1>5, <1>6, <1>7, <1>8 DEF Next

\* The initial state is typed.
LEMMA TypeInit == Init => TypeOK
<1> SUFFICES ASSUME Init PROVE TypeOK
  OBVIOUS
<1> USE NxDriverAssumption DEF Init, Nullable
<1>1. FlagsTypeOK
  BY DEF FlagsTypeOK
<1>2. CountersTypeOK
  BY DEF CountersTypeOK, States, NX_DRIVER_STATE_ZERO
<1>3. PacketsTypeOK
  BY DEF PacketsTypeOK, Commands
<1> QED
  BY <1>1, <1>2, <1>3 DEF TypeOK

\* Type correctness of the driver.
THEOREM TypeCorrect == Spec => []TypeOK
  BY TypeInit, TypeStep, PTL DEF Spec

-----------------------------------------------------------------------------
\* The states the commands tell apart are different.
LEMMA StatesDistinct ==
  /\ NX_DRIVER_STATE_LINK_ENABLED # NX_DRIVER_STATE_NOT_INITIALIZED
  /\ NX_DRIVER_STATE_LINK_ENABLED # NX_DRIVER_STATE_INITIALIZED
  /\ NX_DRIVER_STATE_LINK_ENABLED # NX_DRIVER_STATE_ZERO
BY DEF NX_DRIVER_STATE_ZERO, NX_DRIVER_STATE_NOT_INITIALIZED,
       NX_DRIVER_STATE_INITIALIZED, NX_DRIVER_STATE_LINK_ENABLED

\* The busy flag covers the frame in flight across every step: a command that
\* clears the flag runs where no frame can be in flight.
LEMMA InterlockStep ==
  TypeOK /\ CommandKnows /\ InFlightOverLink /\ TxInterlock /\ [Next]_vars
    => (CommandKnows /\ InFlightOverLink /\ TxInterlock)'
<1> SUFFICES ASSUME TypeOK, CommandKnows, InFlightOverLink, TxInterlock, [Next]_vars
             PROVE  (CommandKnows /\ InFlightOverLink /\ TxInterlock)'
  OBVIOUS
<1>a. busy_transmitting \in BOOLEAN /\ wedged \in BOOLEAN
  BY DEF TypeOK, FlagsTypeOK
<1>b. NoPacket \notin Packet
  BY NxDriverAssumption
<1> USE <1>a, <1>b, StatesDistinct
<1> USE DEF CommandKnows, InFlightOverLink, TxInterlock, Sending, device, packets, buffers, emac, wire, sends, history
<1>1. CASE DriverStep
  <2>1. CASE LinkEnabled
    BY <2>1 DEF LinkEnabled
  <2>2. CASE LinkDisabled
    BY <2>2 DEF LinkDisabled
  <2>3. ASSUME NEW ok \in BOOLEAN, hardware_initialize(ok) PROVE (CommandKnows /\ InFlightOverLink /\ TxInterlock)'
    BY <2>3 DEF hardware_initialize, InitializedState
  <2>4. ASSUME NEW ok \in BOOLEAN, Transmit(ok) PROVE (CommandKnows /\ InFlightOverLink /\ TxInterlock)'
    BY <2>4 DEF Transmit, MarkBusy, lose_buf, remove_nx_packet_ethernet_header
  <2>5. ASSUME NEW ok \in BOOLEAN, RxFetch(ok) PROVE (CommandKnows /\ InFlightOverLink /\ TxInterlock)'
    BY <2>5 DEF RxFetch, free_buf
  <2>6. CASE BusyTest
    BY <2>6 DEF BusyTest, SendFails, remove_nx_packet_ethernet_header
  <2>7. CASE SendAllocate
    BY <2>7 DEF SendAllocate, SendFails, remove_nx_packet_ethernet_header
  <2>8. CASE RxAllocate
    BY <2>8 DEF RxAllocate
  <2>9. CASE RxDrop
    BY <2>9 DEF RxDrop, free_buf
  <2>10. ASSUME NEW p \in Packet, RxDeliver(p) PROVE (CommandKnows /\ InFlightOverLink /\ TxInterlock)'
    BY <2>10 DEF RxDeliver, free_buf
  <2> QED
    BY <1>1, <2>1, <2>2, <2>3, <2>4, <2>5, <2>6, <2>7, <2>8, <2>9, <2>10
       DEF DriverStep
<1>2. CASE Command
  <2>1. CASE nx_link_interface_attach
    BY <2>1 DEF nx_link_interface_attach
  <2>2. ASSUME NEW ok \in BOOLEAN, nx_link_initialize(ok) PROVE (CommandKnows /\ InFlightOverLink /\ TxInterlock)'
    BY <2>2 DEF nx_link_initialize, PowerUp
  <2>3. ASSUME NEW ok \in BOOLEAN, nx_link_enable(ok) PROVE (CommandKnows /\ InFlightOverLink /\ TxInterlock)'
    BY <2>3 DEF nx_link_enable, PowerUp
  <2>4. ASSUME NEW ok \in BOOLEAN, nx_link_disable(ok) PROVE (CommandKnows /\ InFlightOverLink /\ TxInterlock)'
    BY <2>4 DEF nx_link_disable
  <2>5. ASSUME NEW g \in Group, nx_link_multicast_join(g) PROVE (CommandKnows /\ InFlightOverLink /\ TxInterlock)'
    BY <2>5 DEF nx_link_multicast_join
  <2>6. ASSUME NEW g \in Group, nx_link_multicast_leave(g) PROVE (CommandKnows /\ InFlightOverLink /\ TxInterlock)'
    BY <2>6 DEF nx_link_multicast_leave
  <2>7. ASSUME NEW p \in Packet, nx_link_packet_send(p) PROVE (CommandKnows /\ InFlightOverLink /\ TxInterlock)'
    BY <2>7 DEF nx_link_packet_send, RememberOutgoing, AddHeader
  <2> QED
    BY <1>2, <2>1, <2>2, <2>3, <2>4, <2>5, <2>6, <2>7
       DEF Command
<1>3. CASE Interrupt
  <2>1. CASE on_transmit_complete
    BY <2>1 DEF on_transmit_complete, nx_packet_transmit_release, free_buf, remove_nx_packet_ethernet_header
  <2>2. CASE on_receive_complete
    BY <2>2 DEF on_receive_complete, RequestDeferred
  <2>3. CASE on_event
    BY <2>3 DEF on_event, InferLink
  <2> QED
    BY <1>3, <2>1, <2>2, <2>3
       DEF Interrupt
<1>4. CASE nx_link_deferred_processing
  BY <1>4 DEF nx_link_deferred_processing, TakeEvents, AfterEvents
<1>5. CASE CableMovesUnseen
  BY <1>5 DEF CableMovesUnseen
<1>6. ASSUME NEW p \in Packet, NetxAllocate(p) PROVE (CommandKnows /\ InFlightOverLink /\ TxInterlock)'
  BY <1>6 DEF NetxAllocate
<1>7. ASSUME NEW p \in Packet, NetxRelease(p) PROVE (CommandKnows /\ InFlightOverLink /\ TxInterlock)'
  BY <1>7 DEF NetxRelease
<1>8. CASE UNCHANGED vars
  BY <1>8 DEF vars
<1> QED
  BY <1>1, <1>2, <1>3, <1>4, <1>5, <1>6, <1>7, <1>8 DEF Next

\* The EMAC never holds two frames: the busy flag is up exactly while a frame is in
\* flight, or was lost when the link was disabled, however NetX overlaps its sends.
THEOREM Interlocked == Spec => []TxInterlock
<1>1. Init => InterlockInv
  <2>1. Init => CommandKnows /\ InFlightOverLink /\ TxInterlock
    BY DEF Init, CommandKnows, InFlightOverLink, TxInterlock, Sending
  <2> QED
    BY <2>1, TypeInit DEF InterlockInv
<1>2. InterlockInv /\ [Next]_vars => InterlockInv'
  BY TypeStep, InterlockStep DEF InterlockInv
<1>3. InterlockInv => TxInterlock
  BY DEF InterlockInv
<1> QED
  BY <1>1, <1>2, <1>3, PTL DEF Spec

-----------------------------------------------------------------------------
\* What a completion and a send in progress may rely on.
Ownership ==
    /\ SendOwnsPacket
    /\ MisledOnlyByOverlap
    /\ NoOtherPacketKept
    /\ PacketsRestored

\* Every step keeps the packet of the command, outgoing_packet and the frame in
\* flight in the agreement that overlapping sends leave.
LEMMA OwnershipStep == OwnershipInv /\ [Next]_vars => Ownership'
<1> SUFFICES ASSUME OwnershipInv, [Next]_vars
             PROVE  Ownership'
  OBVIOUS
<1>a. /\ holder \in [Packet -> {"pool", "netx", "driver"}]
      /\ headers \in [Packet -> Int]
      /\ in_flight \in Packet \cup {NoPacket}
      /\ outgoing_packet \in Packet \cup {NoPacket}
      /\ stray \in SUBSET Packet
      /\ stranded \in SUBSET Packet
      /\ overlapped \in BOOLEAN
      /\ pc \in {"send_buffer", "send_transmit"} => in_flight = NoPacket
  BY DEF OwnershipInv, InterlockInv, TypeOK, PacketsTypeOK, FlagsTypeOK, Nullable,
         CommandKnows, TxInterlock
<1>b. SendOwnsPacket /\ MisledOnlyByOverlap /\ NoOtherPacketKept /\ PacketsRestored
  BY DEF OwnershipInv
<1> USE <1>a, <1>b, NxDriverAssumption
<1> USE DEF Ownership, SendOwnsPacket, MisledOnlyByOverlap, NoOtherPacketKept,
            PacketsRestored, Sending, device, packets, buffers, emac, wire, sends, history
<1>1. CASE DriverStep
  <2>1. CASE LinkEnabled
    BY <2>1 DEF LinkEnabled
  <2>2. CASE LinkDisabled
    BY <2>2 DEF LinkDisabled
  <2>3. ASSUME NEW ok \in BOOLEAN, hardware_initialize(ok) PROVE Ownership'
    BY <2>3 DEF hardware_initialize, InitializedState
  <2>4. ASSUME NEW ok \in BOOLEAN, Transmit(ok) PROVE Ownership'
    BY <2>4 DEF Transmit, MarkBusy, lose_buf, remove_nx_packet_ethernet_header
  <2>5. ASSUME NEW ok \in BOOLEAN, RxFetch(ok) PROVE Ownership'
    BY <2>5 DEF RxFetch, free_buf
  <2>6. CASE BusyTest
    BY <2>6 DEF BusyTest, SendFails, remove_nx_packet_ethernet_header
  <2>7. CASE SendAllocate
    BY <2>7 DEF SendAllocate, SendFails, remove_nx_packet_ethernet_header
  <2>8. CASE RxAllocate
    BY <2>8 DEF RxAllocate
  <2>9. CASE RxDrop
    BY <2>9 DEF RxDrop, free_buf
  <2>10. ASSUME NEW p \in Packet, RxDeliver(p) PROVE Ownership'
    BY <2>10 DEF RxDeliver, free_buf
  <2> QED
    BY <1>1, <2>1, <2>2, <2>3, <2>4, <2>5, <2>6, <2>7, <2>8, <2>9, <2>10
       DEF DriverStep
<1>2. CASE Command
  <2>1. CASE nx_link_interface_attach
    BY <2>1 DEF nx_link_interface_attach
  <2>2. ASSUME NEW ok \in BOOLEAN, nx_link_initialize(ok) PROVE Ownership'
    BY <2>2 DEF nx_link_initialize, PowerUp
  <2>3. ASSUME NEW ok \in BOOLEAN, nx_link_enable(ok) PROVE Ownership'
    BY <2>3 DEF nx_link_enable, PowerUp
  <2>4. ASSUME NEW ok \in BOOLEAN, nx_link_disable(ok) PROVE Ownership'
    BY <2>4 DEF nx_link_disable
  <2>5. ASSUME NEW g \in Group, nx_link_multicast_join(g) PROVE Ownership'
    BY <2>5 DEF nx_link_multicast_join
  <2>6. ASSUME NEW g \in Group, nx_link_multicast_leave(g) PROVE Ownership'
    BY <2>6 DEF nx_link_multicast_leave
  <2>7. ASSUME NEW p \in Packet, nx_link_packet_send(p) PROVE Ownership'
    <3>a. /\ pc = "idle" /\ pc' = "send" /\ packet = NoPacket /\ packet' = p
          /\ p # NoPacket /\ p # in_flight /\ holder[p] = "netx"
          /\ outgoing_packet' = p /\ in_flight' = in_flight
          /\ overlapped' = (in_flight # NoPacket)
          /\ holder' = holder /\ stray' = stray /\ stranded' = stranded
      BY <2>7 DEF nx_link_packet_send, RememberOutgoing
    <3>b. \A q \in Packet : headers'[q] = IF q = p THEN headers[q] + 1 ELSE headers[q]
      BY <2>7 DEF nx_link_packet_send, AddHeader
    <3>c. p \notin stray => headers[p] = 0
      BY <3>a
    <3>d. headers'[p] = headers[p] + 1
      BY <3>b
    <3>e. /\ in_flight # NoPacket => overlapped'
          /\ in_flight = NoPacket => ~overlapped'
      BY <3>a
    <3>1. SendOwnsPacket'
      <4> HIDE DEF MisledOnlyByOverlap, NoOtherPacketKept, PacketsRestored
      <4>1. p \notin stray => headers'[p] = 1
        BY <3>c, <3>d
      <4> QED
        BY <3>a, <3>e, <4>1
    <3>2. MisledOnlyByOverlap'
      <4> SUFFICES ASSUME NEW q \in Packet, in_flight' = q
                   PROVE  /\ holder'[q] = "driver"
                          /\ q \notin stray' => headers'[q] = 1
                          /\ outgoing_packet' = q <=> ~overlapped'
        OBVIOUS
      <4>1. q = in_flight /\ q # p /\ q # NoPacket /\ overlapped'
        BY <3>a, <3>e
      <4>2. holder'[q] = "driver" /\ (q \notin stray' => headers'[q] = 1)
        BY <3>a, <3>b, <4>1
      <4> QED
        BY <3>a, <4>1, <4>2
    <3>3. NoOtherPacketKept' /\ PacketsRestored'
      BY <3>a, <3>b
    <3> QED
      BY <3>1, <3>2, <3>3
  <2> QED
    BY <1>2, <2>1, <2>2, <2>3, <2>4, <2>5, <2>6, <2>7
       DEF Command
<1>3. CASE Interrupt
  <2>1. CASE on_transmit_complete
    BY <2>1 DEF on_transmit_complete, nx_packet_transmit_release, free_buf, remove_nx_packet_ethernet_header
  <2>2. CASE on_receive_complete
    BY <2>2 DEF on_receive_complete, RequestDeferred
  <2>3. CASE on_event
    BY <2>3 DEF on_event, InferLink
  <2> QED
    BY <1>3, <2>1, <2>2, <2>3
       DEF Interrupt
<1>4. CASE nx_link_deferred_processing
  BY <1>4 DEF nx_link_deferred_processing, TakeEvents, AfterEvents
<1>5. CASE CableMovesUnseen
  BY <1>5 DEF CableMovesUnseen
<1>6. ASSUME NEW p \in Packet, NetxAllocate(p) PROVE Ownership'
  BY <1>6 DEF NetxAllocate
<1>7. ASSUME NEW p \in Packet, NetxRelease(p) PROVE Ownership'
  BY <1>7 DEF NetxRelease
<1>8. CASE UNCHANGED vars
  BY <1>8 DEF vars
<1> QED
  BY <1>1, <1>2, <1>3, <1>4, <1>5, <1>6, <1>7, <1>8 DEF Next

\* Overlapping sends mislead the transmit callback, and only they do: the busy flag
\* is up exactly while a frame is in flight or lost to a link disable, a frame whose
\* packet was not released under it has that packet in the driver's hands with one
\* header, the callback will release it exactly if no send command was issued since,
\* and no other packet stays behind in the driver unnoticed.
THEOREM CompletionSafe == Spec => []CompletionsAccounted
<1>1. Init => OwnershipInv
  <2>1. Init => Ownership
    BY NxDriverAssumption
       DEF Init, Ownership, SendOwnsPacket, MisledOnlyByOverlap, NoOtherPacketKept,
           PacketsRestored, Sending
  <2>2. Init => CommandKnows /\ InFlightOverLink /\ TxInterlock
    BY DEF Init, CommandKnows, InFlightOverLink, TxInterlock, Sending
  <2> QED
    BY <2>1, <2>2, TypeInit DEF OwnershipInv, InterlockInv, Ownership
<1>2. OwnershipInv /\ [Next]_vars => OwnershipInv'
  <2>1. OwnershipInv /\ [Next]_vars => InterlockInv'
    BY TypeStep, InterlockStep DEF OwnershipInv, InterlockInv
  <2> QED
    BY <2>1, OwnershipStep DEF OwnershipInv, Ownership
<1>3. OwnershipInv => CompletionsAccounted
  BY DEF OwnershipInv, InterlockInv, CompletionsAccounted
<1> QED
  BY <1>1, <1>2, <1>3, PTL DEF Spec

-----------------------------------------------------------------------------
(* Buffers and events.                                                      *)

\* The heap holds the buffer of the frame in flight and the one in hand across
\* every step; a send that has its buffer meets no frame in flight.
LEMMA HeapStep ==
  InterlockInv /\ SendOwnsPacket /\ BuffersCounted /\ [Next]_vars => BuffersCounted'
<1> SUFFICES ASSUME InterlockInv, SendOwnsPacket, BuffersCounted, [Next]_vars
             PROVE  BuffersCounted'
  OBVIOUS
<1>a. /\ heap \in Int /\ leaked \in Nat /\ busy_transmitting \in BOOLEAN /\ MaxHeap \in Nat
      /\ pc \in {"send_buffer", "send_transmit"} => in_flight = NoPacket
      /\ pc = "send_transmit" => packet # NoPacket
  BY NxDriverAssumption DEF InterlockInv, TypeOK, FlagsTypeOK, CountersTypeOK, CommandKnows,
     TxInterlock, SendOwnsPacket, Sending
<1> USE <1>a DEF BuffersCounted, BufferInHand, device, packets, buffers, emac, wire, sends, history
<1>1. CASE LinkEnabled
  BY <1>1 DEF LinkEnabled
<1>2. CASE LinkDisabled
  BY <1>2 DEF LinkDisabled
<1>3. ASSUME NEW ok \in BOOLEAN, hardware_initialize(ok) PROVE BuffersCounted'
  BY <1>3 DEF hardware_initialize, InitializedState
<1>4. ASSUME NEW ok \in BOOLEAN, Transmit(ok) PROVE BuffersCounted'
  BY <1>4 DEF Transmit, MarkBusy, lose_buf
<1>5. ASSUME NEW ok \in BOOLEAN, RxFetch(ok) PROVE BuffersCounted'
  BY <1>5 DEF RxFetch, free_buf
<1>6. CASE BusyTest
  BY <1>6 DEF BusyTest, SendFails
<1>7. CASE SendAllocate
  BY <1>7 DEF SendAllocate, SendFails, alloc_from_heap
<1>8. CASE RxAllocate
  BY <1>8 DEF RxAllocate, alloc_from_heap
<1>9. CASE RxDrop
  BY <1>9 DEF RxDrop, free_buf
<1>10. ASSUME NEW p \in Packet, RxDeliver(p) PROVE BuffersCounted'
  BY <1>10 DEF RxDeliver, free_buf
<1>11. CASE nx_link_interface_attach
  BY <1>11 DEF nx_link_interface_attach
<1>12. ASSUME NEW ok \in BOOLEAN, nx_link_initialize(ok) PROVE BuffersCounted'
  BY <1>12 DEF nx_link_initialize, PowerUp
<1>13. ASSUME NEW ok \in BOOLEAN, nx_link_enable(ok) PROVE BuffersCounted'
  BY <1>13 DEF nx_link_enable, PowerUp
<1>14. ASSUME NEW ok \in BOOLEAN, nx_link_disable(ok) PROVE BuffersCounted'
  BY <1>14 DEF nx_link_disable, lose_buf
<1>15. ASSUME NEW g \in Group, nx_link_multicast_join(g) PROVE BuffersCounted'
  BY <1>15 DEF nx_link_multicast_join
<1>16. ASSUME NEW g \in Group, nx_link_multicast_leave(g) PROVE BuffersCounted'
  BY <1>16 DEF nx_link_multicast_leave
<1>17. ASSUME NEW p \in Packet, nx_link_packet_send(p) PROVE BuffersCounted'
  BY <1>17 DEF nx_link_packet_send
<1>18. CASE on_transmit_complete
  BY <1>18 DEF on_transmit_complete, free_buf
<1>19. CASE on_receive_complete
  BY <1>19 DEF on_receive_complete, RequestDeferred
<1>20. CASE on_event
  BY <1>20 DEF on_event, InferLink
<1>21. CASE nx_link_deferred_processing
  BY <1>21 DEF nx_link_deferred_processing, TakeEvents, AfterEvents
<1>22. CASE CableMovesUnseen
  BY <1>22 DEF CableMovesUnseen
<1>23. ASSUME NEW p \in Packet, NetxAllocate(p) PROVE BuffersCounted'
  BY <1>23 DEF NetxAllocate
<1>24. ASSUME NEW p \in Packet, NetxRelease(p) PROVE BuffersCounted'
  BY <1>24 DEF NetxRelease
<1>25. CASE UNCHANGED vars
  BY <1>25 DEF vars
<1> QED
  BY <1>1, <1>2, <1>3, <1>4, <1>5, <1>6, <1>7, <1>8, <1>9, <1>10, <1>11, <1>12, <1>13,
     <1>14, <1>15, <1>16, <1>17, <1>18, <1>19, <1>20, <1>21, <1>22, <1>23, <1>24, <1>25
     DEF Next, DriverStep, Command, Interrupt

\* No path of a send or a receive leaves a packet altered, unless a completion took
\* it for the one in flight, a buffer freed twice, or lost but by a refused or an interrupted
\* transmission (nx_driver_mdh.c:229-460), for
\* any number of packets and any size of the heap.
THEOREM BuffersSafe == Spec => []BuffersAccounted
<1>1. Init => OwnershipInv /\ BuffersCounted
  <2>1. Init => Ownership
    BY NxDriverAssumption
       DEF Init, Ownership, SendOwnsPacket, MisledOnlyByOverlap, NoOtherPacketKept,
           PacketsRestored, Sending
  <2>2. Init => CommandKnows /\ InFlightOverLink /\ TxInterlock
    BY DEF Init, CommandKnows, InFlightOverLink, TxInterlock, Sending
  <2>3. Init => BuffersCounted
    BY DEF Init, BuffersCounted, BufferInHand
  <2> QED
    BY <2>1, <2>2, <2>3, TypeInit DEF OwnershipInv, InterlockInv, Ownership
<1>2. OwnershipInv /\ BuffersCounted /\ [Next]_vars
        => (OwnershipInv /\ BuffersCounted)'
  BY TypeStep, InterlockStep, OwnershipStep, HeapStep
     DEF OwnershipInv, InterlockInv, Ownership
<1>3. OwnershipInv /\ BuffersCounted => BuffersAccounted
  BY DEF OwnershipInv, BuffersAccounted
<1> QED
  BY <1>1, <1>2, <1>3, PTL DEF Spec

\* A deferred event keeps the request behind it, and every frame its announcement.
LEMMA FramesStep ==
  TypeOK /\ DeferredEventRequested /\ FramesAnnounced /\ [Next]_vars
    => (DeferredEventRequested /\ FramesAnnounced)'
<1> SUFFICES ASSUME TypeOK, DeferredEventRequested, FramesAnnounced, [Next]_vars
             PROVE  (DeferredEventRequested /\ FramesAnnounced)'
  OBVIOUS
<1>a. /\ rx_frames \in Nat /\ unannounced \in Nat
      /\ deferred_event \in BOOLEAN /\ requested \in BOOLEAN
  BY DEF TypeOK, FlagsTypeOK, CountersTypeOK
<1> USE <1>a DEF DeferredEventRequested, FramesAnnounced, PendingReceives, device, packets, buffers, emac, wire, sends, history
<1>1. CASE LinkEnabled
  BY <1>1 DEF LinkEnabled
<1>2. CASE LinkDisabled
  BY <1>2 DEF LinkDisabled
<1>3. ASSUME NEW ok \in BOOLEAN, hardware_initialize(ok) PROVE (DeferredEventRequested /\ FramesAnnounced)'
  BY <1>3 DEF hardware_initialize, InitializedState
<1>4. ASSUME NEW ok \in BOOLEAN, Transmit(ok) PROVE (DeferredEventRequested /\ FramesAnnounced)'
  BY <1>4 DEF Transmit, MarkBusy, lose_buf
<1>5. ASSUME NEW ok \in BOOLEAN, RxFetch(ok) PROVE (DeferredEventRequested /\ FramesAnnounced)'
  BY <1>5 DEF RxFetch, free_buf
<1>6. CASE BusyTest
  BY <1>6 DEF BusyTest, SendFails
<1>7. CASE SendAllocate
  BY <1>7 DEF SendAllocate, SendFails
<1>8. CASE RxAllocate
  BY <1>8 DEF RxAllocate
<1>9. CASE RxDrop
  BY <1>9 DEF RxDrop, free_buf
<1>10. ASSUME NEW p \in Packet, RxDeliver(p) PROVE (DeferredEventRequested /\ FramesAnnounced)'
  BY <1>10 DEF RxDeliver, free_buf
<1>11. CASE nx_link_interface_attach
  BY <1>11 DEF nx_link_interface_attach
<1>12. ASSUME NEW ok \in BOOLEAN, nx_link_initialize(ok) PROVE (DeferredEventRequested /\ FramesAnnounced)'
  BY <1>12 DEF nx_link_initialize, PowerUp
<1>13. ASSUME NEW ok \in BOOLEAN, nx_link_enable(ok) PROVE (DeferredEventRequested /\ FramesAnnounced)'
  BY <1>13 DEF nx_link_enable, PowerUp
<1>14. ASSUME NEW ok \in BOOLEAN, nx_link_disable(ok) PROVE (DeferredEventRequested /\ FramesAnnounced)'
  BY <1>14 DEF nx_link_disable
<1>15. ASSUME NEW g \in Group, nx_link_multicast_join(g) PROVE (DeferredEventRequested /\ FramesAnnounced)'
  BY <1>15 DEF nx_link_multicast_join
<1>16. ASSUME NEW g \in Group, nx_link_multicast_leave(g) PROVE (DeferredEventRequested /\ FramesAnnounced)'
  BY <1>16 DEF nx_link_multicast_leave
<1>17. ASSUME NEW p \in Packet, nx_link_packet_send(p) PROVE (DeferredEventRequested /\ FramesAnnounced)'
  BY <1>17 DEF nx_link_packet_send
<1>18. CASE on_transmit_complete
  BY <1>18 DEF on_transmit_complete, free_buf
<1>19. CASE on_receive_complete
  BY <1>19 DEF on_receive_complete, RequestDeferred
<1>20. CASE on_event
  BY <1>20 DEF on_event, InferLink
<1>21. CASE nx_link_deferred_processing
  BY <1>21 DEF nx_link_deferred_processing, TakeEvents, AfterEvents
<1>22. CASE CableMovesUnseen
  BY <1>22 DEF CableMovesUnseen
<1>23. ASSUME NEW p \in Packet, NetxAllocate(p) PROVE (DeferredEventRequested /\ FramesAnnounced)'
  BY <1>23 DEF NetxAllocate
<1>24. ASSUME NEW p \in Packet, NetxRelease(p) PROVE (DeferredEventRequested /\ FramesAnnounced)'
  BY <1>24 DEF NetxRelease
<1>25. CASE UNCHANGED vars
  BY <1>25 DEF vars
<1> QED
  BY <1>1, <1>2, <1>3, <1>4, <1>5, <1>6, <1>7, <1>8, <1>9, <1>10, <1>11, <1>12, <1>13,
     <1>14, <1>15, <1>16, <1>17, <1>18, <1>19, <1>20, <1>21, <1>22, <1>23, <1>24, <1>25
     DEF Next, DriverStep, Command, Interrupt

\* The EMAC that an enabled link is on is powered, so that no cable moves unseen.
PoweredOverLink ==
    pc = "enable" \/ (state = NX_DRIVER_STATE_LINK_ENABLED /\ pc # "disable") => powered

\* While the link is enabled each event turns the cable and the flag together.
LEMMA LinkStep ==
  TypeOK /\ CommandKnows /\ PoweredOverLink /\ LinkFlagFollowsCable /\ [Next]_vars
    => (PoweredOverLink /\ LinkFlagFollowsCable)'
<1> SUFFICES ASSUME TypeOK, CommandKnows, PoweredOverLink, LinkFlagFollowsCable, [Next]_vars
             PROVE  (PoweredOverLink /\ LinkFlagFollowsCable)'
  OBVIOUS
<1>a. /\ link_up \in BOOLEAN /\ cable \in BOOLEAN /\ drift \in BOOLEAN /\ powered \in BOOLEAN
  BY DEF TypeOK, FlagsTypeOK
<1> USE <1>a, StatesDistinct
    DEF CommandKnows, PoweredOverLink, LinkFlagFollowsCable, Sending, device, packets, buffers, emac, wire, sends, history
<1>1. CASE LinkEnabled
  BY <1>1 DEF LinkEnabled
<1>2. CASE LinkDisabled
  BY <1>2 DEF LinkDisabled
<1>3. ASSUME NEW ok \in BOOLEAN, hardware_initialize(ok) PROVE (PoweredOverLink /\ LinkFlagFollowsCable)'
  BY <1>3 DEF hardware_initialize, InitializedState
<1>4. ASSUME NEW ok \in BOOLEAN, Transmit(ok) PROVE (PoweredOverLink /\ LinkFlagFollowsCable)'
  BY <1>4 DEF Transmit, MarkBusy, lose_buf
<1>5. ASSUME NEW ok \in BOOLEAN, RxFetch(ok) PROVE (PoweredOverLink /\ LinkFlagFollowsCable)'
  BY <1>5 DEF RxFetch, free_buf
<1>6. CASE BusyTest
  BY <1>6 DEF BusyTest, SendFails
<1>7. CASE SendAllocate
  BY <1>7 DEF SendAllocate, SendFails
<1>8. CASE RxAllocate
  BY <1>8 DEF RxAllocate
<1>9. CASE RxDrop
  BY <1>9 DEF RxDrop, free_buf
<1>10. ASSUME NEW p \in Packet, RxDeliver(p) PROVE (PoweredOverLink /\ LinkFlagFollowsCable)'
  BY <1>10 DEF RxDeliver, free_buf
<1>11. CASE nx_link_interface_attach
  BY <1>11 DEF nx_link_interface_attach
<1>12. ASSUME NEW ok \in BOOLEAN, nx_link_initialize(ok) PROVE (PoweredOverLink /\ LinkFlagFollowsCable)'
  BY <1>12 DEF nx_link_initialize, PowerUp
<1>13. ASSUME NEW ok \in BOOLEAN, nx_link_enable(ok) PROVE (PoweredOverLink /\ LinkFlagFollowsCable)'
  BY <1>13 DEF nx_link_enable, PowerUp
<1>14. ASSUME NEW ok \in BOOLEAN, nx_link_disable(ok) PROVE (PoweredOverLink /\ LinkFlagFollowsCable)'
  BY <1>14 DEF nx_link_disable
<1>15. ASSUME NEW g \in Group, nx_link_multicast_join(g) PROVE (PoweredOverLink /\ LinkFlagFollowsCable)'
  BY <1>15 DEF nx_link_multicast_join
<1>16. ASSUME NEW g \in Group, nx_link_multicast_leave(g) PROVE (PoweredOverLink /\ LinkFlagFollowsCable)'
  BY <1>16 DEF nx_link_multicast_leave
<1>17. ASSUME NEW p \in Packet, nx_link_packet_send(p) PROVE (PoweredOverLink /\ LinkFlagFollowsCable)'
  BY <1>17 DEF nx_link_packet_send
<1>18. CASE on_transmit_complete
  BY <1>18 DEF on_transmit_complete, free_buf
<1>19. CASE on_receive_complete
  BY <1>19 DEF on_receive_complete, RequestDeferred
<1>20. CASE on_event
  BY <1>20 DEF on_event, InferLink
<1>21. CASE nx_link_deferred_processing
  BY <1>21 DEF nx_link_deferred_processing, TakeEvents, AfterEvents
<1>22. CASE CableMovesUnseen
  BY <1>22 DEF CableMovesUnseen
<1>23. ASSUME NEW p \in Packet, NetxAllocate(p) PROVE (PoweredOverLink /\ LinkFlagFollowsCable)'
  BY <1>23 DEF NetxAllocate
<1>24. ASSUME NEW p \in Packet, NetxRelease(p) PROVE (PoweredOverLink /\ LinkFlagFollowsCable)'
  BY <1>24 DEF NetxRelease
<1>25. CASE UNCHANGED vars
  BY <1>25 DEF vars
<1> QED
  BY <1>1, <1>2, <1>3, <1>4, <1>5, <1>6, <1>7, <1>8, <1>9, <1>10, <1>11, <1>12, <1>13,
     <1>14, <1>15, <1>16, <1>17, <1>18, <1>19, <1>20, <1>21, <1>22, <1>23, <1>24, <1>25
     DEF Next, DriverStep, Command, Interrupt

\* What the driver's interrupt handlers leave for the stack's thread: an event bit
\* of on_receive_complete is never without the deferred processing it asked for, a
\* frame waits unannounced only after a merged interrupt or a deferred processing
\* that gave up, and the link flag that on_event inverts differs from the cable
\* only if it did when the link was enabled; for any pool, heap and receive queue.
THEOREM EventsSafe == Spec => []EventsAccounted
<1>1. Init => InterlockInv /\ DeferredEventRequested /\ FramesAnnounced
              /\ PoweredOverLink /\ LinkFlagFollowsCable
  <2>1. Init => CommandKnows /\ InFlightOverLink /\ TxInterlock
    BY DEF Init, CommandKnows, InFlightOverLink, TxInterlock, Sending
  <2>2. Init => DeferredEventRequested /\ FramesAnnounced
    BY DEF Init, DeferredEventRequested, FramesAnnounced, PendingReceives
  <2>3. Init => PoweredOverLink /\ LinkFlagFollowsCable
    BY StatesDistinct DEF Init, PoweredOverLink, LinkFlagFollowsCable
  <2> QED
    BY <2>1, <2>2, <2>3, TypeInit DEF InterlockInv
<1>2. InterlockInv /\ DeferredEventRequested /\ FramesAnnounced
      /\ PoweredOverLink /\ LinkFlagFollowsCable /\ [Next]_vars
        => (InterlockInv /\ DeferredEventRequested /\ FramesAnnounced
            /\ PoweredOverLink /\ LinkFlagFollowsCable)'
  BY TypeStep, InterlockStep, FramesStep, LinkStep DEF InterlockInv
<1>3. DeferredEventRequested /\ FramesAnnounced /\ LinkFlagFollowsCable => EventsAccounted
  BY DEF EventsAccounted
<1> QED
  BY <1>1, <1>2, <1>3, PTL DEF Spec

=============================================================================
