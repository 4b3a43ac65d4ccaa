----------------------------- MODULE LwipStack ------------------------------
(***************************************************************************)
(* The lwIP port: connection state machine and input task (lwip_stack.c,   *)
(* ip_network_api.c) over the EMAC interface (lwip_emac_netif.c).          *)
(* lwIP itself (external) is its netif flags, its mailbox of posted        *)
(* callbacks, run one at a time on the tcpip thread, and the addresses it  *)
(* acquires.  The EMAC's callbacks are interrupts.                         *)
(***************************************************************************)
EXTENDS Naturals, Sequences

CONSTANTS MaxFrames,   \* frames the EMAC queues
          MaxPosted,   \* capacity of the tcpip mailbox
          Packets      \* pbufs the stack sends

ASSUME LwipStackAssumption == MaxFrames \in Nat /\ MaxPosted \in Nat

DISCONNECTED == "DISCONNECTED"
CONNECTING   == "CONNECTING"
GLOBAL_UP    == "GLOBAL_UP"
LOCAL_UP     == "LOCAL_UP"
Connected    == {GLOBAL_UP, LOCAL_UP}

VARIABLES
    \* netif_context_t
    connected, dhcp_has_to_be_set, dhcp_started, has_any_addr,
    \* the netif: administratively up, link up, addresses
    up, link, addrs,
    posted,      \* netif_set_link_up/down calls posted to the tcpip thread
    told,        \* last network_state_callback event
    task,        \* lwip_task
    semaphore,   \* receive_semaphore, at most 1
    frames,      \* frames waiting in the EMAC
    cable,       \* the physical link
    \* ethernetif_init: has netif_add succeeded, is the EMAC powered up, is
    \* context->rx_buffer allocated?
    added, powered, rx_buffer,
    \* the output path, on the tcpip thread: the packet in ethernetif_output and
    \* its state; the references on each pbuf; the packets whose copy is on the
    \* heap; the buffers the EMAC is sending; the ones it has refused
    out, refs, copies, sending, refused,
    \* history: has a link event come before the last one's callback had run; did
    \* the task announce a link that was not there; is the link up since before
    \* the bring-up?
    bunched, guessed, early,
    \* history: was the last receive loop left before the EMAC had nothing more;
    \* has an address been withdrawn?
    cut_short, expired

context == <<connected, dhcp_has_to_be_set, dhcp_started, has_any_addr>>
netif   == <<up, link, addrs>>
input   == <<task, semaphore, frames>>
faults  == <<bunched, guessed, early, cut_short, expired>>
emac    == <<added, powered, rx_buffer>>
output  == <<out, refs, copies, sending, refused>>
vars    == <<context, netif, posted, told, input, cable, faults, emac, output>>

\* What mdh_emac_transmit is given: the packet's own pbuf or a copy of its chain.
Buffers == {"pbuf", "copy"} \X Packets
Idle    == [at |-> "idle"]

Statuses == {DISCONNECTED, CONNECTING, GLOBAL_UP, LOCAL_UP}
ContextTypeOK ==
    /\ connected \in Statuses
    /\ dhcp_has_to_be_set \in BOOLEAN /\ dhcp_started \in BOOLEAN
    /\ has_any_addr \in BOOLEAN
    /\ told \in {"nothing", "NETWORK_UP", "NETWORK_DOWN"}
NetifTypeOK ==
    /\ up \in BOOLEAN /\ link \in BOOLEAN
    /\ addrs \subseteq {"local", "global"}
    /\ posted \in Seq({"up", "down"}) /\ Len(posted) <= MaxPosted
    /\ cable \in BOOLEAN
InputTypeOK ==
    /\ task \in {"none", "start", "bringup", "announce", "wait", "receive", "input"}
    /\ semaphore \in BOOLEAN
    /\ frames \in 0..MaxFrames
    /\ added \in BOOLEAN /\ powered \in BOOLEAN
    /\ rx_buffer \in {"none", "allocated", "freed"}
    /\ bunched \in BOOLEAN /\ guessed \in BOOLEAN /\ early \in BOOLEAN
    /\ cut_short \in BOOLEAN /\ expired \in BOOLEAN
OutputTypeOK ==
    /\ out \in {Idle} \cup [at : {"prepared", "returned"}, buf : Buffers]
    /\ refs \in [Packets -> 0..2]
    /\ copies \subseteq Packets
    /\ sending \subseteq Buffers /\ refused \subseteq Buffers
TypeOK == ContextTypeOK /\ NetifTypeOK /\ InputTypeOK /\ OutputTypeOK

Init ==
    /\ connected = DISCONNECTED
    /\ dhcp_has_to_be_set = FALSE /\ dhcp_started = FALSE
    /\ has_any_addr = FALSE
    /\ up = FALSE /\ link = FALSE
    /\ addrs = {}
    /\ posted = <<>>
    /\ told = "nothing"
    /\ task = "none"
    /\ semaphore = FALSE
    /\ frames = 0
    /\ bunched = FALSE /\ guessed = FALSE /\ early = FALSE
    /\ cut_short = FALSE /\ expired = FALSE
    /\ cable \in BOOLEAN
    /\ added = FALSE /\ powered = FALSE /\ rx_buffer = "none"
    /\ out = Idle
    /\ refs = [p \in Packets |-> 0]
    /\ copies = {} /\ sending = {} /\ refused = {}

-----------------------------------------------------------------------------
(* Network state callbacks, on the tcpip thread.                            *)
(* A definition Name_Slip, just above Name, is a plausible slip in the code *)
(* of Name: with it in Name's place the runs must report a violation.       *)

\* dhcp_start succeeds or fails; c is the connection status so far.
DhcpDone == dhcp_has_to_be_set' = FALSE
set_dhcp(c) ==
    \/ DhcpDone /\ dhcp_started' = TRUE /\ connected' = c
    \/ connected' = DISCONNECTED /\ UNCHANGED <<dhcp_has_to_be_set, dhcp_started>>

\* get_ip_addr(true, netif): is there an address of either family?
HasAddr(a) == a # {}

\* ip_addr_islinklocal(get_ip_addr(true, netif)).  With no address left the test
\* reads through a null pointer: either outcome.
StatusesFor(a) ==
    CASE "global" \in a -> {GLOBAL_UP}
      [] a = {}         -> {GLOBAL_UP, LOCAL_UP}
      [] OTHER          -> {LOCAL_UP}

\* u, l, c and a: the flags, the connection status and the addresses at the
\* time of the callback.
netif_status_irq(u, l, c, a) ==
    \/ /\ u /\ l
       /\ dhcp_has_to_be_set
       /\ set_dhcp(c)
       /\ UNCHANGED <<has_any_addr, told>>
    \/ /\ u /\ l
       /\ ~dhcp_has_to_be_set
       /\ has_any_addr' = (has_any_addr \/ HasAddr(a))
       /\ IF has_any_addr'
            THEN connected' \in StatusesFor(a) /\ told' = "NETWORK_UP"
            ELSE connected' = c /\ UNCHANGED told
       /\ UNCHANGED <<dhcp_has_to_be_set, dhcp_started>>
    \/ /\ ~u /\ l
       /\ connected' = DISCONNECTED
       /\ told' = "NETWORK_DOWN"
       /\ UNCHANGED <<dhcp_has_to_be_set, dhcp_started, has_any_addr>>
    \/ /\ ~l
       /\ connected' = c
       /\ UNCHANGED <<dhcp_has_to_be_set, dhcp_started, has_any_addr, told>>

\* netif_set_up and netif_set_down: lwIP calls back only on a change.
SetUp(u, l, c) ==
    /\ up' = u
    /\ IF u # up THEN netif_status_irq(u, l, c, addrs)
                 ELSE connected' = c /\ UNCHANGED <<dhcp_has_to_be_set, dhcp_started,
                                                    has_any_addr, told>>

\* netif_link_irq, after the link flag has become l.
LinkLost_KeepsStatus(c) == c
LinkLost(c) == CONNECTING
netif_link_irq(l) ==
    IF l /\ connected = CONNECTING
      THEN SetUp(TRUE, l, connected)
      ELSE SetUp(FALSE, l, IF up THEN LinkLost(connected) ELSE connected)

\* The tcpip thread, between two packets, runs the oldest posted
\* netif_set_link_up/down.
TcpipCallback ==
    /\ posted # <<>>
    /\ posted' = Tail(posted)
    /\ out = Idle
    /\ LET l == Head(posted) = "up" IN
         /\ link' = l
         /\ IF l # link /\ added   \* the callbacks are set after netif_add
              THEN netif_link_irq(l)
              ELSE UNCHANGED <<up, context, told>>
         /\ early' = (early /\ l)
    /\ UNCHANGED <<addrs, input, cable, bunched, guessed, cut_short, expired, emac, output>>

\* lwIP validates the link-local address, or DHCP or a router supplies one.
AddressAcquired(a) ==
    /\ up /\ link /\ out = Idle
    /\ a \notin addrs
    /\ addrs' = addrs \cup {a}
    /\ netif_status_irq(up, link, connected, addrs')
    /\ UNCHANGED <<up, link, posted, input, cable, faults, emac, output>>

\* The lease of an address ends.
AddressLost(a) ==
    /\ up /\ link /\ out = Idle
    /\ a \in addrs
    /\ addrs' = addrs \ {a}
    /\ netif_status_irq(up, link, connected, addrs')
    /\ expired' = TRUE
    /\ UNCHANGED <<up, link, posted, input, cable, bunched, guessed, early, cut_short,
                   emac, output>>

\* The application takes the interface down or up through netifapi.
ApplicationSets(u) ==
    /\ dhcp_started
    /\ u # up /\ out = Idle
    /\ SetUp(u, link, connected)
    /\ UNCHANGED <<link, addrs, posted, input, cable, faults, emac, output>>

-----------------------------------------------------------------------------
(* lwip_task.                                                               *)

start_network_task ==
    /\ task = "none"
    /\ task' = "start"
    /\ UNCHANGED <<context, netif, posted, told, semaphore, frames, cable, faults, emac, output>>

\* The receive buffer is allocated, the EMAC powered up and its MAC address
\* agreed on; each step may fail and makes netif_add fail.  The failure of the
\* last one frees the buffer and leaves the EMAC running.
ethernetif_init ==
    \/ added' = TRUE  /\ powered' = TRUE  /\ rx_buffer' = "allocated"
    \/ added' = FALSE /\ powered' = FALSE /\ rx_buffer' \in {"none", "freed"}
    \/ added' = FALSE /\ powered' = TRUE  /\ rx_buffer' = "freed"

\* tcpip_init, netif_add; lwip_task does not look at the result.
ethernet_interface_init ==
    /\ task = "start"
    /\ task' = "bringup"
    /\ ethernetif_init
    /\ UNCHANGED <<context, netif, posted, told, semaphore, frames, cable, faults, output>>

\* The EMAC is up since ethernetif_init: link events may have come and their
\* callbacks run, on an interface that is down.
ethernet_interface_bringup ==
    /\ task = "bringup"
    /\ IF connected \in {GLOBAL_UP, CONNECTING}
         THEN UNCHANGED context
         ELSE /\ dhcp_has_to_be_set' = TRUE
              /\ connected' = CONNECTING
              /\ UNCHANGED <<dhcp_started, has_any_addr>>
    /\ task' = "announce"
    /\ early' = link
    /\ UNCHANGED <<netif, posted, told, semaphore, frames, cable, bunched, guessed,
                   cut_short, expired, emac, output>>

\* "emac is missing this event so we need to trigger it ourselves"
AnnounceLink ==
    /\ task = "announce"
    /\ Len(posted) < MaxPosted
    /\ posted' = Append(posted, "up")
    /\ task' = "wait"
    /\ guessed' = ~cable
    /\ UNCHANGED <<context, netif, told, semaphore, frames, cable, bunched, early, cut_short,
                   expired, emac, output>>

WaitForInput ==
    /\ task = "wait"
    /\ semaphore
    /\ semaphore' = FALSE
    /\ task' = "receive"
    /\ cut_short' = FALSE
    /\ UNCHANGED <<context, netif, posted, told, frames, cable, bunched, guessed, early, expired,
                   emac, output>>

\* ethernetif_process_input: receive until the EMAC has nothing more, or
\* mdh_emac_receive fails, with or without taking a frame out of its queue.
ReceiveFails ==
    /\ task' = "wait"
    /\ frames' \in {frames} \cup {n \in 0..MaxFrames : n + 1 = frames}
    /\ cut_short' = TRUE
AfterReceive_SameFrame == "input"
AfterReceive == "receive"
Receive ==
    /\ task = "receive"
    /\ \/ frames = 0 /\ task' = "wait" /\ UNCHANGED <<frames, cut_short>>
       \/ frames > 0 /\ task' = "input" /\ frames' = frames - 1 /\ UNCHANGED cut_short
       \/ ReceiveFails
    /\ UNCHANGED <<context, netif, posted, told, semaphore, cable, bunched, guessed, early,
                   expired, emac, output>>

Input ==
    /\ task = "input"
    /\ task' = AfterReceive
    /\ UNCHANGED <<context, netif, posted, told, semaphore, frames, cable, faults, emac, output>>

\* No pbuf: the frame is dropped and the function returns.
NoPbuf ==
    /\ task = "input"
    /\ task' = "wait"
    /\ cut_short' = TRUE
    /\ UNCHANGED <<context, netif, posted, told, semaphore, frames, cable, bunched, guessed, early,
                   expired, emac, output>>

-----------------------------------------------------------------------------
(* Interrupts.                                                              *)

\* ethernetif_input.
signal_receive == semaphore' = TRUE
ethernetif_input ==
    /\ powered
    /\ frames < MaxFrames
    /\ frames' = frames + 1
    /\ signal_receive
    /\ UNCHANGED <<context, netif, posted, told, task, cable, faults, emac, output>>

\* emac_state_change: "we infer state based on netif state instead, if we were
\* down this means we just went up".
InferredLink == IF link THEN "down" ELSE "up"
emac_state_change ==
    /\ powered
    /\ Len(posted) < MaxPosted
    /\ cable' = ~cable
    /\ posted' = Append(posted, InferredLink)
    /\ bunched' = (bunched \/ posted # <<>>)
    /\ UNCHANGED <<context, netif, told, input, guessed, early, cut_short, expired, emac, output>>

\* mdh_network_stack_memory_manager_free: pbuf_free of a buffer b.
Free(b) ==
    IF b[1] = "pbuf" THEN refs' = [refs EXCEPT ![b[2]] = @ - 1] /\ UNCHANGED copies
                     ELSE copies' = copies \ {b[2]} /\ UNCHANGED refs

\* ethernetif_sent: the frame has gone out, or failed to.
ethernetif_sent(b) ==
    /\ b \in sending
    /\ sending' = sending \ {b}
    /\ Free(b)
    /\ UNCHANGED <<context, netif, posted, told, input, cable, faults, emac, out, refused>>

-----------------------------------------------------------------------------
(* Output, on the tcpip thread.                                             *)

\* The stack's packet p, new, is a single pbuf, which is given to the EMAC with a
\* reference of its own, or a chain, which is copied into one buffer; without
\* memory for that nothing is sent.
TakesReference_Not == 1
TakesReference == 2
Prepare(p) ==
    /\ up /\ link
    /\ out = Idle
    /\ refs[p] = 0 /\ p \notin copies
    /\ \/ /\ refs' = [refs EXCEPT ![p] = TakesReference]
          /\ out' = [at |-> "prepared", buf |-> <<"pbuf", p>>]
          /\ UNCHANGED copies
       \/ /\ refs' = [refs EXCEPT ![p] = 1]
          /\ copies' = copies \cup {p}
          /\ out' = [at |-> "prepared", buf |-> <<"copy", p>>]
       \/ UNCHANGED <<refs, copies, out>>      \* ERR_IF, the stack frees p
    /\ UNCHANGED <<context, netif, posted, told, input, cable, faults, emac,
                   sending, refused>>

\* mdh_emac_transmit; when it fails nothing is undone.
Transmit ==
    /\ out.at = "prepared"
    /\ \/ sending' = sending \cup {out.buf} /\ UNCHANGED refused
       \/ refused' = refused \cup {out.buf} /\ UNCHANGED sending
    /\ out' = [out EXCEPT !.at = "returned"]
    /\ UNCHANGED <<context, netif, posted, told, input, cable, faults, emac, refs, copies>>

\* "lwip stores handle to pbuf and frees it after output"
StackFrees ==
    /\ out.at = "returned"
    /\ refs' = [refs EXCEPT ![out.buf[2]] = @ - 1]
    /\ out' = Idle
    /\ UNCHANGED <<context, netif, posted, told, input, cable, faults, emac, copies,
                   sending, refused>>

Task == ethernet_interface_init \/ ethernet_interface_bringup \/ AnnounceLink
        \/ WaitForInput \/ Receive \/ Input

Next ==
    \/ start_network_task
    \/ Task \/ NoPbuf
    \/ TcpipCallback
    \/ \E a \in {"local", "global"} : AddressAcquired(a) \/ AddressLost(a)
    \/ \E u \in BOOLEAN : ApplicationSets(u)
    \/ ethernetif_input
    \/ emac_state_change
    \/ \E p \in Packets : Prepare(p)
    \/ Transmit \/ StackFrees
    \/ \E b \in Buffers : ethernetif_sent(b)

Spec == Init /\ [][Next]_vars

\* The RTOS runs the input task and the tcpip thread whenever they are ready, the
\* slot that gets free in a full mailbox goes to the task that waits for it, and
\* the tcpip thread takes its messages in order, a callback among the packets.
FairSpec ==
    /\ Spec
    /\ WF_vars(Task) /\ SF_vars(AnnounceLink)
    /\ WF_vars(Transmit \/ StackFrees) /\ SF_vars(TcpipCallback)

-----------------------------------------------------------------------------
\* "NETWORK_UP, The network is configured" (ip_network_api.h): a connected status
\* means that the interface and its link are up, that DHCP was started and an
\* address acquired and not withdrawn, and that the application's last event was
\* NETWORK_UP.
ConnectedMeansConfigured ==
    connected \in Connected =>
        /\ up /\ link /\ dhcp_started
        /\ expired \/ addrs # {}
        /\ told = "NETWORK_UP"

\* DHCP is started once: a started client is never asked to start again, over
\* any sequence of link losses, recoveries and start failures.
DhcpStartedOnce == dhcp_started => ~dhcp_has_to_be_set

\* emac_state_change's inference: once the posted callbacks have run, and if every
\* event waited for the last one's callback, lwIP's link flag is the physical link;
\* or it is the opposite, for good, if the link announced at start was not there.
LinkFollowsCable ==
    task \in {"wait", "receive", "input"} /\ posted = <<>> =>
        bunched \/ (link = cable <=> ~guessed)

\* netif_link_irq takes the interface of a connecting stack up with its link: it is
\* down over a link that is up exactly if the link came up before the bring-up, when
\* the callback had no effect and the announced link was no change.
LinkBringsUp == added /\ link /\ connected = CONNECTING => (up <=> ~early)

\* What the callbacks, which run in two contexts and in any order, leave behind:
\* the status, DHCP and the link flag agree with the interface and the cable.
StatusFollowsInterface ==
    ConnectedMeansConfigured /\ DhcpStartedOnce /\ LinkFollowsCable /\ LinkBringsUp

\* "process all buffers received by the emac driver until we get back 0 bytes":
\* the task never goes to sleep over a frame it has no signal for, unless the last
\* receive loop ended with an error or for want of a pbuf.
NoFrameStranded == task = "wait" /\ ~semaphore => cut_short \/ frames = 0

\* Memory the EMAC works with is allocated: a frame is fetched into rx_buffer only
\* while it is, unless ethernetif_init has left the EMAC running without it, and
\* what is being sent is referenced until ethernetif_sent, whichever of the stack
\* and the EMAC is done with it first.
MemoryHeld ==
    /\ task \in {"receive", "input"} => rx_buffer = "allocated" \/ ~added
    /\ \A p \in Packets : /\ <<"pbuf", p>> \in sending => refs[p] > 0
                          /\ <<"copy", p>> \in sending => p \in copies

\* Nothing is left allocated that nobody will free, but for the buffers that
\* mdh_emac_transmit refused.
NothingKept ==
    out = Idle =>
        \A p \in Packets : /\ refs[p] > 0 => <<"pbuf", p>> \in sending \cup refused
                          /\ p \in copies => <<"copy", p>> \in sending \cup refused

\* No frame is forgotten and no buffer is lost or used after it was freed, in
\* either direction.
FramesAccounted == NoFrameStranded /\ MemoryHeld /\ NothingKept

\* Liveness: every signal starts a receive loop, also after one that was cut short
\* and left its frames behind, and a full EMAC queue is worked on unless the last
\* loop was cut short: the queue takes no frame, so that no signal follows.
InputDrains == semaphore \/ (frames = MaxFrames /\ ~cut_short) ~> task = "receive"
=============================================================================
