# TLA+ models of the Open IoT SDK

The Open IoT SDK is mostly glue: a link driver below NetX Duo, an lwIP port, a
Pigweed backend for CMSIS-RTOS, and platform layers for the Azure and AWS device
SDKs. The glue is small, but it is where interrupts, RTOS threads, callbacks and
half-failed calls meet, and it is hard to test. This directory models that code
in TLA+, checks it with TLC and proves its safety properties with TLAPS.

`PROJECT.json` lists the components, the runs, the definition-to-source map, the
mutants that show each property can fail, the hazards and the theorems. A definition
`Name_Something` just above `Name` is such a mutant: a plausible slip in the code of
`Name`.

## 1. Inventory

All paths are below `src/components`.

| Part | State it keeps | Operations | Talks to |
|---|---|---|---|
| NetX Duo link driver, `azure-rtos/netxduo/nx-ip-link-mdh` | driver state, busy flag, outgoing packet, deferred events, link flag | link commands from NetX, three EMAC callbacks | NetX (calls in, deferred processing), EMAC (interrupts), memory manager |
| Pigweed mutexes, `pigweed/pw_sync_cmsis_rtos` | owner, thread flags | `lock`, `try_lock`, `try_lock_for`, `unlock` | CMSIS thread flags and mutex |
| Pigweed kernel lock, `pigweed/pw_cmsis_rtos_util` | two static variables | `lock`, `unlock` | the scheduler |
| Pigweed thread notification | blocked thread, notified flag | `acquire`, `try_acquire`, `try_acquire_for`, `release` | kernel lock, thread flags, interrupts |
| Azure socket I/O and TCP connection, `azure-iot-sdk-c/platform` | state and queue per instance; one static connection shared by all | create, open, close, send, dowork, destroy | IoT Socket; the SDK's callbacks, which may call back in |
| Azure NTP client, `azure-iot-sdk-c/ntp-client` | context, event queue, event flags, listeners, timer | Init, Start, Stop, Deinit, Add/ClearListeners, the task, the timer | socket, RTOS queue and flags |
| Azure platform, `platform_openiot.c` | event flags, network state | `platform_init`, `platform_deinit`, two callbacks | NTP client, network task |
| lwIP port, `connectivity/lwip/lwip_cmsis_port/src` | connection status, DHCP flags, input semaphore | status, link and address callbacks, network task, EMAC callbacks | lwIP's tcpip thread, EMAC interrupts, the application's callback |
| AWS network manager, `aws-iot-device-sdk-embedded-c` | socket, TLS context, retry counter | init, connect, send, recv, close | IoT Socket, mbed TLS, backoff library, the hook |
| Stream sockets, `mbed-os-netsocket/src` (`InternetSocket`, `TCPSocket`, `TLSSocketWrapper`) | IoT socket id, family, timeout, lock; handshake flags and transport | open, bind, connect, send, recv, accept, close, timeouts and options | IoT Socket, mbed TLS, several threads |
| Datagram sockets and addresses, `mbed-os-netsocket` (`SocketAddress`, `InternetDatagramSocket`, `libip*string`) | address, cached text, connected peer | set, get, connect, sendto, recvfrom; four conversions | IoT Socket |
| Pigweed serial I/O, `pigweed/pw_sys_io_mcu_driver_hal` | two ring buffers, two locks, sending flag | `ReadByte`, `TryReadByte`, `ReadBytes`, `WriteByte`, `WriteBytes`, `WriteLine`; two interrupts | serial port, RTOS mutexes and flags |
| Pigweed threads, `pigweed/pw_thread_cmsis_rtos` | context per thread (detached, completed, join notification) | construct, `join`, `detach`, the end of a thread | kernel lock, RTOS threads |
| Pigweed clock and timers, `pigweed/pw_chrono_cmsis_rtos` | tick count in two halves; deadline and whether it is set | `now`, `Set` (InvokeAt), `Unset` (Cancel), `Invoke` | RTOS timer thread |
| Azure thread API, `azure-iot-sdk-c/platform/src/threadapi_openiot.c` | list of contexts | Create, Join, Exit | RTOS threads and queues |
| lwIP system layer, memory managers, Azure tick counter, Pigweed spin lock and semaphores | objects of the RTOS, buffers, a tick sum | one call each | RTOS |
| Logging, mbed TLS threading, TF-M wrapper, templates, build files | none of their own | one-call wrappers | |

What is hard, and what correctness means there:

* **Interrupts between two statements** (link driver, thread notification, lwIP
  input): a busy flag must cover the frame in flight, no event or wakeup may be
  lost, a completion must release the packet it belongs to.
* **State tested before it is guarded** (kernel lock, mutex, socket id): sections must
  exclude each other although the test is outside the critical section.
* **Timeouts racing late answers** (NTP client, timed acquire and lock): nothing
  may be freed under a task that still runs; a late flag must not be taken for
  an answer to something else.
* **One step of several failing** (AWS connect, socket I/O, transmit): sockets,
  packets and sessions must be given back exactly once.
* **Inferred state** (link flags, DHCP and address state): what the code believes
  must keep its relation to the cable and the interface.
* **Objects used by one thread and freed by another** (Pigweed and Azure threads,
  sockets): nothing may be used after it was freed, and what was created is freed.
* **Counters and indices that wrap** (clock, ring buffers): time never runs
  backwards, bytes are neither repeated nor dropped unnoticed.
* **Cached conversions** (socket addresses): the text must be that of the address.
* **Things that must happen**: a packet is released, a release reaches its
  waiter, frames are drained, what was written is sent, a timer fires, connect and
  join return.

The hazards of `PROJECT.json` name each of these at its line.

## 2. Modules

| Module | Models | How state and actions correspond |
|---|---|---|
| `NxDriver` | `nx_driver_mdh.c` | One variable per field of `device_driver_t`; a command is an action or, for a send, one action per step an interrupt can fall between; each EMAC callback is an action. `holder` and `headers` say who owns each packet and how many Ethernet headers it carries. NetX may send while a frame is in flight; `overlapped`, `stray`, `stranded` and `wedged` record what such a send, or a link disable, has done to whom. |
| `PwMutex` | `internal_mutex.cc`, `timed_mutex_inline.h`, `repeat.h` | A stretch under the inner CMSIS mutex is one step, `pc` says where each thread is. `relocked` holds the threads that began to wait in `lock()` with the flag of their own `unlock()` up, `robbed` those whose mutex was taken over while they were inside. |
| `KernelLock` | `kernel_lock.cc` | Every statement that another thread could fall before is a step; a locked kernel lets only its owner run. |
| `PwThread` | `pw_thread_cmsis_rtos/thread.cc` | Extends `KernelLock`: one thread constructs, joins and detaches, workers run to their end, another thread uses the kernel lock for itself. The constructor, `join`, `detach` and the end of a worker go through the kernel lock's own steps. A context that is used after `delete` is recorded in `misused`. |
| `PwTimer` | `system_clock.cc`, `system_timer.cc` | The RTOS tick count wraps at `NativeTicks`; the clock counts its overflows when it is read. The RTOS timer counts down and queues its expiry; `Invoke` runs later, in the timer thread. An aborting check ends the behaviour. |
| `ThreadNotification` | `native_thread_notification.cc` | One acquiring thread, releasing threads excluded by the kernel lock, and interrupts that are not. |
| `DropOldestQueue`, `RingBuffer`, `SysIo` | `sys_io_mdh.cc` | `RingBuffer` has the cells, head, tail and full flag of the class as operators. `SysIo` adds the two buffers, the locks, the serial port's queues and the two interrupts; a write is split where an interrupt or another writer can fall. `DropOldestQueue` is what the receive buffer promises. |
| `SocketIo` | `socketio_openiot.c`, `tcpsocketconnection_openiot.c` | Two instances over the static connection. `socketio_dowork` is split where the error callback may close or reopen the instance. Bytes are numbered, so duplicates and losses show. `unclosed` holds the sockets that `tcpsocketconnection_destroy` could not close, on a failed open as at a close, and `displaced` those an open of another instance replaced. |
| `LwipStack` | `lwip_stack.c`, `ip_network_api.c`, `lwip_emac_netif.c` | `netif_context_t` and the netif; lwIP's mailbox is a sequence of posted link calls; the task's receive loop is split per frame and may end early, by an error of the EMAC or for want of a pbuf (`cut_short`). Link events come from the moment the EMAC is powered, also before the task has announced the link (`early`, `guessed`). Initialising the interface can fail at each of its steps. A packet sent is a referenced pbuf or a copy, which the EMAC returns when the frame is out, before or after the stack lets go of its own. |
| `NtpClient` | `iot_ntp_client.c`, `ntptime_openiot.c` | The task, the timer and one API thread; queue and flags are the kernel's. Undefined behaviour (a call on a freed object, a garbage callback) is recorded in `undefined` and ends the behaviour. |
| `AzurePlatform` | `platform_openiot.c` | Extends `NtpClient` with the application thread that initialises and deinitialises the platform, and the network task's callback. |
| `ThreadApi` | `threadapi_openiot.c` | One thread creates and joins; every created thread may exit. Looking a context up is one step per node of the list, so that a join can destroy the node a thread looks at. Memory of a destroyed context is not given out again. |
| `AwsNetwork` | `aws_network_manager.c` | One action per call of `AwsNetwork_connect` and per error label. |
| `TcpSocket` | `InternetSocket.h/.cpp`, `TCPSocket.cpp` | One object used by several threads. A call is steps: test the members, verify or create the IoT socket under the lock, read its id, make the IoT call; `close` frees the id and forgets it in two. The IoT layer hands out the ids of closed sockets again, to `accept` and to sockets of other parts of the program. `set_timeout` never gets further than its second acquisition of the lock. |
| `TlsSocket` | `TLSSocketWrapper.cpp` | One thread's calls of the wrapper, each in the steps that the transport or mbed TLS can end. The transport is a `TCPSocket *` whose `set_blocking` is virtual: it hangs, as `TCPSocket`'s own does, or returns, as an overriding one may. |
| `IpString` | `ip4tos.c`, `stoip4.c`, `ip6tos.c`, `stoip6.c` | Functions on texts, a text being its groups of digits and its separators. A loop is what one pass does to its variables, and `Passes` applies it pass by pass; `Canonical` is the reference, RFC 5952. |
| `DatagramSocket` | `SocketAddress.h/.cpp`, `InternetDatagramSocket.cpp` | An address object, the connected address and arriving datagrams, for one thread and both pointer sizes. |
| `MC...` | | TLC instances. `MCPwSyncIo`, `MCAzure` and `MCNetsocket` put parts side by side that share nothing: a behaviour is of one of them (`kind`), and the properties are of all. They also give a behaviour of the serial port and of the adapter a budget of calls. |
| `...Proofs` | | Theorems about the module of that name; `PwSyncIoProofs` about `PwMutex`, `ThreadNotification`, `RingBuffer` and `SysIo`, `PwThreadProofs` about `KernelLock` too, `NetsocketProofs` about `TcpSocket`, `TlsSocket`, `DatagramSocket` and `IpString`, `AzurePlatformProofs` about `NtpClient`, `ThreadApi` and `SocketIo` too. |

`TypeOK` documents the types of a module's variables; it is proved where it is
part of an inductive invariant.

External, and modelled from how the code uses them: CMSIS-RTOS (flags, queues,
timers, kernel lock, threads), NetX, the EMAC, the serial port, lwIP, IoT Socket,
mbed TLS and the backoff library. Their calls return any result the code tests for.
Where RTX and FreeRTOS differ (what is left of a thread that ended, whether an
expired one-shot timer may be stopped) the model has both. A CMSIS-RTOS mutex made with no attributes is not
recursive, on either.

## 3. Runs

Eight runs pass. Four end in the violation of one property each, which a comment or an
assertion of the code states and the code does not keep.

* **nx_driver**: two packets, one group, three heap buffers, two received frames, and
  sends that overlap the frame in flight at any point. The busy flag is up exactly
  while a frame is in flight or one was lost to a link disable, the completion is
  misled exactly if another send command was issued since, and no other packet stays
  with the driver (`CompletionsAccounted`); all other packets have their headers
  restored, and every buffer is freed once but those of refused and interrupted
  transmissions (`BuffersAccounted`); a deferred event is always requested, a frame is
  announced unless two interrupts were merged or a deferred processing gave up, and the
  inferred link flag stays as right, or as wrong, as it was when the link was enabled
  (`EventsAccounted`); what was started is finished, unless it was misled or lost
  (`WorkFinishes`).
* **nx_driver_overlap** (violation): "The packet is released in the transmit callback if
  successfully sent". A second send, refused as busy, has already replaced
  `outgoing_packet`: the callback releases the refused packet, which NetX still owns.
* **pw_sync_io**, a behaviour of one of three. Mutex: three threads, two of which
  block, timeouts of up to two ticks, and an `osThreadFlagsWait` that may time out
  although told to wait for ever, as the code's comment says it does. A thread is
  inside without being the owner only if it was robbed (`OwnershipAccounted`), and a
  step takes an owned mutex only for a thread that waits with the flag of its own
  `unlock()` up (`TakenOverOnlyByRelocker`). Notification: three releasing
  threads and interrupts; a wakeup is lost only to an interrupt inside acquire's
  locked section, the single-waiter check fails only once an acquire has timed out, a
  success has a release of its own (`WakeupsAccounted`), and a release reaches the
  waiter. Serial port: two writers, one reader, buffers of two and three bytes; a
  received block is up to six bytes, put in spans of four. Lines stay whole and in
  order; a read hands over the oldest bytes and no loss goes unnoticed; the receive
  buffer implements the queue that drops the oldest; all that is written is sent.
* **pw_mutex_owner** (violation): the thread that calls `unlock()` owns the mutex, as
  `internal_mutex.cc:145` asserts. A thread that has unlocked, locks again and waits is
  woken by its own flag, and takes the mutex from its owner.
* **pw_mutex_wake** (violation): "Wake the thread if it is waiting"
  (`internal_mutex.cc:152`). The flag that `unlock()` sets is that of the thread that
  unlocks.
* **pw_thread**: sections of the kernel lock exclude each other and give the kernel
  back as they found it; a context is used after its deletion only through the
  constructor's late look; otherwise context and RTOS thread are freed whichever of
  the thread's end, `join` and `detach` comes last, and `join` returns.
* **pw_timer**: the clock is right as long as it is read once in every period of the
  tick; the callback comes once, for the deadline that is set, and not early; checks
  abort only in the cases named; a timer that is set fires.
* **azure**, a behaviour of one of three. Platform: repeated init and deinit, with
  failing and silent servers. The task's objects are freed under it only after a
  timeout, listeners are safe until a deinit has failed, and deinit fails only after
  trouble (`TeardownSafe`); a ready platform knows the time and the updates go on
  (`TimeKept`); `TERMINATE` ends the task. Threads: four contexts, two thread ids. The
  list is sound until an end of it is destroyed; an exit finds its own context but for
  the cases named; a join returns. Adapter: two instances, three sockets, two sends of
  two bytes, four opens and sends together. As long as sends are whole, buffers go out
  once and in order over closes and reopenings; an instance that has the connection to
  itself is connected when it is open; every socket is the held one, closed, or one
  that could not be closed or was displaced; an error is indicated once per open
  (`InstancesSound`).
* **lwip_stack**: two frames, two posted calls, one packet to send; link events from
  the moment the EMAC is powered, errors of the EMAC in the receive loop. Status, DHCP
  and link flag agree with the interface and the cable but for bunched events and a
  wrong announcement, and the interface is down over a link that is up exactly if the
  link came before the bring-up (`StatusFollowsInterface`); no frame is stranded but by
  a receive loop that ended early; memory the EMAC uses is allocated, and freed when it
  is done with (`FramesAccounted`); every signal starts a receive loop and a full queue
  is worked on, unless the last loop was cut short (`InputDrains`).
* **aws_network**: three descriptors, two retries, any call failing. The result and
  the context tell of every open socket, every attempt starts with a fresh session,
  and connect returns unless a handshake stays unanswered.
* **netsocket**, a behaviour of one of three. A TCP socket used by two threads, three
  calls each: no IoT socket is lost, a call reaches a foreign one only if a close
  crossed it (`IotSocketsOwned`), and every call returns unless one is in
  `set_timeout`. A TLS wrapper, any sequence of calls: it uses a transport it gave up
  only before any handshake. A datagram socket: the text of an address is its text,
  and only the connected peer is heard (`AddressesSound`).
* **netsocket_timeout** (violation): `set_timeout` returns. It holds `_socket_lock`,
  which is not recursive, when `verify_socket_type` takes it again; the tests do not
  see it, because their `osMutexAcquire` is a fake.

### Behind the escapes

A property with an escape (`overlapped`, `stray`, `stranded`, `wedged`, `robbed`,
`crossed`, `gave_up`, `partial`, `shared`, `unclosed`, `displaced`, `bunched`,
`guessed`, `early`, `cut_short`, `expired`, `drift`, `refused`, `skewed`, `misused`,
the fields of the `history` variables, the NTP client's `troubles`) names a deviation
of the code exactly: it holds until that event has happened, and nothing else breaks
it. What the code does there:

* NetX driver: a send refused as busy has already replaced `outgoing_packet`, so the
  completion releases the refused packet (`nx_driver_mdh.c:247`) and the packet that
  was sent is never released; a link disable in mid-transmission leaves the busy flag
  up, so that every later send is refused until the driver is initialised again
  (`:209`, `:409`); the heap buffer of a transmission the EMAC refuses is not freed
  (`:426`).
* Pigweed mutex: `unlock` sets the caller's own wait flag, so the caller's next
  `lock()`, if it has to wait, walks into a mutex another thread owns, and the thread
  that waits is never woken (`internal_mutex.cc:122`, `:148`).
* Thread notification: a timed acquire that gives up stays registered, so the next
  one fails the check (`native_thread_notification.cc:160`), and an interrupt between
  the test of `notified_` and the wait is lost (`:104`).
* Pigweed threads: the constructor reads `detached()` after the kernel lock was
  released, when a detached thread may have deleted the context (`thread.cc:159`); on
  RTX a thread detached after it completed is not given back (`:193`).
* Pigweed timer: `Set` inside `Invoke` stops the one-shot timer that just expired,
  which RTX refuses (`system_timer.cc:126` to `:105`, against the comment at `:81`).
* Serial I/O: a span read in one piece from a tail other than 0 copies up to the
  wrong end (`sys_io_mdh.cc:171`); a put that fills the buffer exactly takes the
  overflow branch (`:103`).
* Azure socket I/O: after a partial send the size is not reduced, so bytes go out
  twice (`socketio_openiot.c:204`); a second instance, or a failed close, leaves the
  shared connection's flags wrong (`tcpsocketconnection_openiot.c:66`, `:88`); a
  failed close, after a failed open as well, loses the socket (`:71`), since the
  instance forgets the object and the next open overwrites the id.
* lwIP: a lost link is not reported as `NETWORK_DOWN` (`lwip_stack.c:161`; compare
  `ip_network_api.h:17`); two link events before the first callback repeat one call
  (`lwip_emac_netif.c:159`); an event between the EMAC's power-up and the bring-up
  leaves the interface down over a link that is up, and the link announced at start
  (`lwip_stack.c:256`), if it is not there, turns the inferred direction round for
  good; an error of the EMAC (`:180`) or an empty pbuf pool (`:190`) ends the receive
  loop with frames left and no signal for them; a
  refused `mdh_emac_transmit` keeps the pbuf's reference or the copy (`:140`); when
  the MAC address cannot be set, `rx_buffer` is freed with the EMAC running, and the
  task does not look at the result (`:254`, `lwip_stack.c:252`); a withdrawn address
  keeps `has_any_addr` (`:150`).
* NTP client: a wait that times out returns OK, a late flag fails the next wait,
  the task's error is never reset, a retry ends the periodic updates, a second
  listener makes `ClearListeners` free the static head. `platform_init` returns 0
  when the network went down again before it looked.
* Azure threads: destroying a context mends its predecessor's link only, not the
  ends of the list (`threadapi_openiot.c:86`); a thread that exits before its id is
  stored is not found (`:163`); a reused id posts to the older context (`:105`).
* AWS: a server that accepts and then stays silent holds connect for ever.
* TCP socket: `set_timeout` takes the mutex twice (`InternetSocket.cpp:123`, `:129`)
  and waits for itself; other calls that need the lock wait with it. What stands
  behind that line is therefore out of reach, and not modelled: `FIONBIO` set the wrong
  way round (`:138-151`, compare `Socket.h:171-182`), and the loop of `send` for
  timeout 0 that forgets what it has sent (`TCPSocket.cpp:78`). `_timeout` keeps its
  `osWaitForever`, so that the loop runs once. `close()` of an object whose IoT socket
  was never created leaves it open; the id is read without the lock (`:68`), and
  `close()` frees it before it forgets it (`InternetSocket.cpp:60-63`).
* TLS wrapper: `set_timeout` and `set_blocking` dereference the transport a `close()`
  gave up, if no handshake was started (`TLSSocketWrapper.cpp:627`). Over a
  `TCPSocket`, whose `set_blocking` hangs, no handshake gets as far as its first
  message.
* Addresses: on a build with 4-byte pointers `ip6tos` cuts parts of four digits
  (`ip6tos.c:93`); `sendto` and `bind` hand the characters of the text to the IoT
  layer as if they were the address (`InternetDatagramSocket.cpp:37`,
  `InternetSocket.cpp:109`); `stoip6` accepts `:1:...` and `:::1`; two threads that
  ask one object for its text race for the buffer (`SocketAddress.cpp:72`).

### Bounds

Every bound is a constant of a `.cfg`. Two packets are the least with which a
completion can meet the wrong one; three heap buffers allow one to be lost and one
to be in hand over a frame in flight; three threads the least with an owner, a waiter
and an intruder; two frames the least that two interrupts can merge; two bytes the
least for a partial send; three sockets allow a leak and a reuse. Packets that lwIP
sends do not interact, so one is enough. The event queue of the NTP client holds two
events instead of five: that is enough to be full with one event of the timer and
one of the API, and more slots only delay the same refusals. `MaxFailures` ends the
re-initialisation after two failed deinits; each failure adds one listener, and the
second already shows the list with three nodes. Retries of AWS connect never exceed
two: retry and exhaustion both occur.

Serial I/O: a receive buffer of three bytes with bursts of up to four fills, wraps
and overflows within one put; `Work` allows six received bytes, two writes, or some
of each. Adapter: `IoCalls` allows two opens and two sends, or one more open and one
send; `Sizes` is two bytes, so that a send can be partial. Netsocket: three calls of
each thread are enough to create, close and create again while the other has an id in
hand; two ids allow one to be given to somebody else. The state space of the TLS
wrapper has no bound. Addresses: every IPv6 address with parts 0 and 1 and at most two
runs of zeros, one with parts of four digits, and texts that are no addresses.
Pigweed threads: one worker can be created while another ends; kernel locks nest
twice. Timer: a tick of two bits, that is almost three periods in `MaxTime`, and
deadlines that are past, near and further than the RTOS timer counts. Thread list:
four contexts, so that one between two others can be destroyed, and two ids, so that
one is used again.

### Fairness

Weak fairness is on threads that can run and on a call in progress: the RTOS
runs ready threads. The application is never forced to start an operation. The
acquiring thread of `ThreadNotification` has strong fairness, because the releasing
threads lock the kernel again and again and leave it unlocked in between; for the
same reason creator and workers of `PwThread` have it, and the other thread, which
leaves the sections it enters. So has NetX's deferred processing, whose thread queues
for the IP mutex; lwIP's tcpip thread, which takes a callback among the packets; and
the task of the lwIP port where it waits for a slot of the full mailbox. The EMAC completes a frame in flight while it is powered, the
serial port sends what it holds and its interrupt is served, time passes and the
timer thread runs. IoT calls return, with any result. Servers are not trusted to
answer: waits with a timeout end by the timeout, and AWS's handshake, which has none,
is excluded from fairness as soon as a receive timeout has passed.

## 4. Proofs

| Module | Theorems | Argument |
|---|---|---|
| `NxDriverProofs` | `TypeCorrect`, `Interlocked`, `CompletionSafe`, `BuffersSafe`, `EventsSafe` | `TxInterlock`, the busy flag covering the frame in flight, is not inductive: that nothing is in flight before the flag is set depends on where the command in progress stands, and that re-initialising the driver clears no busy flag of a frame depends on frames being in flight over an enabled link only. `InterlockInv` adds both. `OwnershipInv` adds that the command in progress owns the packet it remembers, unless a completion took it, and how `overlapped`, `stray` and `stranded` follow the frame in flight; no assumption is made about when NetX sends. `BuffersSafe` accounts for heap and headers from it; for `EventsSafe` events, frames and the link flag each have a step lemma. |
| `PwSyncIoProofs` | `Excludes`, `TakenOver`; `Accounted`; `SysIoSafe`, `LinesSafe`, `ReadsSafe`, `RefinesQueue` | `MutexInv`: a thread has a flag up while it waits only if it is in `relocked`, the owner is inside or on its way out, and whoever else is inside was robbed. `NotificationInv`, of `ThreadNotification`: an unused release is owed, a flag seen by a waiting thread has a release behind it, registration lasts from `SetBlocked` to `Awake` unless the thread gave up. For `RingBuffer`: a ring whose full flag is set only when head and tail meet holds `Content`, the same counted from `tail_` and from `head_` (`RingView`); `put` of one item, of a span and of one longer than the buffer each leave the newest items of what was there followed by what is put (`PutNewest`); gets take the oldest (`GetsOldest`, `GetsNewest`). `RxInv`: bytes wait in the port in the order they arrived. A received block is put span by span: that this is the same as putting it whole (`ReceivePuts`), and that an overflow in any span is noticed (`LossSeen`), is by induction on the spans. Each step is then one of `DropOldestQueue` or a stutter. `TxInv`: only the holder of the write lock has bytes left, what it is about to put fits, and for some p the bytes on their way (`Sent`) end with byte p of the current call while the holder's next is byte p + 1 (`Streams`). |
| `PwThreadProofs` | `Exclusive`, `Restores`, `ContextsOwned`, `Misuse`, `Freed`, `ThreadsExcluded` | `LockInv`: at most one thread is past `osKernelLock`; `counter_` is its depth; the saved state is that of the thread's own kernel lock. `LockClient` shows that `PwThread` only takes steps of `KernelLock`, so `LockInv` carries over; `ContextInv` says, for each place of creator and worker, who may still use the context and who frees it. |
| `PwTimerProofs` | `TimerSafe`, `ClockSafe`, `CallbackSafe`, `AbortsSafe` | `ClockInv`: the two halves hold the time of the last reading unless a wrap was missed; `ClockArithmetic` shows that a reading less than a period later is then exact, for a counter of any width. `ExpiryInv`: a deadline in range is not behind the timer's expiry, so `Invoke` on RTX never has to restart an expired timer. `PeriodicInv`: on FreeRTOS a timer that is set is running. |
| `AzurePlatformProofs` | `PlatformSafe`, `Teardown`, `TimeSafe`; `ThreadApiSafe`, `ListSound`, `ExitsHeard`; `SocketIoSafe`, `BuffersInOrder`, `InstancesSafe` | `PlatformInv`. `AnswersInv`: until something has gone wrong, a START, STOP or TERMINATE that is queued, worked on or reported by a flag belongs to the call in progress, so that a wait sees its own flag alone (`WaitResult`). `TidyInv`: until a deinit has failed an idle platform has no client, the list of listeners has one node, and only platform_deinit stops the task. `Fresh`: a client that is not initialised has no task. `ThreadApiInv`: contexts are numbered as they are allocated, `prev` of a live one is the one allocated before it and, until the list is damaged, `next` is the one live after it (`ChainInv`); a thread that looks for its context has not passed it (`WalkInv`); threads that have not ended differ in their ids (`IdsInv`). `SocketIoInv`: an instance holds the connection from open to close (`InstanceInv`); while it is alone the object is connected exactly when it is held, and every socket but that one is closed, or was left behind by a close that failed or an open that displaced it (`ConnectionInv`); the accepted bytes are those sent followed by the pending buffers, the k-th of which starts at `cut[k]` (`BytesInv`). The cut exists at every step, which replaces an induction over the queue: `QueuedInOrder` extends it, `SentInOrder` drops its first point. |
| `AwsNetworkProofs` | `NetInvariant`, `SocketsReleased`, `SessionsReset`, `ResultTrusted`, `ConnectionTrusted` | `NetInv` adds which labels hold a socket (`SocketAt`), how far the session is there (`SessionAt`), and that a refused close leaves the descriptor open. `ConnectionTrusted` puts the socket and the result theorems together. |
| `LwipStackProofs` | `LwipSafe`, `StatusFollows`, `FramesSafe` | `OutputInv`: a pbuf has one reference for the stack and one for the EMAC, a copy lives as long as the EMAC has it. `InputInv`: until the task takes the semaphore, a frame has a signal behind it, unless the last loop was cut short. `StatusInv`: what is posted to lwIP and what the link flag will be when it has run, unless link events were bunched, from the EMAC's power-up on; DHCP is started or has to be; the interface is up with its link, or the link came first. |
| `NetsocketProofs` | `SocketSafe`, `SocketsTyped`, `SocketsOwned`; `PointerSafe`; `Ip6TextIsCanonical`, `Ip6RoundTrip`, `Ip6Yields`, `AddressesAreSound` | `TcpInv`: the lock is held between the two steps of a close and by a thread in `set_timeout` alone (`LockHeld`), which is why no second socket is created while an id is being given back (`ObjectOwns`); until a close has crossed a call, an id that was read is the one of the object's socket (`IdsFresh`). `TlsInv`: the pointer is set while a call is under way and from a completed handshake on, and a handshake that is completed was started. Addresses: see below. |

They hold for every set of packets, threads, ids or descriptors, every counter width
and every bound, under the named assumptions of the modules: that the null values are
no members of the sets and the bounds are natural numbers. Every type invariant that an
inductive invariant needs is part of it; in `AzurePlatformProofs` it is `Typed`, which
leaves out the bounds of `TypeOK` on the list and on the failures, since nothing depends
on them. Each inductive invariant was checked by TLC on the instance of its run first.
Proving them changed little in the models: `Invoke` of `PwTimer` has read the clock also
when its restart aborts, `LwipStack` and `PwThread` name the parts of their type
invariants, those of `ThreadApi` and `SocketIo` type every variable, `SysIo` defines the
spans of a received block by functions of their number, and modules whose theorems share
a file have definitions of distinct names. `IpString` has its loops as functions in place
of RECURSIVE operators, which the provers do not handle, and `stoip6` refuses a text of
40 characters or more (`stoip6.c:65`), which no text of the instance had been before.

The library's induction theorems take the induction hypothesis as an operator, which the
provers cannot instantiate. `SetInduction` states it of a set instead, from the library's
fact that `<` is well-founded on the naturals: what holds of 0 and of the successors of
its members is all of `Nat`. That is enough for `SysIo`, where the data is indexed by
numbers, and for the loops of `IpString`, whose passes are (there it is `NatBySet`):
`LoopRule` says that what each
pass keeps holds after the last one, the statement being a function from the number of
passes to the states allowed.

`AddressesAreSound` needs both sides of every conversion. `DInv` is inductive: a text that
is kept was made by `get_ip_address` from the address the object now has, and the socket
was never given another host's datagram; it needs that the conversions yield addresses and
texts whatever they are given (`Ip4Yields`, `Ip6Yields`, `Ip6Text`). `DInv` implies
`AddressesSound` because of what the texts are. An address has at most one run of zeros
that is left out, of `l` parts from part `z` on (`Shape`), so that its text is a prefix of
one sequence of parts and colons (`Entries`). The pre-scan finds the best run ending
before the part it has come to (`ScanPass`, `ZeroRunIsChosen`); the printing loop has
printed a prefix of the entries (`PrintPass`), and all of them make up the text of RFC 5952
(`PrefixJoins`): that is `Ip6TextIsCanonical`. Reading the text back, `stoip6` stands at
the entry behind the fields read so far (`FieldAt`, `FieldPass`), puts the zeros where they
were left out (`ZerosInserted`) and is not stopped by the length: among eight parts and
their colons there are at most 39 characters (`ShortEnough`). That is `Ip6RoundTrip`.

Only model-checked:

* all liveness (its proof needs `ENABLED`): `WorkFinishes`, `ReleaseReachesWaiter`,
  `JoinReturns`, `TimerFires`, `TerminateEndsTask`, `JoinEnds` and the like.

## 5. Not modelled

* lwIP's multicast filters and the system layer; the memory managers' layout of
  buffers: calls that are passed on, or arithmetic on addresses, without state of
  their own.
* The Azure tick counter, a sum of tick differences each truncated to milliseconds,
  and lwIP's `sys_now`, which multiplies the tick by 1000 in 32 bits and so jumps back
  each time the product wraps (`sys_arch.c:35`).
* Certificate and configuration setters of the TLS wrapper, which hand a parsed
  object to mbed TLS. The destructor of the Pigweed timer. Prefixes of IPv6
  addresses, which no socket uses.
* The contents of packets, times and certificates; logging.
* The memory of mbed TLS: a second `AwsNetwork_connect` after a failed one
  configures the TLS contexts again over live ones (`aws_network_manager.c:79`).
  The result of setting `SO_SNDTIMEO`, which is not looked at (`:186`).
* How often the Azure adapter calls `on_send_complete`: once when the buffer is
  queued (`socketio_openiot.c:435`) and again when it is sent (`:210`).
* NTP timestamps: those of the next era (2036) count as garbage
  (`iot_ntp_client.c:246`).
* The mbed TLS mutex, acquired with timeout 0 (`mbedtls_threading_cmsis_rtos.c:44`):
  a second thread gets an error instead of waiting.
* What the kernel does with a deleted mutex (`platform_openiot.c:54`), and the race
  of two threads for an address object's text (`SocketAddress.cpp:72`): undefined
  without a guard, so that there is no property to state but that it must not happen.
* Threads of the Azure API that themselves create or join threads.
* The components marked `not_modelled` in `PROJECT.json`: wrappers of one call,
  logging and build files.

Of the repository's lines most have no behaviour that could be modelled: four copies
of `mbedtls_config.h` make up 15000, and the configuration headers of the other
libraries, type declarations, examples, mocks and unit tests most of the rest. What
is left, the code that keeps state, is what the modules above model.

## 6. Plan

Every safety property of the runs and the refinement of the receive queue have a theorem; what the provers
could still take is the parts of the wrapper and of lwIP that are not modelled (section
5): certificate setters, multicast filters and address prefixes. They keep little state
of their own, and a property of theirs would come before a proof.
