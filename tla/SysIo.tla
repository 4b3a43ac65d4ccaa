-------------------------------- MODULE SysIo --------------------------------
(***************************************************************************)
(* pw::sys_io over a serial port (sys_io_mdh.cc): threads write lines and  *)
(* read bytes through two ring buffers that the serial interrupts drain    *)
(* and fill.  Each critical section and each interrupt handler is a step;  *)
(* an interrupt may come between any two of them.  The recursive locks of  *)
(* cmsis_rtos_lock.c exclude writers, and readers, from each other.        *)
(*                                                                         *)
(* A written byte is <<call, place>>: the write call it belongs to and its *)
(* place there.  Received bytes are numbered as they arrive.               *)
(***************************************************************************)
EXTENDS RingBuffer, SequencesExt

CONSTANTS Writer, Reader, Nobody,
          TxSize, RxSize,     \* PW_SYS_IO_MDH_TX_ and RX_BUFFER_SIZE
          RxChunk,            \* PW_SYS_IO_MDH_PERIPHERAL_RX_BUFFER_SIZE
          TxDepth, RxDepth,   \* bytes the serial port itself holds each way
          MaxText,            \* longest text of one write
          MaxCalls, MaxBytes  \* write calls, and received bytes, of a behaviour

ASSUME SysIoAssumption ==
    /\ {TxSize, RxSize, RxChunk, TxDepth, RxDepth, MaxBytes} \subseteq Nat \ {0}
    /\ {MaxText, MaxCalls} \subseteq Nat
    /\ Nobody \notin Writer \cup Reader

VARIABLES tx_buffer_, rx_buffer_, tx_sending_,
          write_lock, read_lock,   \* the thread that holds it, or Nobody
          wpc, text, byte, room,   \* a writer's place, bytes to go, span size
          port_tx, port_rx, irq,   \* the serial port and its raised interrupts
          wire,                    \* bytes sent
          \* history: write calls begun; bytes arrived and bytes put in rx_buffer_;
          \* bytes overwritten, and the overflow branch taken; a span read
          \* from tail_ # 0 in one piece; a read that gave other than the oldest
          calls, arrived, stored, lost, detected, skewed, misread

txvars == <<tx_buffer_, tx_sending_, write_lock, wpc, text, byte, room, port_tx, wire, calls>>
rxvars == <<rx_buffer_, read_lock, port_rx, arrived, stored, lost, detected, skewed, misread>>
vars == <<txvars, rxvars, irq>>

Bytes == (1..MaxCalls) \X (1..MaxText + 1)

TypeOK ==
    /\ tx_buffer_ \in Rings(TxSize, Bytes) /\ rx_buffer_ \in Rings(RxSize, 1..MaxBytes)
    /\ tx_sending_ \in BOOLEAN /\ lost \in BOOLEAN /\ detected \in BOOLEAN
    /\ skewed \in BOOLEAN /\ misread \in BOOLEAN
    /\ write_lock \in Writer \cup {Nobody} /\ read_lock \in Reader \cup {Nobody}
    /\ wpc \in [Writer -> {"idle", "check", "put", "trigger"}]
    /\ text \in [Writer -> Seq(Bytes)] /\ byte \in [Writer -> Seq(Bytes)]
    /\ room \in [Writer -> 0..TxSize]
    /\ port_tx \in Seq(Bytes) /\ port_rx \in Seq(1..MaxBytes)
    /\ irq \subseteq {"RX", "TX"}
    /\ wire \in Seq(Bytes)
    /\ calls \in 0..MaxCalls /\ arrived \in 0..MaxBytes /\ stored \in 0..arrived

\* pw_sys_io_init: both interrupts are enabled; an idle port may raise TX at once.
Init ==
    /\ tx_buffer_ = Empty(TxSize) /\ rx_buffer_ = Empty(RxSize)
    /\ tx_sending_ = FALSE
    /\ write_lock = Nobody /\ read_lock = Nobody
    /\ wpc = [w \in Writer |-> "idle"]
    /\ text = [w \in Writer |-> <<>>] /\ byte = [w \in Writer |-> <<>>]
    /\ room = [w \in Writer |-> 0]
    /\ port_tx = <<>> /\ port_rx = <<>> /\ wire = <<>>
    /\ irq \in {{}, {"TX"}}
    /\ calls = 0 /\ arrived = 0 /\ stored = 0
    /\ lost = FALSE /\ detected = FALSE /\ skewed = FALSE /\ misread = FALSE

-----------------------------------------------------------------------------
(* Writers.  A definition Name_Slip, just above Name, is a plausible slip   *)
(* in the code of Name.                                                     *)

\* WriteByte (no text), WriteBytes (no byte after it) and WriteLine (both),
\* under the guard of the outermost call; the guards of the calls WriteLine
\* makes are nested in it.
Write(w, n, newline) ==
    /\ calls < MaxCalls
    /\ wpc[w] = "idle"
    /\ write_lock = Nobody
    /\ n > 0 \/ newline
    /\ write_lock' = w
    /\ calls' = calls + 1
    /\ text' = [text EXCEPT ![w] = [i \in 1..n |-> <<calls + 1, i>>]]
    /\ byte' = [byte EXCEPT ![w] = IF newline THEN << <<calls + 1, n + 1>> >> ELSE <<>>]
    /\ wpc' = [wpc EXCEPT ![w] = "check"]
    /\ UNCHANGED <<tx_buffer_, tx_sending_, room, port_tx, wire, rxvars, irq>>

\* put(data): is there room?  put(span): how much of it fits?
Check(w) ==
    /\ wpc[w] = "check"
    /\ text[w] # <<>> \/ capacity(tx_buffer_) > 0
    /\ LET n == IF text[w] = <<>> THEN 1 ELSE Len(text[w])
           c == capacity(tx_buffer_)
       IN  room' = [room EXCEPT ![w] = IF c < n THEN c ELSE n]
    /\ wpc' = [wpc EXCEPT ![w] = "put"]
    /\ UNCHANGED <<tx_buffer_, tx_sending_, write_lock, text, byte, port_tx, wire, calls, rxvars, irq>>

Put(w) ==
    /\ wpc[w] = "put"
    /\ \/ /\ text[w] # <<>>
          /\ tx_buffer_' = put(tx_buffer_, SubSeq(text[w], 1, room[w]))
          /\ text' = [text EXCEPT ![w] = SubSeq(@, room[w] + 1, Len(@))]
          /\ UNCHANGED byte
       \/ /\ text[w] = <<>>
          /\ tx_buffer_' = put(tx_buffer_, byte[w])
          /\ byte' = [byte EXCEPT ![w] = <<>>]
          /\ UNCHANGED text
    /\ wpc' = [wpc EXCEPT ![w] = "trigger"]
    /\ UNCHANGED <<tx_sending_, write_lock, room, port_tx, wire, calls, rxvars, irq>>

\* The loop of trigger_send and serial_irq_tx_cb: at least one byte goes to the
\* port, then more while it is writable; it sends on meanwhile.
\* mdh_serial_put_data waits for a place in the port.
Feed(raised) ==
    \E k \in 1..size_(tx_buffer_) :
        LET got == GetEach(tx_buffer_, k)
            all == port_tx \o got.dest
            out == IF Len(all) > TxDepth THEN Len(all) - TxDepth ELSE 0
        IN  /\ k = size_(tx_buffer_) \/ Len(all) >= TxDepth
            /\ tx_buffer_' = got.ring
            /\ tx_sending_' = TRUE
            /\ port_tx' = SubSeq(all, out + 1, Len(all))
            /\ wire' = wire \o SubSeq(all, 1, out)
            /\ irq' = IF out > 0 THEN raised \cup {"TX"} ELSE raised

\* The outermost guard ends with the last byte.
CallEnds_Nested(w) == text[w] = <<>>
CallEnds(w) == text[w] = <<>> /\ byte[w] = <<>>
NotSending_Negated == tx_sending_
NotSending == ~tx_sending_
Trigger(w) ==
    /\ wpc[w] = "trigger"
    /\ IF NotSending /\ ~empty_(tx_buffer_) THEN Feed(irq)
       ELSE UNCHANGED <<tx_buffer_, tx_sending_, port_tx, wire, irq>>
    /\ wpc' = [wpc EXCEPT ![w] = IF text[w] = <<>> /\ byte[w] = <<>> THEN "idle" ELSE "check"]
    /\ write_lock' = IF CallEnds(w) THEN Nobody ELSE write_lock
    /\ UNCHANGED <<text, byte, room, calls, rxvars>>

-----------------------------------------------------------------------------
(* The serial port and its interrupts.                                      *)

Shift ==
    /\ port_tx # <<>>
    /\ wire' = Append(wire, Head(port_tx))
    /\ port_tx' = Tail(port_tx)
    /\ irq' = irq \cup {"TX"}
    /\ UNCHANGED <<tx_buffer_, tx_sending_, write_lock, wpc, text, byte, room, calls, rxvars>>

serial_irq_tx_cb ==
    /\ "TX" \in irq
    /\ \/ /\ empty_(tx_buffer_)
          /\ tx_sending_' = FALSE
          /\ irq' = irq \ {"TX"}
          /\ UNCHANGED <<tx_buffer_, port_tx, wire>>
       \/ ~empty_(tx_buffer_) /\ Feed(irq \ {"TX"})
    /\ UNCHANGED <<write_lock, wpc, text, byte, room, calls, rxvars>>

Arrive ==
    /\ arrived < MaxBytes
    /\ Len(port_rx) < RxDepth
    /\ arrived' = arrived + 1
    /\ port_rx' = Append(port_rx, arrived + 1)
    /\ irq' = irq \cup {"RX"}
    /\ UNCHANGED <<rx_buffer_, read_lock, stored, lost, detected, skewed, misread, txvars>>

\* What the port holds, put in spans of RxChunk bytes and a last shorter one: the
\* j-th span, and the buffer after j of them.
Upto(j) == IF j * RxChunk < Len(port_rx) THEN j * RxChunk ELSE Len(port_rx)
Span(j) == SubSeq(port_rx, (j - 1) * RxChunk + 1, Upto(j))
After[j \in Nat] == IF j = 0 THEN rx_buffer_ ELSE put(After[j - 1], Span(j))

serial_irq_rx_cb ==
    /\ "RX" \in irq
    /\ LET n == Len(port_rx)
       IN  /\ rx_buffer_' = After[n]
           /\ lost' = (lost \/ n > capacity(rx_buffer_))
           /\ detected' = (detected \/ \E j \in 1..n : Overflows(After[j - 1], Span(j)))
           /\ stored' = stored + n
    /\ port_rx' = <<>>
    /\ irq' = irq \ {"RX"}
    /\ UNCHANGED <<read_lock, arrived, skewed, misread, txvars>>

-----------------------------------------------------------------------------
(* Readers.                                                                 *)

\* A get into a destination of n bytes: the buffer it leaves, and whether the
\* destination is what the queue's oldest bytes are.
Get(n) ==
    LET got == get(rx_buffer_, n)
        due == SubSeq(Content(rx_buffer_), 1, Len(got.dest))
    IN  /\ rx_buffer_' = got.ring
        /\ misread' = (misread \/ got.dest # due)
        /\ skewed' = (skewed \/ /\ n > 1 /\ rx_buffer_.tail_ # 0 /\ ~empty_(rx_buffer_)
                                /\ rx_buffer_.tail_ + Len(got.dest) <= RxSize)
        /\ UNCHANGED <<port_rx, arrived, stored, lost, detected, txvars, irq>>

\* ReadByte keeps the lock while it polls; TryReadByte's own guard is nested.
ReadByte(r) ==
    /\ read_lock = Nobody
    /\ read_lock' = r
    /\ UNCHANGED <<rx_buffer_, port_rx, arrived, stored, lost, detected, skewed, misread, txvars, irq>>

ReadByteGets(r) ==
    /\ read_lock = r
    /\ ~empty_(rx_buffer_)
    /\ Get(1)
    /\ read_lock' = Nobody

TryReadByte == read_lock = Nobody /\ Get(1) /\ UNCHANGED read_lock

ReadBytes(n) == read_lock = Nobody /\ Get(n) /\ UNCHANGED read_lock

Next ==
    \/ \E w \in Writer : \/ \E n \in 0..MaxText, newline \in BOOLEAN : Write(w, n, newline)
                         \/ Check(w) \/ Put(w) \/ Trigger(w)
    \/ Shift \/ serial_irq_tx_cb \/ Arrive \/ serial_irq_rx_cb
    \/ \E r \in Reader : ReadByte(r) \/ ReadByteGets(r)
    \/ TryReadByte
    \/ \E n \in 2..RxSize : ReadBytes(n)

\* The port sends what it holds, its interrupts are served, and a thread that
\* is in a write goes on with it.
Fairness ==
    /\ WF_vars(Shift) /\ WF_vars(serial_irq_tx_cb)
    /\ \A w \in Writer : WF_vars(Check(w) \/ Put(w) \/ Trigger(w))

Spec == Init /\ [][Next]_vars /\ Fairness

-----------------------------------------------------------------------------
\* The receive buffer, whatever is put, read or overwritten and wherever its
\* indices wrap, is a queue that keeps the newest RxSize bytes ("Ring buffer that
\* overwrites old data when full", sys_io_mdh.cc:57).
Queue == INSTANCE DropOldestQueue
            WITH Capacity <- RxSize, Batch <- RxDepth,
                 items <- Content(rx_buffer_), next <- stored + 1
ReceiveIsQueue == Queue!Spec

\* Writers' bytes reach the port call by call, each call whole and in order,
\* however calls overlap and interrupts drain the buffer between the look at its
\* capacity and the put: nothing is overwritten, and no line has another's bytes.
Sent == wire \o port_tx \o Content(tx_buffer_)
LinesWhole ==
    \A i \in 1..Len(Sent) - 1 :
        \/ Sent[i + 1] = <<Sent[i][1], Sent[i][2] + 1>>
        \/ /\ Sent[i + 1] = <<Sent[i][1] + 1, 1>>
           /\ \A w \in Writer : \A k \in 1..Len(byte[w]) : byte[w][k][1] > Sent[i][1]
           /\ \A w \in Writer : \A k \in 1..Len(text[w]) : text[w][k][1] > Sent[i][1]

\* A byte put in the send buffer is sent: tx_sending_ never stays set with
\* nothing under way to raise the interrupt that goes on.
WrittenIsSent ==
    \A b \in Bytes : (\E i \in 1..Len(Sent) : Sent[i] = b) ~> (\E i \in 1..Len(wire) : wire[i] = b)

\* A received byte is never overwritten without the overflow branch, where
\* ABORT_ON_OVERFLOW would stop the program.
LossDetected == lost => detected

\* A read hands over exactly the oldest bytes it takes from the queue, unless
\* some span was read in one piece from a tail_ other than 0.
ReadsOldest == misread => skewed

\* What a reader gets is what was received: the oldest bytes of the queue, none of
\* them dropped unnoticed.
ReadsAccounted == LossDetected /\ ReadsOldest
==============================================================================
