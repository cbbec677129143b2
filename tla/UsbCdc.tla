------------------------------ MODULE UsbCdc ------------------------------
(***************************************************************************)
(* The USB serial port: stm32l0_usbd_cdc.c, with begin, end, read and the  *)
(* transfers of CDC.cpp above it and the endpoints of the USB stack below. *)
(*                                                                         *)
(* The stack calls the driver from the USB interrupt, which preempts the   *)
(* sketch anywhere but in stm32l0_usbd_cdc_do_transmit; each of its calls  *)
(* is one step.  SerialTx has the rings of CDC.cpp: here a transfer is one *)
(* transfer, started by the sketch or by the callback of the one before.   *)
(* The restart into the boot loader (dfu_timeout) is left out.             *)
(***************************************************************************)
EXTENDS Integers, Sequences

CONSTANTS
    Size,      \* CDC_RX_BUFFER_SIZE
    Packet,    \* STM32L0_USBD_CDC_DATA_MAX_PACKET_SIZE
    Timeout,   \* frames without an answer before a transfer is given up
    Scenes,    \* how host and sketch behave, one of
               \*   lengths   of the host's packets
               \*   reads     bytes that the sketch asks for at a time
               \*   backlog   the host has at most so many bytes unread
               \*   anytime   packets come inside of receive too
               \*   bytes, sends, events   bounds on bytes, transfers, bus events
    Perils     \* what may come at the wrong moment:
               \*   "early"   a packet, inside of enable or before the first enable, or
               \*             a reset of the bus while the port is not enabled
               \*   "closed"  a read, while there is no host
               \*   "bus"     a reset of the bus, inside of transmit, enable or receive,
               \*             a suspend between the first steps of transmit, or a change
               \*             of what enable has found before it stores the state
               \*   "full"    a full PendSV queue

ASSUME UsbCdcAssumption ==
    /\ Size \in Nat /\ Packet \in 1..Size /\ Timeout \in Nat \ {0}
    /\ \A s \in Scenes :
          /\ s.lengths \subseteq 0..Packet /\ s.reads \subseteq Nat \ {0}
          /\ s.anytime \in BOOLEAN /\ {s.backlog, s.bytes, s.sends, s.events} \subseteq Nat
    /\ Perils \subseteq {"early", "closed", "bus", "full"}

INIT      == 1
READY     == 2
SUSPENDED == 3
RESET     == 4

VARIABLES
    state,       \* of the instance
    rx,          \* rx_read, rx_write, rx_wrap, rx_count and rx_event of the instance
    rx_data,
    tx_callback, \* is set
    dev,         \* stm32l0_usbd_cdc_device; usbd says that its handle is not NULL
    line,        \* the stack: RxBuffer, the buffer of the OUT endpoint (armed), a
                 \* transfer on the IN endpoint (sending)
    bus,         \* the host: "off", "on", "asleep"
    cdc,         \* _enabled and _tx_busy of the class, its receive callback queued
    deferred,    \* do_transmit is in the PendSV queue
    pc,          \* where the sketch is
    rcv,         \* rx_count, rx_wrap and rx_read of stm32l0_usbd_cdc_receive
    scene,       \* of the behaviour
    issued,      \* history: bytes sent by the host
    unread,      \* history: the bytes received and not read yet, in order
    asked,       \* history: transfers accepted
    called,      \* history: their callbacks
    events       \* history: bus events

input  == <<rx, rx_data>>
output == <<tx_callback, deferred, asked, called>>
hist   == <<issued, unread, events, scene>>
vars   == <<state, input, dev, line, bus, cdc, output, pc, rcv, hist>>

None == -1   \* the endpoint is not armed
Null == -2   \* the buffer was never set

Init ==
    /\ state = INIT
    /\ rx = [read |-> 0, write |-> 0, wrap |-> 0, count |-> 0, event |-> FALSE]
    /\ rx_data = [i \in 0..Size-1 |-> 0]
    /\ tx_callback = FALSE
    /\ dev = [usbd |-> FALSE, reset |-> FALSE, suspended |-> FALSE, rx_busy |-> FALSE,
              tx_busy |-> FALSE, tx_flush |-> FALSE, tx_timeout |-> 0]
    /\ line = [buffer |-> Null, armed |-> None, sending |-> FALSE]
    /\ bus = "off"
    /\ cdc = [enabled |-> FALSE, tx_busy |-> FALSE, notified |-> FALSE]
    /\ deferred = FALSE /\ pc = "idle"
    /\ rcv = [count |-> 0, wrap |-> 0, read |-> 0]
    /\ scene \in Scenes /\ issued = 0 /\ unread = <<>> /\ asked = 0 /\ called = 0 /\ events = 0

Receiving    == pc \in {"load", "copy", "sub", "test", "busy"}
Storing      == pc \in {"ready", "suspended", "reset", "closed"}
Enabling     == pc \in {"arm", "armed"}
Transmitting == pc \in {"swap", "set", "svc"} \/ deferred

-----------------------------------------------------------------------------
(* What the handlers share. *)

\* (rx_wrap - rx_count) is unsigned.
HasRoom(r) == r.wrap - r.count < 0 \/ r.wrap - r.count >= Packet

\* SetRxBuffer and ReceivePacket.
Armed(at) == [line EXCEPT !.buffer = at, !.armed = at]

Open(s) == s > INIT

\* How enable finds the bus.
Found == CASE ~dev.usbd     -> "closed"
           [] dev.usbd /\ dev.reset -> "reset"
           [] dev.usbd /\ ~dev.reset /\ dev.suspended -> "suspended"
           [] OTHER         -> "ready"

\* The driver leaves d behind and calls back: the class starts its next transfer if
\* it has one, the driver is READY (s) and not busy, and the PendSV queue has room.
CallBack(d, s) ==
    /\ called' = called + 1
    /\ \/ /\ dev' = d /\ cdc' = [cdc EXCEPT !.tx_busy = FALSE]
          /\ UNCHANGED <<deferred, asked>>
       \/ /\ s = READY /\ ~d.tx_busy /\ asked < scene.sends
          /\ dev' = [d EXCEPT !.tx_busy = TRUE]
          /\ \E queued \in {TRUE} \cup {"full" \notin Perils} :
                /\ cdc' = [cdc EXCEPT !.tx_busy = queued]
                /\ deferred' = (deferred \/ queued)
                /\ asked' = IF queued THEN asked + 1 ELSE asked

Silent(d) == dev' = d /\ UNCHANGED <<cdc, deferred, asked, called>>

\* A transfer that is not answered is given up: its callback is called now, and
\* tx_done will only take note.
GiveUp(d, s) ==
    LET given == [d EXCEPT !.tx_flush = @ \/ d.tx_busy]
    IN  IF d.tx_busy /\ ~d.tx_flush /\ tx_callback THEN CallBack(given, s) ELSE Silent(given)

-----------------------------------------------------------------------------
(* The calls of the stack, in the USB interrupt. *)

BusEvent == events < scene.events /\ events' = events + 1

\* USBD_CDC_Init: stm32l0_usbd_cdc_init, then the OUT endpoint is prepared.
Configure ==
    /\ bus = "off" /\ BusEvent
    /\ bus' = "on"
    /\ state' = IF Open(state) THEN RESET ELSE state
    /\ dev' = [usbd |-> TRUE, reset |-> TRUE, suspended |-> FALSE, rx_busy |-> Open(state),
               tx_busy |-> FALSE, tx_flush |-> FALSE, tx_timeout |-> 0]
    /\ line' = LET buffer == IF Open(state) THEN rx.write ELSE line.buffer
               IN  [buffer |-> buffer, armed |-> buffer, sending |-> FALSE]
    /\ UNCHANGED <<input, cdc, output, pc, rcv, issued, unread, scene>>

\* Mutant: nobody is told that the transfer is lost.
DetachQuietly ==
    /\ bus # "off" /\ BusEvent
    /\ (Transmitting \/ Enabling \/ Receiving) => "bus" \in Perils
    /\ state = INIT => "early" \in Perils
    /\ bus' = "off"
    /\ state' = RESET
    /\ Silent([usbd |-> FALSE, reset |-> FALSE, suspended |-> FALSE, rx_busy |-> FALSE,
               tx_busy |-> FALSE, tx_flush |-> FALSE, tx_timeout |-> 0])
    /\ line' = [line EXCEPT !.armed = None, !.sending = FALSE]
    /\ UNCHANGED <<input, tx_callback, pc, rcv, issued, unread, scene>>

\* USBD_CDC_DeInit, when the bus is reset or the cable drawn:
\* stm32l0_usbd_cdc_deinit, which leaves a port that was never enabled in RESET too.
Detach ==
    /\ bus # "off" /\ BusEvent
    /\ (Transmitting \/ Enabling \/ Receiving) => "bus" \in Perils
    /\ state = INIT => "early" \in Perils
    /\ bus' = "off"
    /\ state' = RESET
    /\ LET gone == [usbd |-> FALSE, reset |-> FALSE, suspended |-> FALSE, rx_busy |-> FALSE,
                    tx_busy |-> FALSE, tx_flush |-> FALSE, tx_timeout |-> 0]
       IN  IF dev.tx_busy /\ ~dev.tx_flush /\ tx_callback THEN CallBack(gone, RESET)
           ELSE Silent(gone)
    /\ line' = [line EXCEPT !.armed = None, !.sending = FALSE]
    /\ UNCHANGED <<input, tx_callback, pc, rcv, issued, unread, scene>>

Suspend ==
    /\ bus = "on" /\ BusEvent
    /\ (pc = "swap" \/ (pc = "set" /\ ~tx_callback)) => "bus" \in Perils
    /\ bus' = "asleep"
    /\ state' = IF state = READY THEN SUSPENDED ELSE state
    /\ GiveUp([dev EXCEPT !.suspended = TRUE, !.tx_timeout = 0], state')
    /\ UNCHANGED <<input, line, tx_callback, pc, rcv, issued, unread, scene>>

Resume ==
    /\ bus = "asleep" /\ BusEvent
    /\ bus' = "on"
    /\ state' = IF state = SUSPENDED THEN READY ELSE state
    /\ dev' = [dev EXCEPT !.suspended = FALSE]
    /\ UNCHANGED <<input, line, cdc, output, pc, rcv, issued, unread, scene>>

\* stm32l0_usbd_cdc_sof_callback, each millisecond; the timeout stays at 1 until
\* the transfer is over after all.
Sof ==
    /\ bus = "on" /\ dev.tx_timeout > 0
    /\ IF dev.tx_timeout > 1
       THEN /\ dev' = [dev EXCEPT !.tx_timeout = @ - 1]
            /\ UNCHANGED <<state, cdc, deferred, asked, called>>
       ELSE /\ state' = IF Open(state) THEN RESET ELSE state
            /\ GiveUp([dev EXCEPT !.reset = TRUE], state')
    /\ UNCHANGED <<input, line, bus, tx_callback, pc, rcv, hist>>

\* SET_LINE_CODING or SET_CONTROL_LINE_STATE: a terminal opens the port.
Control ==
    /\ bus = "on" /\ dev.reset
    /\ dev' = [dev EXCEPT !.reset = FALSE]
    /\ state' = IF state = RESET THEN READY ELSE state
    /\ UNCHANGED <<input, line, bus, cdc, output, pc, rcv, hist>>

\* Mutant: the ring wraps when it is full, not when a packet may not fit.
AdvanceLate(r, n) ==
    LET write == r.write + n
    IN  IF write >= Size THEN [r EXCEPT !.wrap = write, !.write = 0, !.count = @ + n]
        ELSE [r EXCEPT !.write = write, !.count = @ + n]

\* Mutant: nobody notes where the wrapped part ends.
AdvanceUnmarked(r, n) ==
    LET write == r.write + n
    IN  [r EXCEPT !.write = IF write + Packet > Size THEN 0 ELSE write, !.count = @ + n]

\* A packet of n bytes is in the ring; a whole packet must fit behind it.
Advance(r, n) ==
    LET write == r.write + n
    IN  IF write + Packet > Size THEN [r EXCEPT !.wrap = write, !.write = 0, !.count = @ + n]
        ELSE [r EXCEPT !.write = write, !.count = @ + n]

\* A packet of n bytes comes, and stm32l0_usbd_cdc_rx_ready takes it.
RxReady(n) ==
    /\ bus = "on" /\ line.armed # None
    /\ issued + n <= scene.bytes /\ Len(unread) + n <= scene.backlog
    /\ Receiving => scene.anytime
    /\ (Enabling \/ line.armed = Null) => "early" \in Perils
    /\ LET next == Advance(rx, n)
           more == Open(state) /\ state # RESET /\ HasRoom(next)
           tell == Open(state) /\ n > 0 /\ rx.event
       IN  /\ rx_data' = [i \in 0..Size-1 |->
                  IF line.armed >= 0 /\ i \in line.armed..line.armed + n - 1
                  THEN issued + 1 + i - line.armed ELSE rx_data[i]]
           /\ rx' = IF Open(state) THEN [next EXCEPT !.event = @ /\ ~tell] ELSE rx
           /\ unread' = IF Open(state) THEN unread \o [i \in 1..n |-> issued + i] ELSE unread
           /\ line' = IF more THEN Armed(next.write) ELSE [line EXCEPT !.armed = None]
           /\ dev' = [dev EXCEPT !.rx_busy = more]
           /\ cdc' = [cdc EXCEPT !.notified = @ \/ tell]
    /\ issued' = issued + n
    /\ UNCHANGED <<state, bus, output, pc, rcv, events, scene>>

\* Mutant: the end of a transfer that was given up is announced like any other.
TxDoneTwice ==
    /\ bus = "on" /\ line.sending
    /\ line' = [line EXCEPT !.sending = FALSE]
    /\ UNCHANGED state
    /\ LET over == [dev EXCEPT !.tx_busy = FALSE, !.tx_timeout = 0, !.tx_flush = FALSE]
       IN  IF tx_callback THEN CallBack(over, state) ELSE Silent(over)
    /\ UNCHANGED <<input, bus, tx_callback, pc, rcv, hist>>

\* The host has taken a transfer: stm32l0_usbd_cdc_tx_done.
TxDone ==
    /\ bus = "on" /\ line.sending
    /\ line' = [line EXCEPT !.sending = FALSE]
    /\ LET over == [dev EXCEPT !.tx_busy = FALSE, !.tx_timeout = 0, !.tx_flush = FALSE]
       IN  IF dev.tx_flush
           THEN /\ state' = IF dev.reset /\ state = RESET THEN READY ELSE state
                /\ Silent([over EXCEPT !.reset = FALSE])
           ELSE /\ UNCHANGED state
                /\ IF tx_callback THEN CallBack(over, state) ELSE Silent(over)
    /\ UNCHANGED <<input, bus, tx_callback, pc, rcv, hist>>

Host == Configure \/ Detach \/ Suspend \/ Resume \/ Control \/ TxDone
        \/ \E n \in scene.lengths : RxReady(n)

-----------------------------------------------------------------------------
(* stm32l0_usbd_cdc_do_transmit, by SVC or from the PendSV queue, with the USB *)
(* interrupt disabled.                                                         *)

\* Without a host the handle is NULL, and nothing says what happens: here, nothing.
DoTransmit ==
    /\ line' = [line EXCEPT !.sending = @ \/ dev.usbd]
    /\ dev' = [dev EXCEPT !.tx_timeout = Timeout]
    /\ UNCHANGED <<state, input, bus, cdc, tx_callback, asked, called, rcv, hist>>

PendSV == deferred /\ deferred' = FALSE /\ DoTransmit /\ UNCHANGED pc

-----------------------------------------------------------------------------
(* The sketch.  What is in the PendSV queue runs before it goes on. *)

At(p)   == pc = p /\ ~deferred
Goto(p) == pc' = p

\* stm32l0_usbd_cdc_transmit, for CDC::write.
Write ==
    /\ At("idle") /\ cdc.enabled /\ ~cdc.tx_busy /\ asked < scene.sends
    /\ cdc' = [cdc EXCEPT !.tx_busy = TRUE]
    /\ Goto("check")
    /\ UNCHANGED <<state, input, dev, line, bus, output, rcv, hist>>

Refuse == Goto("idle") /\ cdc' = [cdc EXCEPT !.tx_busy = FALSE]

TransmitCheck ==
    /\ At("check")
    /\ IF state = READY THEN Goto("swap") /\ UNCHANGED cdc ELSE Refuse
    /\ UNCHANGED <<state, input, dev, line, bus, output, rcv, hist>>

TransmitSwap ==
    /\ At("swap")
    /\ dev' = [dev EXCEPT !.tx_busy = TRUE]
    /\ IF dev.tx_busy THEN Refuse /\ UNCHANGED asked
       ELSE Goto("set") /\ asked' = asked + 1 /\ UNCHANGED cdc
    /\ UNCHANGED <<state, input, line, bus, tx_callback, deferred, called, rcv, hist>>

TransmitSet ==
    /\ At("set")
    /\ tx_callback' = TRUE
    /\ Goto("svc")
    /\ UNCHANGED <<state, input, dev, line, bus, cdc, deferred, asked, called, rcv, hist>>

TransmitSvc == At("svc") /\ Goto("idle") /\ DoTransmit /\ UNCHANGED deferred

\* CDC::begin: flush, then stm32l0_usbd_cdc_enable.
Begin ==
    /\ At("idle")
    /\ Goto("begin")
    /\ UNCHANGED <<state, input, dev, line, bus, cdc, output, rcv, hist>>

\* The ring is set up and the bus looked at; the state is stored after that.
Enable ==
    /\ At("begin") /\ (cdc.enabled => ~cdc.tx_busy)
    /\ cdc' = [cdc EXCEPT !.enabled = FALSE]
    /\ IF state # INIT THEN Goto("idle") /\ UNCHANGED <<rx, unread>>
       ELSE /\ rx' = [read |-> 0, write |-> 0, wrap |-> Size, count |-> 0, event |-> TRUE]
            /\ unread' = <<>>
            /\ Goto(Found)
    /\ UNCHANGED <<state, rx_data, dev, line, bus, output, rcv, issued, events, scene>>

EnableStore ==
    /\ Storing /\ ~deferred
    /\ state' = CASE pc = "ready" -> READY [] pc = "suspended" -> SUSPENDED [] OTHER -> RESET
    /\ cdc' = [cdc EXCEPT !.enabled = (pc = "closed")]
    /\ Goto(IF pc = "closed" THEN "idle" ELSE "arm")
    /\ UNCHANGED <<input, dev, line, bus, output, rcv, hist>>

EnableArm ==
    /\ At("arm")
    /\ line' = IF dev.usbd THEN Armed(rx.write) ELSE line
    /\ Goto("armed")
    /\ UNCHANGED <<state, input, dev, bus, cdc, output, rcv, hist>>

EnableBusy ==
    /\ At("armed")
    /\ dev' = [dev EXCEPT !.rx_busy = TRUE]
    /\ cdc' = [cdc EXCEPT !.enabled = TRUE]
    /\ Goto("idle")
    /\ UNCHANGED <<state, input, line, bus, output, rcv, hist>>

\* CDC::end: flush, then stm32l0_usbd_cdc_disable.
End ==
    /\ At("idle") /\ cdc.enabled
    /\ Goto("end")
    /\ UNCHANGED <<state, input, dev, line, bus, cdc, output, rcv, hist>>

Disable ==
    /\ At("end") /\ ~cdc.tx_busy
    /\ IF state < READY THEN UNCHANGED <<state, rx, unread>>
       ELSE /\ state' = INIT
            /\ rx' = [rx EXCEPT !.read = 0, !.write = 0, !.wrap = 0, !.count = 0]
            /\ unread' = <<>>
    /\ cdc' = [cdc EXCEPT !.enabled = FALSE]
    /\ Goto("idle")
    /\ UNCHANGED <<rx_data, dev, line, bus, output, rcv, issued, events, scene>>

-----------------------------------------------------------------------------
(* stm32l0_usbd_cdc_receive. *)

\* The sketch reads when it likes, or until nothing is available when its receive
\* callback is called.
Read(n) ==
    /\ At("idle") /\ (dev.usbd \/ "closed" \in Perils)
    /\ IF state < READY THEN UNCHANGED <<pc, rcv>>
       ELSE /\ rcv' = [rcv EXCEPT !.count = IF n > rx.count THEN rx.count ELSE n]
            /\ Goto("load")
    /\ UNCHANGED <<state, input, dev, line, bus, cdc, output, hist>>

Notified ==
    /\ At("idle") /\ cdc.notified
    /\ IF state >= READY /\ rx.count > 0
       THEN (\E n \in scene.reads : Read(n)) /\ UNCHANGED cdc
       ELSE /\ cdc' = [cdc EXCEPT !.notified = FALSE]
            /\ UNCHANGED <<pc, rcv>>
    /\ UNCHANGED <<state, input, dev, line, bus, output, hist>>

ReceiveLoad ==
    /\ At("load")
    /\ rcv' = [rcv EXCEPT !.wrap = rx.wrap, !.read = rx.read]
    /\ Goto("copy")
    /\ UNCHANGED <<state, input, dev, line, bus, cdc, output, hist>>

\* Slot of the i-th byte (from 0) when reading starts at `from` of a ring that wraps.
Slot(from, wrap, i) == IF from + i < wrap THEN from + i ELSE from + i - wrap

Copied == [i \in 1..rcv.count |-> rx_data[Slot(rcv.read, rcv.wrap, i - 1)]]

\* The bytes are copied, and rx_wrap, rx_read and rx_event stored.
ReceiveCopy ==
    /\ At("copy")
    /\ LET stop == rcv.read + rcv.count
       IN  rx' = [rx EXCEPT !.read = Slot(rcv.read, rcv.wrap, rcv.count),
                            !.wrap = IF stop >= rcv.wrap THEN Size ELSE rcv.wrap,
                            !.event = TRUE]
    /\ unread' = SubSeq(unread, rcv.count + 1, Len(unread))
    /\ Goto("sub")
    /\ UNCHANGED <<state, rx_data, dev, line, bus, cdc, output, rcv, issued, events, scene>>

ReceiveSub ==
    /\ At("sub")
    /\ rx' = [rx EXCEPT !.count = @ - rcv.count]
    /\ Goto("test")
    /\ UNCHANGED <<state, rx_data, dev, line, bus, cdc, output, rcv, hist>>

ReceiveTest ==
    /\ At("test")
    /\ IF ~dev.rx_busy /\ HasRoom(rx)
       THEN /\ line' = IF dev.usbd THEN Armed(rx.write) ELSE line
            /\ Goto("busy")
       ELSE Goto("idle") /\ UNCHANGED line
    /\ UNCHANGED <<state, input, dev, bus, cdc, output, rcv, hist>>

ReceiveBusy ==
    /\ At("busy")
    /\ dev' = [dev EXCEPT !.rx_busy = TRUE]
    /\ Goto("idle")
    /\ UNCHANGED <<state, input, line, bus, cdc, output, rcv, hist>>

-----------------------------------------------------------------------------
Running ==
    \/ TransmitCheck \/ TransmitSwap \/ TransmitSet \/ TransmitSvc
    \/ Enable \/ EnableStore \/ EnableArm \/ EnableBusy \/ Disable
    \/ ReceiveLoad \/ ReceiveCopy \/ ReceiveSub \/ ReceiveTest \/ ReceiveBusy

Sketch == Write \/ Begin \/ End \/ Running \/ Notified \/ \E n \in scene.reads : Read(n)

\* What enable found holds until it has stored the state.
StillSo == Storing => Found' = Found \/ "bus" \in Perils

Next == ((Host \/ Sof) /\ StillSo) \/ PendSV \/ Sketch

Spec == Init /\ [][Next]_vars

\* Frames go on while the bus is on, and the sketch does what it has begun.  The
\* receive callback runs from the PendSV queue, whatever the sketch does otherwise.
\* The host owes nothing.
LiveSpec == /\ Spec
            /\ WF_vars(Sof) /\ WF_vars(PendSV) /\ WF_vars(Running) /\ SF_vars(Notified)

-----------------------------------------------------------------------------
(* Properties. *)

TypeOK ==
    /\ state \in INIT..RESET
    /\ rx \in [read : 0..Size, write : 0..Size-Packet, wrap : 0..Size, count : 0..Size,
               event : BOOLEAN]
    /\ rx_data \in [0..Size-1 -> 0..scene.bytes]
    /\ dev \in [usbd : BOOLEAN, reset : BOOLEAN, suspended : BOOLEAN, rx_busy : BOOLEAN,
                tx_busy : BOOLEAN, tx_flush : BOOLEAN, tx_timeout : 0..Timeout]
    /\ line \in [buffer : Null..Size-1, armed : Null..Size-1, sending : BOOLEAN]
    /\ bus \in {"off", "on", "asleep"}
    /\ cdc \in [enabled : BOOLEAN, tx_busy : BOOLEAN, notified : BOOLEAN]
    /\ {tx_callback, deferred} \subseteq BOOLEAN
    /\ pc \in {"idle", "check", "swap", "set", "svc", "begin", "ready", "suspended",
               "reset", "closed", "arm", "armed", "end", "load", "copy", "sub", "test", "busy"}
    /\ rcv \in [count : 0..Size, wrap : 0..Size, read : 0..Size]
    /\ scene \in Scenes /\ asked \in 0..scene.sends /\ called \in Nat
    /\ issued \in 0..scene.bytes /\ events \in 0..scene.events

\* The slots that hold the bytes to be read.
UnreadSlots == {Slot(rx.read, rx.wrap, i) : i \in 0..Len(unread)-1}

\* The host is made to wait (NAK) until its next packet has a place: the endpoint
\* is never given memory that holds unread bytes.
ArmedIsFree ==
    line.armed >= 0 /\ ~Enabling =>
        line.armed..line.armed + Packet - 1 \subseteq (0..Size-1) \ UnreadSlots

\* The ring holds the bytes that came and were not read, in order, for any packets
\* and reads and across every reset of the bus, receive copies the oldest, and the
\* endpoint is given none of them.  Packets shorter than the maximum may break it when
\* the host has more unread than the ring less one packet: rx_ready wraps over
\* unread bytes, and (rx_wrap - rx_count) underflows.
RingIsQueue == state >= READY =>
    /\ rx.count = Len(unread) + (IF pc = "sub" THEN rcv.count ELSE 0)
    /\ \A i \in 1..Len(unread) : rx_data[Slot(rx.read, rx.wrap, i - 1)] = unread[i]
    /\ pc = "copy" => Copied = SubSeq(unread, 1, rcv.count)
    /\ ArmedIsFree

\* An accepted transfer is called back once: when the host took it, or when it was
\* given up, by a timeout, a suspend or a detach, and not again when the host takes
\* it later.
CalledOnce == called \in {asked - 1, asked}

\* The comment of stm32l0_usbd_cdc_do_transmit: done at this level, a transfer has
\* no concurrency issues with incoming interrupts.  So it is, but for a reset of the
\* bus after transmit has tested the state (Perils "bus").
TransmitsToOpen == [][line'.sending # line.sending \/ dev'.tx_timeout > dev.tx_timeout => dev.usbd]_vars

\* A port that is in use goes on receiving once there is nothing left to read,
\* unless a packet came between the arming of the endpoint in receive and the store
\* to rx_busy.
KeepsReceiving ==
    []<>(state = READY /\ unread = <<>> /\ ~scene.anytime => line.armed # None)

\* Every accepted transfer is called back, whatever the host does: flush and end
\* return.  The receive callback of the sketch gets to every byte, and the port goes
\* on receiving.
EverythingEnds ==
    /\ called # asked ~> called = asked
    /\ pc # "idle" ~> pc = "idle"
    /\ unread # <<>> ~> unread = <<>> \/ bus = "off"
    /\ KeepsReceiving
=============================================================================
