---------------------------- MODULE UsbCdcProofs ----------------------------
(***************************************************************************)
(* Theorems about UsbCdc for every size of the ring and of a packet, every *)
(* timeout, and every number of bytes, transfers and bus events.           *)
(*                                                                         *)
(* CallsCorrect and TransmitsCorrect suppose that the bus does not fail in *)
(* the middle of a call and the PendSV queue has room (Answered).          *)
(* RingCorrect supposes that whole packets come, or no more of them than   *)
(* leave room for one more, and that the sketch opens the port before the  *)
(* bus does and reads while there is a host (Roomy).                       *)
(***************************************************************************)
EXTENDS UsbCdc, SequenceTheorems, TLAPS

\* BOOLEAN, for the fields of records.
Truth == BOOLEAN

\* The bus does not fail in the middle of a call, and the PendSV queue has room.
Answered == {"bus", "full"} \intersect Perils = {}

\* n is so many packets.
Multiple(n) == \E k \in 0..n : n = k * Packet

\* Packets that fill the ring without a gap at its end.
Whole(s) == s.lengths \subseteq {0, Packet} /\ Multiple(Size)

\* Where the ring may be wrapped.
LeastWrap(s) == IF Whole(s) THEN Size ELSE Size - Packet + 1

\* What comes fits: whole packets (the code's ring is 4 of them) at any time, or packets of
\* any length, out of receive, that leave room for one more.  A bus that starts again
\* arms the endpoint without a test, and needs the room beyond what is unread then.
Roomy ==
    /\ Perils \subseteq {"full"}
    /\ \A s \in Scenes :
          /\ Whole(s) \/ (~s.anytime /\ s.backlog + Packet <= Size)
          /\ s.events <= 1 \/ s.backlog + Packet <= LeastWrap(s)

-----------------------------------------------------------------------------
(* The inductive invariants. *)

Devices == [usbd : Truth, reset : Truth, suspended : Truth, rx_busy : Truth,
            tx_busy : Truth, tx_flush : Truth, tx_timeout : 0..Timeout]
Lines   == [buffer : Int, armed : Int, sending : Truth]
Classes == [enabled : Truth, tx_busy : Truth, notified : Truth]
Rings   == [read : Int, write : Int, wrap : Int, count : Int, event : Truth]
Locals  == [count : Int, wrap : Int, read : Int]
Places  == {"idle", "check", "swap", "set", "svc", "begin", "ready", "suspended",
            "reset", "closed", "arm", "armed", "end", "load", "copy", "sub", "test", "busy"}

BaseInv ==
    /\ state \in INIT..RESET /\ dev \in Devices /\ line \in Lines /\ cdc \in Classes
    /\ bus \in {"off", "on", "asleep"} /\ pc \in Places
    /\ tx_callback \in BOOLEAN /\ deferred \in BOOLEAN
    /\ scene \in Scenes /\ asked \in Nat /\ called \in Nat
    /\ rx \in Rings /\ rcv \in Locals

\* Without a host there is nothing to transmit on.
HostInv ==
    /\ dev.usbd = (bus # "off")
    /\ bus = "off" => /\ state \in {INIT, RESET}
                      /\ dev.tx_busy = FALSE /\ line.sending = FALSE /\ line.armed = None
                      /\ pc \notin {"swap", "set", "svc"} /\ deferred = FALSE

\* enable notes whether there is a host, and it stays so until the state is stored.
FoundInv == Storing => (dev.usbd = TRUE <=> pc # "closed")

\* Until then nobody uses the ring that enable has set up.
StoreInv == Storing =>
    /\ ~Open(state) /\ unread = <<>>
    /\ rx.read = 0 /\ rx.write = 0 /\ rx.wrap = Size /\ rx.count = 0

\* A transfer is accepted and not called back yet.
Pending == dev.tx_busy = TRUE /\ dev.tx_flush = FALSE

\* How often the driver has called back: each accepted transfer once, when it is not
\* pending any more.  The arguments are what CallsInv gives them.
CallsOf(busy, flush, timeout, sending, p, q, class, callback, a, c, most) ==
    /\ flush = TRUE => busy = TRUE
    /\ sending = TRUE => busy = TRUE
    /\ p \in {"set", "svc"} \/ q = TRUE => busy = TRUE /\ sending = FALSE
    /\ q = TRUE => p \notin {"set", "svc"}
    /\ busy = TRUE /\ flush = FALSE =>
          class = TRUE /\ (callback = TRUE \/ p = "set") /\ a = c + 1
    /\ ~(busy = TRUE /\ flush = FALSE) => a = c
    /\ p \in {"check", "swap"} => class = TRUE /\ ~(busy = TRUE /\ flush = FALSE) /\ a < most
    /\ p = "svc" \/ q = TRUE \/ sending = TRUE \/ timeout # 0 => callback = TRUE
    /\ a <= most

CallsInv == CallsOf(dev.tx_busy, dev.tx_flush, dev.tx_timeout, line.sending, pc, deferred,
                    cdc.tx_busy, tx_callback, asked, called, scene.sends)

DataInv ==
    /\ rx.read \in 0..Size /\ rx.write \in 0..Size-Packet
    /\ rx.wrap \in 0..Size /\ rx.count \in 0..Size
    /\ rcv.read \in 0..Size /\ rcv.wrap \in 0..Size /\ rcv.count \in 0..Size
    /\ line.buffer \in Null..Size-1 /\ line.armed \in Null..Size-1
    /\ issued \in 0..scene.bytes /\ events \in 0..scene.events
    /\ rx_data \in [0..Size-1 -> 0..scene.bytes]
    /\ unread \in Seq(Nat) /\ Len(unread) <= scene.backlog

PlaceInv ==
    /\ Receiving \/ Enabling => Open(state) /\ bus # "off"
    /\ Enabling => rx.count = 0 /\ unread = <<>>
    /\ events = 0 => bus = "off" /\ (Open(state) => unread = <<>>)

\* The unread bytes lie behind each other, or up to wrap and then from 0 on.
Straight(r, n) == r.wrap = Size /\ r.read + n = r.write
Folded(r, n)   == /\ r.read < r.wrap /\ r.write <= r.read /\ r.read + n = r.wrap + r.write
                  /\ Size - Packet < r.wrap

Taken == IF pc = "sub" THEN rcv.count ELSE 0

\* The ring r holds u.
Holds(r, data, u) == \A i \in 1..Len(u) : data[Slot(r.read, r.wrap, i - 1)] = u[i]

RingInv ==
    Open(state) =>
       /\ rx.count = Len(unread) + Taken /\ rx.count <= rx.wrap
       /\ Straight(rx, Len(unread)) \/ Folded(rx, Len(unread))
       /\ Whole(scene) => rx.wrap = Size /\ Multiple(rx.write)
       /\ Holds(rx, rx_data, unread)

ArmedInv ==
    Open(state) /\ line.armed # None /\ pc # "arm" =>
       line.armed = rx.write /\ rx.count + Packet <= rx.wrap

ReceiveInv ==
    /\ pc \in {"load", "copy"} => rcv.count <= Len(unread)
    /\ pc = "copy" => rcv.wrap = rx.wrap /\ rcv.read = rx.read

AnsweredInv == BaseInv /\ HostInv /\ FoundInv /\ CallsInv
QueueInv    == DataInv /\ PlaceInv /\ RingInv /\ ArmedInv /\ ReceiveInv
RoomyInv    == BaseInv /\ HostInv /\ FoundInv /\ StoreInv /\ QueueInv

-----------------------------------------------------------------------------
(* Records. *)

\* Setting a field of the device keeps it a device.
LEMMA DeviceSet ==
  ASSUME NEW d \in Devices, NEW v \in Truth
  PROVE  /\ [d EXCEPT !.reset = v] \in Devices
         /\ [d EXCEPT !.suspended = v] \in Devices
         /\ [d EXCEPT !.rx_busy = v] \in Devices
         /\ [d EXCEPT !.tx_busy = v] \in Devices
         /\ [d EXCEPT !.tx_flush = v] \in Devices
  BY Zenon DEF Devices

\* So does setting the timeout.
LEMMA TimeoutSet ==
  ASSUME NEW d \in Devices, NEW n \in 0..Timeout
  PROVE  /\ [d EXCEPT !.tx_timeout = n] \in Devices
         /\ \A v \in Truth : [d EXCEPT !.suspended = v, !.tx_timeout = n] \in Devices
  BY Zenon DEF Devices

\* Setting a field of the class keeps it a class.
LEMMA ClassSet ==
  ASSUME NEW c \in Classes, NEW v \in Truth
  PROVE  /\ [c EXCEPT !.enabled = v] \in Classes
         /\ [c EXCEPT !.tx_busy = v] \in Classes
         /\ [c EXCEPT !.notified = v] \in Classes
  BY Zenon DEF Classes

\* Setting fields of the stack's endpoints.
LEMMA LineSet ==
  ASSUME NEW l \in Lines
  PROVE  /\ \A v \in Truth : [l EXCEPT !.sending = v] \in Lines
         /\ \A n \in Int : [l EXCEPT !.armed = n] \in Lines
         /\ \A n \in Int, v \in Truth : [l EXCEPT !.armed = n, !.sending = v] \in Lines
         /\ \A m, n \in Int : [l EXCEPT !.buffer = m, !.armed = n] \in Lines
  BY Zenon DEF Lines

\* A field of a device that is a truth value may be used as a condition.
LEMMA DeviceTruth ==
  ASSUME NEW d \in Devices
  PROVE  /\ d.usbd \in BOOLEAN /\ d.reset \in BOOLEAN /\ d.suspended \in BOOLEAN
         /\ d.rx_busy \in BOOLEAN /\ d.tx_busy \in BOOLEAN /\ d.tx_flush \in BOOLEAN
         /\ d.tx_timeout \in 0..Timeout
         /\ (d.usbd <=> d.usbd = TRUE) /\ (~d.usbd <=> d.usbd = FALSE)
         /\ (d.reset <=> d.reset = TRUE) /\ (~d.reset <=> d.reset = FALSE)
         /\ (d.suspended <=> d.suspended = TRUE) /\ (~d.suspended <=> d.suspended = FALSE)
         /\ (d.rx_busy <=> d.rx_busy = TRUE) /\ (~d.rx_busy <=> d.rx_busy = FALSE)
         /\ (d.tx_busy <=> d.tx_busy = TRUE) /\ (~d.tx_busy <=> d.tx_busy = FALSE)
         /\ (d.tx_flush <=> d.tx_flush = TRUE) /\ (~d.tx_flush <=> d.tx_flush = FALSE)
<1>1. /\ d.usbd \in BOOLEAN /\ d.reset \in BOOLEAN /\ d.suspended \in BOOLEAN
      /\ d.rx_busy \in BOOLEAN /\ d.tx_busy \in BOOLEAN /\ d.tx_flush \in BOOLEAN
      /\ d.tx_timeout \in 0..Timeout
  BY Zenon DEF Devices, Truth
<1> QED
  BY <1>1, Zenon

\* The same of the class.
LEMMA ClassTruth ==
  ASSUME NEW c \in Classes
  PROVE  /\ c.enabled \in BOOLEAN /\ c.tx_busy \in BOOLEAN /\ c.notified \in BOOLEAN
         /\ (c.enabled <=> c.enabled = TRUE) /\ (~c.enabled <=> c.enabled = FALSE)
         /\ (c.tx_busy <=> c.tx_busy = TRUE) /\ (~c.tx_busy <=> c.tx_busy = FALSE)
<1>1. c.enabled \in BOOLEAN /\ c.tx_busy \in BOOLEAN /\ c.notified \in BOOLEAN
  BY Zenon DEF Classes, Truth
<1> QED
  BY <1>1, Zenon

\* The same of the endpoints.
LEMMA LineTruth ==
  ASSUME NEW l \in Lines
  PROVE  /\ l.sending \in BOOLEAN
         /\ (l.sending <=> l.sending = TRUE) /\ (~l.sending <=> l.sending = FALSE)
<1>1. l.sending \in BOOLEAN
  BY Zenon DEF Lines, Truth
<1> QED
  BY <1>1, Zenon

-----------------------------------------------------------------------------
(* What enable finds. *)

\* It finds one of four things, there being no host one of them.
LEMMA FoundPlace ==
  /\ Found \in {"ready", "suspended", "reset", "closed"}
  /\ dev \in Devices => (Found = "closed" <=> dev.usbd # TRUE)
<1>1. Found \in {"ready", "suspended", "reset", "closed"}
  BY DEF Found
<1>2. Found = "closed" <=> ~dev.usbd
  BY DEF Found
<1> QED
  BY <1>1, <1>2, DeviceTruth, Zenon

\* What it stores opens the port.
LEMMA StoredState ==
  ASSUME EnableStore
  PROVE  /\ state' \in {READY, SUSPENDED, RESET} /\ Open(state')
         /\ pc = "closed" => state' = RESET
<1>1. state' \in {READY, SUSPENDED, RESET} /\ (pc = "closed" => state' = RESET)
  BY DEF EnableStore
<1> QED
  BY <1>1 DEF Open, INIT, READY, SUSPENDED, RESET

-----------------------------------------------------------------------------
(* The callback. *)

\* What CallBack does: the class has one transfer less, or starts its next.
LEMMA CallBackCases ==
  ASSUME NEW d \in Devices, NEW s, CallBack(d, s), "full" \notin Perils
  PROVE  /\ called' = called + 1
         /\ \/ /\ dev' = d /\ cdc' = [cdc EXCEPT !.tx_busy = FALSE]
               /\ deferred' = deferred /\ asked' = asked
            \/ /\ s = READY /\ d.tx_busy = FALSE /\ asked < scene.sends
               /\ dev' = [d EXCEPT !.tx_busy = TRUE] /\ cdc' = [cdc EXCEPT !.tx_busy = TRUE]
               /\ deferred' = TRUE /\ asked' = asked + 1
  BY DeviceTruth, Zenon DEF CallBack

\* Whatever CallBack does, the types stay.
LEMMA CallBackTypes ==
  ASSUME BaseInv, NEW d \in Devices, NEW s, CallBack(d, s)
  PROVE  /\ dev' \in Devices /\ cdc' \in Classes /\ deferred' \in BOOLEAN
         /\ asked' \in Nat /\ called' \in Nat
<1>1. cdc \in Classes /\ deferred \in BOOLEAN /\ asked \in Nat /\ called \in Nat
  BY DEF BaseInv
<1>2. called' \in Nat
  BY <1>1 DEF CallBack
<1>3. CASE dev' = d /\ cdc' = [cdc EXCEPT !.tx_busy = FALSE] /\ UNCHANGED <<deferred, asked>>
  BY <1>1, <1>2, <1>3, ClassSet, Zenon DEF Truth
<1>4. CASE /\ dev' = [d EXCEPT !.tx_busy = TRUE]
           /\ \E queued \in {TRUE} \cup {"full" \notin Perils} :
                 /\ cdc' = [cdc EXCEPT !.tx_busy = queued]
                 /\ deferred' = (deferred \/ queued)
                 /\ asked' = IF queued THEN asked + 1 ELSE asked
  <2>1. dev' \in Devices
    BY <1>4, DeviceSet, Zenon DEF Truth
  <2>2. PICK queued \in BOOLEAN :
                 /\ cdc' = [cdc EXCEPT !.tx_busy = queued]
                 /\ deferred' = (deferred \/ queued)
                 /\ asked' = IF queued THEN asked + 1 ELSE asked
    BY <1>4, Zenon
  <2>3. cdc' \in Classes
    BY <1>1, <2>2, ClassSet, Zenon DEF Truth
  <2>4. asked + 1 \in Nat
    BY <1>1
  <2>5. asked' \in Nat
    BY <1>1, <2>2, <2>4, Zenon
  <2>6. deferred' \in BOOLEAN
    BY <2>2, Zenon
  <2> QED
    BY <1>2, <2>1, <2>3, <2>5, <2>6
<1> QED
  BY <1>3, <1>4, Zenon DEF CallBack

\* The same of a transfer that is given up.
LEMMA GiveUpTypes ==
  ASSUME BaseInv, NEW d \in Devices, NEW s, GiveUp(d, s)
  PROVE  /\ dev' \in Devices /\ cdc' \in Classes /\ deferred' \in BOOLEAN
         /\ asked' \in Nat /\ called' \in Nat
<1> DEFINE both == d.tx_flush \/ d.tx_busy
           given == [d EXCEPT !.tx_flush = both]
<1>1. given \in Devices
  <2>1. both \in Truth
    BY Zenon DEF Truth
  <2> HIDE DEF both
  <2> QED
    BY <2>1, DeviceSet, Zenon
<1>2. CallBack(given, s) \/ Silent(given)
  BY Zenon DEF GiveUp
<1> HIDE DEF given
<1> QED
  BY <1>1, <1>2, CallBackTypes, Zenon DEF Silent, BaseInv

\* What do_transmit leaves.
LEMMA DoTransmitTypes ==
  ASSUME BaseInv, DoTransmit
  PROVE  line' \in Lines /\ dev' \in Devices
<1>1. (line.sending \/ dev.usbd) \in Truth /\ line \in Lines /\ dev \in Devices
  BY Zenon DEF Truth, BaseInv
<1>2. Timeout \in 0..Timeout
  BY UsbCdcAssumption
<1>3. line' \in Lines
  BY <1>1, LineSet, Zenon DEF DoTransmit
<1>4. dev' \in Devices
  BY <1>1, <1>2, TimeoutSet, Zenon DEF DoTransmit
<1> QED
  BY <1>3, <1>4

\* A port that is detached.
Gone == [usbd |-> FALSE, reset |-> FALSE, suspended |-> FALSE, rx_busy |-> FALSE,
         tx_busy |-> FALSE, tx_flush |-> FALSE, tx_timeout |-> 0]

\* A port that is configured.
Fresh(busy) == [usbd |-> TRUE, reset |-> TRUE, suspended |-> FALSE, rx_busy |-> busy,
                tx_busy |-> FALSE, tx_flush |-> FALSE, tx_timeout |-> 0]

\* Both are devices.
LEMMA GoneFresh == Gone \in Devices /\ \A busy \in Truth : Fresh(busy) \in Devices
<1>1. 0 \in 0..Timeout /\ TRUE \in Truth /\ FALSE \in Truth
  BY UsbCdcAssumption DEF Truth
<1> QED
  BY <1>1, Zenon DEF Gone, Fresh, Devices

\* A packet behind the write pointer leaves a ring.
LEMMA AdvanceTypes ==
  ASSUME NEW r \in Rings, NEW n \in Int
  PROVE  Advance(r, n) \in Rings /\ Advance(r, n).write \in Int
<1>1. r.write + n \in Int /\ r.count + n \in Int /\ 0 \in Int
  BY DEF Rings
<1> DEFINE write == r.write + n
           count == r.count + n
<1>2. Advance(r, n) \in {[r EXCEPT !.wrap = write, !.write = 0, !.count = count],
                         [r EXCEPT !.write = write, !.count = count]}
  BY Zenon DEF Advance
<1> HIDE DEF write, count
<1>3. \A x \in {[r EXCEPT !.wrap = write, !.write = 0, !.count = count],
               [r EXCEPT !.write = write, !.count = count]} : x \in Rings
  BY <1>1, Zenon DEF Rings, write, count
<1>4. \A x \in Rings : x.write \in Int
  BY DEF Rings
<1> QED
  BY <1>2, <1>3, <1>4, Zenon

\* Where receive begins.
LEMMA ReadTypes ==
  ASSUME BaseInv, NEW n \in scene.reads, Read(n)
  PROVE  rcv' \in Locals /\ pc' \in Places
<1>1. rcv \in Locals /\ pc \in Places /\ rx.count \in Int /\ n \in Int
  BY UsbCdcAssumption DEF BaseInv, Rings
<1>2. (IF n > rx.count THEN rx.count ELSE n) \in Int
  BY <1>1, Zenon
<1> QED
  BY <1>1, <1>2, Zenon DEF Read, Locals, Goto, Places

\* The types stay.
LEMMA BaseStep ==
  ASSUME BaseInv, [Next]_vars
  PROVE  BaseInv'
<1>1. /\ state \in INIT..RESET /\ dev \in Devices /\ line \in Lines /\ cdc \in Classes
      /\ bus \in {"off", "on", "asleep"} /\ pc \in Places
      /\ tx_callback \in BOOLEAN /\ deferred \in BOOLEAN
      /\ scene \in Scenes /\ asked \in Nat /\ called \in Nat
      /\ rx \in Rings /\ rcv \in Locals
  BY DEF BaseInv
<1>2. TRUE \in Truth /\ FALSE \in Truth /\ Timeout \in 0..Timeout /\ 0 \in 0..Timeout
      /\ {INIT, READY, SUSPENDED, RESET} \subseteq INIT..RESET /\ None \in Int
  BY UsbCdcAssumption DEF Truth, INIT, READY, SUSPENDED, RESET, None
<1>3. rx.write \in Int /\ rx.count \in Int /\ rx.wrap \in Int /\ rx.read \in Int
      /\ rcv.count \in Int /\ rcv.wrap \in Int /\ rcv.read \in Int
      /\ line.buffer \in Int
  BY <1>1 DEF Rings, Locals, Lines
<1>4. \A n \in Int : Armed(n) \in Lines
  BY <1>1, LineSet, Zenon DEF Armed
<1>5. CASE Configure
  <2>1. dev' = Fresh(Open(state)) /\ Open(state) \in Truth
    <3>1. Open(state) \in BOOLEAN
      BY DEF Open
    <3> QED
      BY <1>5, <3>1, Zenon DEF Configure, Fresh, Truth
  <2> DEFINE buffer == IF Open(state) THEN rx.write ELSE line.buffer
  <2>2. buffer \in Int
    BY <1>3, Zenon
  <2>3. line' = [buffer |-> buffer, armed |-> buffer, sending |-> FALSE]
    BY <1>5, Zenon DEF Configure
  <2> HIDE DEF Fresh, buffer
  <2>4. line' \in Lines
    BY <1>2, <2>2, <2>3, Zenon DEF Lines
  <2>5. dev' \in Devices
    BY <2>1, GoneFresh, Zenon
  <2>6. state' \in INIT..RESET
    BY <1>1, <1>2, <1>5, Zenon DEF Configure
  <2> QED
    BY <1>1, <1>5, <2>4, <2>5, <2>6, Zenon DEF Configure, BaseInv, output, input
<1>6. CASE Detach
  <2>1. CallBack(Gone, RESET) \/ Silent(Gone)
    BY <1>6, Zenon DEF Detach, Gone
  <2>2. line' \in Lines
    BY <1>1, <1>2, <1>6, LineSet, Zenon DEF Detach
  <2> QED
    BY <1>1, <1>2, <1>6, <2>1, <2>2, GoneFresh, CallBackTypes, Zenon
       DEF Detach, BaseInv, Silent, input
<1>7. CASE Suspend
  <2>1. state' \in INIT..RESET
    BY <1>1, <1>2, <1>7, Zenon DEF Suspend
  <2>2. [dev EXCEPT !.suspended = TRUE, !.tx_timeout = 0] \in Devices
    BY <1>1, <1>2, TimeoutSet, Zenon
  <2>3. GiveUp([dev EXCEPT !.suspended = TRUE, !.tx_timeout = 0], state')
    BY <1>7, Zenon DEF Suspend
  <2> QED
    BY <1>1, <1>7, <2>1, <2>2, <2>3, GiveUpTypes, Zenon DEF Suspend, BaseInv, input
<1>8. CASE Resume
  BY <1>1, <1>2, <1>8, DeviceSet, Zenon DEF Resume, BaseInv, input, output
<1>9. CASE Control
  BY <1>1, <1>2, <1>9, DeviceSet, Zenon DEF Control, BaseInv, input, output, hist
<1>10. CASE Sof
  <2>1. state' \in INIT..RESET
    BY <1>1, <1>2, <1>10, Zenon DEF Sof
  <2>2. CASE dev' = [dev EXCEPT !.tx_timeout = dev.tx_timeout - 1]
             /\ dev.tx_timeout > 1 /\ UNCHANGED <<state, cdc, deferred, asked, called>>
    <3>1. dev.tx_timeout \in 0..Timeout
      BY <1>1, DeviceTruth, Zenon
    <3>2. dev.tx_timeout - 1 \in 0..Timeout
      BY <2>2, <3>1, UsbCdcAssumption
    <3> QED
      BY <1>1, <1>10, <2>2, <3>2, TimeoutSet, Zenon DEF Sof, BaseInv, input, hist
  <2>3. CASE GiveUp([dev EXCEPT !.reset = TRUE], state')
    <3>1. [dev EXCEPT !.reset = TRUE] \in Devices
      BY <1>1, <1>2, DeviceSet, Zenon
    <3> QED
      BY <1>1, <1>10, <2>1, <2>3, <3>1, GiveUpTypes, Zenon DEF Sof, BaseInv, input, hist
  <2> QED
    BY <1>10, <2>2, <2>3, Zenon DEF Sof
<1>11. CASE TxDone
  <2> DEFINE over == [dev EXCEPT !.tx_busy = FALSE, !.tx_timeout = 0, !.tx_flush = FALSE]
  <2>1. over \in Devices /\ [over EXCEPT !.reset = FALSE] \in Devices
    <3>1. over \in Devices
      BY <1>1, <1>2, Zenon DEF Devices
    <3> HIDE DEF over
    <3> QED
      BY <1>2, <3>1, DeviceSet, Zenon
  <2>2. line' \in Lines
    BY <1>1, <1>2, <1>11, LineSet, Zenon DEF TxDone
  <2>3. \/ state' \in {READY, state} /\ Silent([over EXCEPT !.reset = FALSE])
        \/ UNCHANGED state /\ (CallBack(over, state) \/ Silent(over))
    BY <1>11, Zenon DEF TxDone
  <2>4. UNCHANGED <<input, bus, tx_callback, pc, rcv, hist>>
    BY <1>11, Zenon DEF TxDone
  <2> HIDE DEF over
  <2> QED
    BY <1>1, <1>2, <2>1, <2>2, <2>3, <2>4, CallBackTypes, Zenon DEF BaseInv, Silent, input, hist
<1>12. CASE \E n \in scene.lengths : RxReady(n)
  <2>1. PICK n \in scene.lengths : RxReady(n)
    BY <1>12
  <2>2. n \in Int
    BY <1>1, UsbCdcAssumption
  <2> DEFINE next == Advance(rx, n)
             more == Open(state) /\ state # RESET /\ HasRoom(next)
             tell == Open(state) /\ n > 0 /\ rx.event
  <2>3. next \in Rings /\ next.write \in Int
    BY <1>1, <2>2, AdvanceTypes
  <2>4. (rx.event /\ ~tell) \in Truth /\ more \in Truth /\ (cdc.notified \/ tell) \in Truth
    BY Zenon DEF Truth
  <2>5. /\ rx' = IF Open(state) THEN [next EXCEPT !.event = next.event /\ ~tell] ELSE rx
        /\ line' = IF more THEN Armed(next.write) ELSE [line EXCEPT !.armed = None]
        /\ dev' = [dev EXCEPT !.rx_busy = more]
        /\ cdc' = [cdc EXCEPT !.notified = cdc.notified \/ tell]
        /\ UNCHANGED <<state, bus, output, pc, rcv, events, scene>>
    BY <2>1, Zenon DEF RxReady
  <2> HIDE DEF more, next
  <2>6. dev' \in Devices
    BY <1>1, <2>4, <2>5, DeviceSet, Zenon
  <2>7. line' \in Lines
    BY <1>1, <1>2, <1>4, <2>3, <2>5, LineSet, Zenon
  <2>8. rx' \in Rings
    <3> DEFINE e == next.event /\ ~tell
    <3>1. e \in Truth
      BY Zenon DEF Truth
    <3>2. rx' = IF Open(state) THEN [next EXCEPT !.event = e] ELSE rx
      BY <2>5, Zenon
    <3> HIDE DEF e
    <3> QED
      BY <1>1, <2>3, <3>1, <3>2, Zenon DEF Rings
  <2>9. cdc' \in Classes
    <3> DEFINE e == cdc.notified \/ tell
    <3>1. e \in Truth
      BY Zenon DEF Truth
    <3>2. cdc' = [cdc EXCEPT !.notified = e]
      BY <2>5, Zenon
    <3> HIDE DEF e
    <3> QED
      BY <1>1, <3>1, <3>2, ClassSet, Zenon
  <2> QED
    BY <1>1, <2>5, <2>6, <2>7, <2>8, <2>9, Zenon DEF BaseInv, output
<1>13. CASE PendSV
  BY <1>1, <1>13, DoTransmitTypes, Zenon DEF PendSV, DoTransmit, BaseInv, input, hist
<1>14. CASE TransmitSvc
  BY <1>1, <1>14, DoTransmitTypes, Zenon
     DEF TransmitSvc, DoTransmit, Goto, Places, BaseInv, input, hist
<1>15. CASE Write \/ TransmitCheck
  BY <1>1, <1>2, <1>15, ClassSet, Zenon
     DEF Write, TransmitCheck, Refuse, Goto, Places, BaseInv, input, output, hist
<1>16. CASE TransmitSwap
  <2>1. asked + 1 \in Nat
    BY <1>1
  <2> QED
  BY <1>1, <1>2, <1>16, <2>1, ClassSet, DeviceSet, Zenon
     DEF TransmitSwap, Refuse, Goto, Places, BaseInv, input, hist
<1>17. CASE TransmitSet \/ Begin \/ End
  BY <1>1, <1>17, Zenon
     DEF TransmitSet, Begin, End, Goto, Places, BaseInv, input, output, hist
<1>18. CASE Enable
  <2>1. rx' \in Rings /\ pc' \in Places
    <3>1. 0 \in Int /\ Size \in Int
      BY UsbCdcAssumption
    <3>2. rx' \in Rings
      <4>1. [read |-> 0, write |-> 0, wrap |-> Size, count |-> 0, event |-> TRUE] \in Rings
        BY <1>2, <3>1, Zenon DEF Rings
      <4>2. \/ rx' = rx
            \/ rx' = [read |-> 0, write |-> 0, wrap |-> Size, count |-> 0, event |-> TRUE]
        BY <1>18, Zenon DEF Enable
      <4> QED
        BY <1>1, <4>1, <4>2, Zenon
    <3>3. pc' \in {"idle", Found}
      BY <1>18, Zenon DEF Enable, Goto
    <3>4. pc' \in Places
      BY <3>3, FoundPlace, Zenon DEF Places
    <3> QED
      BY <3>2, <3>4
  <2>2. cdc' \in Classes
    BY <1>1, <1>2, <1>18, ClassSet, Zenon DEF Enable
  <2> QED
    BY <1>1, <1>18, <2>1, <2>2, Zenon DEF Enable, BaseInv, output
<1>18a. CASE EnableStore
  <2>1. state' \in INIT..RESET
    BY <1>2, <1>18a, StoredState, Zenon
  <2>2. cdc' \in Classes
    <3>1. (pc = "closed") \in Truth
      BY Zenon DEF Truth
    <3> QED
      BY <1>1, <1>18a, <3>1, ClassSet, Zenon DEF EnableStore
  <2>3. pc' \in Places
    BY <1>18a, Zenon DEF EnableStore, Goto, Places
  <2> QED
    BY <1>1, <1>18a, <2>1, <2>2, <2>3, Zenon DEF EnableStore, BaseInv, input, output, hist
<1>19. CASE EnableArm \/ ReceiveTest
  <2>1. line' \in Lines
    BY <1>1, <1>3, <1>4, <1>19, Zenon DEF EnableArm, ReceiveTest
  <2> QED
    BY <1>1, <1>19, <2>1, Zenon
       DEF EnableArm, ReceiveTest, Goto, Places, BaseInv, input, output, hist
<1>20. CASE EnableBusy \/ ReceiveBusy
  BY <1>1, <1>2, <1>20, ClassSet, DeviceSet, Zenon
     DEF EnableBusy, ReceiveBusy, Goto, Places, BaseInv, input, output, hist
<1>21. CASE Disable
  <2>1. rx' \in Rings /\ state' \in INIT..RESET
    <3>1. 0 \in Int
      OBVIOUS
    <3>2. [rx EXCEPT !.read = 0, !.write = 0, !.wrap = 0, !.count = 0] \in Rings
      BY <1>1, <3>1, Zenon DEF Rings
    <3> QED
      BY <1>1, <1>2, <1>21, <3>2, Zenon DEF Disable
  <2> QED
    BY <1>1, <1>2, <1>21, <2>1, ClassSet, Zenon DEF Disable, Goto, Places, BaseInv, output
<1>22. CASE \E n \in scene.reads : Read(n)
  BY <1>1, <1>22, ReadTypes, Zenon DEF Read, BaseInv, input, output, hist
<1>23. CASE Notified
  <2>1. CASE \E n \in scene.reads : Read(n)
    BY <1>1, <2>1, ReadTypes, Zenon DEF Read, BaseInv, input, output, hist
  <2>2. CASE cdc' = [cdc EXCEPT !.notified = FALSE] /\ UNCHANGED <<pc, rcv>>
    BY <1>1, <1>2, <1>23, <2>2, ClassSet, Zenon DEF Notified, BaseInv, input, output, hist
  <2> QED
    BY <1>23, <2>1, <2>2, Zenon DEF Notified
<1>24. CASE ReceiveLoad
  <2>1. rcv' \in Locals
    BY <1>1, <1>3, <1>24, Zenon DEF ReceiveLoad, Locals
  <2> QED
    BY <1>1, <1>24, <2>1, Zenon DEF ReceiveLoad, Goto, Places, BaseInv, input, output, hist
<1>25. CASE ReceiveCopy \/ ReceiveSub
  <2>1. rx' \in Rings
    <3>1. CASE ReceiveCopy
      <4> DEFINE stop == rcv.read + rcv.count
                 r == Slot(rcv.read, rcv.wrap, rcv.count)
                 w == IF stop >= rcv.wrap THEN Size ELSE rcv.wrap
      <4>1. r \in Int /\ w \in Int
        BY <1>3, UsbCdcAssumption DEF Slot
      <4>2. rx' = [rx EXCEPT !.read = r, !.wrap = w, !.event = TRUE]
        BY <3>1, Zenon DEF ReceiveCopy
      <4> HIDE DEF r, w
      <4> QED
        BY <1>1, <1>2, <4>1, <4>2, Zenon DEF Rings
    <3>2. CASE ReceiveSub
      <4>1. rx.count - rcv.count \in Int
        BY <1>3
      <4> QED
        BY <1>1, <3>2, <4>1, Zenon DEF ReceiveSub, Rings
    <3> QED
      BY <1>25, <3>1, <3>2
  <2> QED
    BY <1>1, <1>25, <2>1, Zenon
       DEF ReceiveCopy, ReceiveSub, Goto, Places, BaseInv, output, hist
<1>26. CASE UNCHANGED vars
  BY <1>1, <1>26, Zenon DEF vars, input, output, hist, BaseInv
<1> QED
  BY <1>5, <1>6, <1>7, <1>8, <1>9, <1>10, <1>11, <1>12, <1>13, <1>14, <1>15, <1>16, <1>17,
     <1>18, <1>18a, <1>19, <1>20, <1>21, <1>22, <1>23, <1>24, <1>25, <1>26, Zenon
     DEF Next, Host, Sketch, Running

-----------------------------------------------------------------------------
(* The host. *)

\* Without a host: nothing is armed, sent or being accepted.
Idle(d, l, s, p, q) ==
    /\ s \in {INIT, RESET}
    /\ d.tx_busy = FALSE /\ l.sending = FALSE /\ l.armed = None
    /\ p \notin {"swap", "set", "svc"} /\ q = FALSE

HostOf(b, d, l, s, p, q) == d.usbd = (b # "off") /\ (b = "off" => Idle(d, l, s, p, q))

\* A step that changes nothing of the bus or its device is harmless while the bus is on.
LEMMA HostOfOn ==
  ASSUME NEW b, NEW d, NEW l, NEW s, NEW p, NEW q, d.usbd = TRUE, b # "off"
  PROVE  HostOf(b, d, l, s, p, q)
  BY Zenon DEF HostOf

\* CallBack leaves the handle alone.
LEMMA CallBackUsbd ==
  ASSUME NEW d \in Devices, NEW s, CallBack(d, s) \/ Silent(d)
  PROVE  dev'.usbd = d.usbd
<1>1. [d EXCEPT !.tx_busy = TRUE].usbd = d.usbd
  BY DEF Devices
<1>2. dev' = d \/ dev' = [d EXCEPT !.tx_busy = TRUE]
  BY Zenon DEF CallBack, Silent
<1> QED
  BY <1>1, <1>2, Zenon

\* So does GiveUp.
LEMMA GiveUpUsbd ==
  ASSUME NEW d \in Devices, NEW s, GiveUp(d, s)
  PROVE  dev'.usbd = d.usbd
<1> DEFINE both == d.tx_flush \/ d.tx_busy
           given == [d EXCEPT !.tx_flush = both]
<1>1. both \in Truth
  BY Zenon DEF Truth
<1>2. CallBack(given, s) \/ Silent(given)
  BY Zenon DEF GiveUp
<1> HIDE DEF both
<1>3. given \in Devices
  BY <1>1, DeviceSet, Zenon
<1>4. given.usbd = d.usbd
  BY DEF Devices
<1> QED
  BY <1>2, <1>3, <1>4, CallBackUsbd, Zenon

\* The sketch is where enable stores the state only after enable.
LEMMA StoringBegins ==
  ASSUME Sketch, Storing'
  PROVE  Enable \/ UNCHANGED <<state, rx, unread, dev, pc>>
<1>1. pc' \in {"ready", "suspended", "reset", "closed"}
  BY Zenon DEF Storing
<1>2. CASE Write \/ Begin \/ End \/ TransmitCheck \/ TransmitSwap \/ TransmitSet \/ TransmitSvc
  BY <1>1, <1>2, Zenon DEF Write, Begin, End, TransmitCheck, TransmitSwap, TransmitSet,
     TransmitSvc, Refuse, Goto
<1>3. CASE EnableStore \/ EnableArm \/ EnableBusy \/ Disable
  BY <1>1, <1>3, Zenon DEF EnableStore, EnableArm, EnableBusy, Disable, Goto
<1>4. CASE ReceiveLoad \/ ReceiveCopy \/ ReceiveSub \/ ReceiveTest \/ ReceiveBusy
  BY <1>1, <1>4, Zenon DEF ReceiveLoad, ReceiveCopy, ReceiveSub, ReceiveTest, ReceiveBusy, Goto
<1>5. CASE Notified \/ \E n \in scene.reads : Read(n)
  BY <1>1, <1>5, Zenon DEF Notified, Read, Goto, input, hist
<1> QED
  BY <1>2, <1>3, <1>4, <1>5, Zenon DEF Sketch, Running

\* The stack leaves the sketch where it is.
LEMMA StackStays ==
  ASSUME Host \/ Sof \/ PendSV
  PROVE  pc' = pc
  BY Zenon DEF Host, Sof, PendSV, Configure, Detach, Suspend, Resume, Control, TxDone, RxReady

\* What enable found of the host holds when it stores the state.
LEMMA FoundStep ==
  ASSUME BaseInv, BaseInv', FoundInv, [Next]_vars, "bus" \notin Perils
  PROVE  FoundInv'
<1>1. /\ Found = "closed" <=> dev.usbd # TRUE
      /\ (Found = "closed" <=> dev.usbd # TRUE)'
  <2>1. dev \in Devices /\ dev' \in Devices
    BY Zenon DEF BaseInv
  <2>2. (dev \in Devices => (Found = "closed" <=> dev.usbd # TRUE))'
    BY FoundPlace, PTL
  <2> QED
    BY <2>1, <2>2, FoundPlace, Zenon
<1>2. CASE (Host \/ Sof) /\ StillSo
  <2>1. pc' = pc
    BY <1>2, StackStays, Zenon
  <2>2. Storing => Found' = Found
    BY <1>2, Zenon DEF StillSo
  <2> QED
    BY <1>1, <2>1, <2>2, Zenon DEF FoundInv, Storing
<1>3. CASE PendSV
  <2>1. pc' = pc /\ dev' = [dev EXCEPT !.tx_timeout = Timeout]
    BY <1>3, Zenon DEF PendSV, DoTransmit
  <2>2. dev'.usbd = dev.usbd
    BY <2>1 DEF BaseInv, Devices
  <2> QED
    BY <2>1, <2>2, Zenon DEF FoundInv, Storing
<1>4. CASE Sketch
  <2>1. SUFFICES ASSUME Storing' PROVE (dev.usbd = TRUE <=> pc # "closed")'
    BY Zenon DEF FoundInv
  <2>2. CASE Enable
    <3>1. dev' = dev /\ (pc' = "idle" \/ pc' = Found)
      BY <2>2, Zenon DEF Enable, Goto
    <3> QED
      BY <1>1, <2>1, <3>1, Zenon DEF Storing
  <2>3. CASE UNCHANGED <<state, rx, unread, dev, pc>>
    BY <2>1, <2>3, Zenon DEF FoundInv, Storing
  <2> QED
    BY <1>4, <2>1, <2>2, <2>3, StoringBegins, Zenon
<1>5. CASE UNCHANGED vars
  BY <1>5, Zenon DEF vars, FoundInv, Storing
<1> QED
  BY <1>2, <1>3, <1>4, <1>5, Zenon DEF Next

\* Nobody uses the ring before the state is stored.
LEMMA StoreStep ==
  ASSUME BaseInv, StoreInv, [Next]_vars, "early" \notin Perils
  PROVE  StoreInv'
<1>1. SUFFICES ASSUME Storing'
      PROVE  /\ ~Open(state') /\ unread' = <<>>
             /\ rx'.read = 0 /\ rx'.write = 0 /\ rx'.wrap = Size /\ rx'.count = 0
  BY Zenon DEF StoreInv
<1>2. state \in INIT..RESET /\ INIT = 1 /\ READY = 2 /\ SUSPENDED = 3 /\ RESET = 4
  BY DEF BaseInv, INIT, READY, SUSPENDED, RESET
<1>3. ~Open(state) <=> state = INIT
  BY <1>2 DEF Open
<1>4. ASSUME UNCHANGED <<state, rx, unread, pc>> PROVE StoreInv'
  BY <1>4, Zenon DEF StoreInv, Storing
<1>5. CASE Host \/ Sof \/ PendSV
  <2>1. pc' = pc
    BY <1>5, StackStays, Zenon
  <2>2. Storing
    BY <1>1, <2>1, Zenon DEF Storing
  <2>3. ~Open(state) /\ state = INIT
    BY <1>3, <2>2, Zenon DEF StoreInv
  <2>4. CASE Configure \/ Suspend \/ Resume \/ Control \/ TxDone \/ Sof \/ PendSV
    <3>1. INIT # READY /\ INIT # RESET /\ INIT # SUSPENDED
      BY <1>2
    <3>2. state' = state
      BY <2>3, <2>4, <3>1, Zenon
         DEF Configure, Suspend, Resume, Control, TxDone, Sof, PendSV, DoTransmit
    <3>3. UNCHANGED <<rx, unread>>
      BY <2>4, Zenon DEF Configure, Suspend, Resume, Control, TxDone, Sof, PendSV, DoTransmit,
         input, hist
    <3> QED
      BY <1>1, <1>4, <2>1, <3>2, <3>3, Zenon DEF StoreInv
  <2>5. CASE \E n \in scene.lengths : RxReady(n)
    BY <1>1, <1>4, <2>1, <2>3, <2>5, Zenon DEF RxReady, StoreInv
  <2>6. ~Detach
    BY <2>3, Zenon DEF Detach
  <2> QED
    BY <1>5, <2>4, <2>5, <2>6, Zenon DEF Host
<1>6. CASE Enable
  <2>1. state = INIT
    BY <1>1, <1>6, Zenon DEF Enable, Goto, Storing
  <2>2. /\ state' = state /\ unread' = <<>>
        /\ rx' = [read |-> 0, write |-> 0, wrap |-> Size, count |-> 0, event |-> TRUE]
    BY <1>6, <2>1, Zenon DEF Enable
  <2> QED
    BY <1>3, <2>1, <2>2
<1>7. CASE UNCHANGED <<state, rx, unread, pc>>
  BY <1>1, <1>4, <1>7, Zenon DEF StoreInv
<1>8. CASE UNCHANGED vars
  BY <1>7, <1>8, Zenon DEF vars, input, hist
<1> QED
  BY <1>1, <1>5, <1>6, <1>7, <1>8, StoringBegins, Zenon DEF Next

\* The bus is off exactly while the stack has no handle, and then nothing is under way.
LEMMA HostStep ==
  ASSUME BaseInv, HostInv, FoundInv, [Next]_vars, "bus" \notin Perils
  PROVE  HostInv'
<1> DEFINE Goal == HostOf(bus', dev', line', state', pc', deferred')
<1>1. dev \in Devices /\ line \in Lines /\ rx \in Rings /\ cdc \in Classes /\ pc \in Places
  BY DEF BaseInv
<1>2. dev.usbd = (bus # "off") /\ HostOf(bus, dev, line, state, pc, deferred)
  BY Zenon DEF HostInv, HostOf, Idle
<1>3. Goal => HostInv'
  BY Zenon DEF HostInv, HostOf, Idle
<1>4. /\ bus # "off" => dev.usbd = TRUE
      /\ dev.usbd <=> bus # "off"
      /\ bus = "off" => Idle(dev, line, state, pc, deferred) /\ dev.usbd = FALSE
  BY <1>2, Zenon DEF HostOf
<1>5. ASSUME bus # "off", bus' = bus, dev'.usbd = dev.usbd PROVE Goal
  BY <1>4, <1>5, HostOfOn, Zenon
<1>6. CASE Configure
  <2>1. dev'.usbd = TRUE /\ bus' # "off"
    BY <1>6 DEF Configure
  <2> QED
    BY <1>3, <2>1, HostOfOn, Zenon
<1>7. CASE Detach
  <2>1. CallBack(Gone, RESET) \/ Silent(Gone)
    BY <1>7, Zenon DEF Detach, Gone
  <2>2. dev' = Gone /\ UNCHANGED deferred
    <3>1. RESET # READY
      BY DEF READY, RESET
    <3> QED
      BY <2>1, <3>1, Zenon DEF CallBack, Silent
  <2>3. bus' = "off" /\ state' = RESET /\ UNCHANGED pc /\ ~Transmitting
        /\ line' = [line EXCEPT !.armed = None, !.sending = FALSE]
    BY <1>7, Zenon DEF Detach
  <2>4. line'.armed = None /\ line'.sending = FALSE
    BY <1>1, <2>3 DEF Lines
  <2>5. Gone.usbd = FALSE /\ Gone.tx_busy = FALSE
    BY DEF Gone
  <2>6. deferred = FALSE
    <3>1. deferred \in BOOLEAN
      BY Zenon DEF BaseInv
    <3>2. ~deferred
      BY <2>3, Zenon DEF Transmitting
    <3> QED
      BY <3>1, <3>2, Zenon
  <2> QED
    BY <1>3, <2>2, <2>3, <2>4, <2>5, <2>6, Zenon DEF Transmitting, HostOf, Idle
<1>8. CASE Suspend
  <2>1. [dev EXCEPT !.suspended = TRUE, !.tx_timeout = 0] \in Devices
    <3>1. 0 \in 0..Timeout
      BY UsbCdcAssumption
    <3> QED
      BY <1>1, <3>1, TimeoutSet, Zenon DEF Truth
  <2>2. [dev EXCEPT !.suspended = TRUE, !.tx_timeout = 0].usbd = dev.usbd
    BY <1>1 DEF Devices
  <2>3. dev'.usbd = dev.usbd /\ bus' = "asleep" /\ bus = "on"
    BY <1>8, <2>1, <2>2, GiveUpUsbd, Zenon DEF Suspend
  <2> QED
    BY <1>3, <1>4, <2>3, HostOfOn, Zenon
<1>9. CASE Resume
  <2>1. dev'.usbd = dev.usbd /\ bus' = "on" /\ bus = "asleep"
    BY <1>1, <1>9 DEF Devices, Resume
  <2> QED
    BY <1>3, <1>4, <2>1, HostOfOn, Zenon
<1>10. CASE Sof
  <2>1. CASE dev' = [dev EXCEPT !.tx_timeout = dev.tx_timeout - 1]
    <3>1. dev'.usbd = dev.usbd
      BY <1>1, <2>1 DEF Devices
    <3> QED
      BY <1>3, <1>5, <1>10, <3>1, Zenon DEF Sof
  <2>2. CASE GiveUp([dev EXCEPT !.reset = TRUE], state')
    <3>1. [dev EXCEPT !.reset = TRUE] \in Devices
      BY <1>1, DeviceSet, Zenon DEF Truth
    <3>2. [dev EXCEPT !.reset = TRUE].usbd = dev.usbd
      BY <1>1 DEF Devices
    <3>3. dev'.usbd = dev.usbd
      BY <2>2, <3>1, <3>2, GiveUpUsbd, Zenon
    <3> QED
      BY <1>3, <1>5, <1>10, <3>3, Zenon DEF Sof
  <2> QED
    BY <1>10, <2>1, <2>2, Zenon DEF Sof
<1>11. CASE Control
  <2>1. dev'.usbd = dev.usbd
    BY <1>1, <1>11 DEF Devices, Control
  <2> QED
    BY <1>3, <1>5, <1>11, <2>1, Zenon DEF Control
<1>12. CASE TxDone
  <2> DEFINE over == [dev EXCEPT !.tx_busy = FALSE, !.tx_timeout = 0, !.tx_flush = FALSE]
  <2>1. over \in Devices /\ over.usbd = dev.usbd
    <3>1. 0 \in 0..Timeout
      BY UsbCdcAssumption
    <3> QED
      BY <1>1, <3>1 DEF Devices, Truth
  <2>2. [over EXCEPT !.reset = FALSE].usbd = dev.usbd
    BY <1>1 DEF Devices
  <2>3. \/ dev' = [over EXCEPT !.reset = FALSE]
        \/ CallBack(over, state) \/ Silent(over)
    BY <1>12, Zenon DEF TxDone, Silent
  <2> HIDE DEF over
  <2>4. dev'.usbd = dev.usbd
    BY <2>1, <2>2, <2>3, CallBackUsbd, Zenon
  <2> QED
    BY <1>3, <1>5, <1>12, <2>4, Zenon DEF TxDone
<1>13. CASE \E n \in scene.lengths : RxReady(n)
  <2>1. PICK more : dev' = [dev EXCEPT !.rx_busy = more]
    BY <1>13, Zenon DEF RxReady
  <2>2. dev'.usbd = dev.usbd
    BY <1>1, <2>1 DEF Devices
  <2> QED
    BY <1>3, <1>5, <1>13, <2>2, Zenon DEF RxReady
<1>14. CASE PendSV \/ TransmitSvc
  <2>1. bus # "off"
    BY <1>4, <1>14, Zenon DEF PendSV, TransmitSvc, At, Idle
  <2>2. dev' = [dev EXCEPT !.tx_timeout = Timeout] /\ bus' = bus
    BY <1>14, Zenon DEF PendSV, TransmitSvc, DoTransmit
  <2>3. dev'.usbd = dev.usbd
    BY <1>1, <2>2 DEF Devices
  <2> QED
    BY <1>3, <1>5, <2>1, <2>2, <2>3, Zenon
<1>15. CASE TransmitSwap
  <2>1. bus # "off" /\ bus' = bus
    BY <1>4, <1>15, Zenon DEF TransmitSwap, At, Idle
  <2>2. dev'.usbd = dev.usbd
    BY <1>1, <1>15 DEF Devices, TransmitSwap
  <2> QED
    BY <1>3, <1>5, <2>1, <2>2, Zenon
<1>16. CASE EnableBusy \/ ReceiveBusy
  <2>1. dev'.usbd = dev.usbd /\ dev'.tx_busy = dev.tx_busy
    BY <1>1, <1>16 DEF Devices, EnableBusy, ReceiveBusy
  <2>2. pc' = "idle" /\ UNCHANGED <<state, line, bus, deferred>>
    BY <1>16, Zenon DEF EnableBusy, ReceiveBusy, Goto, output
  <2> QED
    BY <1>2, <1>3, <2>1, <2>2, Zenon DEF HostOf, Idle
<1>17. CASE TransmitCheck
  <2>1. UNCHANGED <<state, dev, line, bus, deferred>>
    BY <1>17, Zenon DEF TransmitCheck, output
  <2>2. pc' = "idle" \/ (state = READY /\ pc' = "swap")
    BY <1>17, Zenon DEF TransmitCheck, Refuse, Goto
  <2> QED
    BY <1>2, <1>3, <2>1, <2>2 DEF HostOf, Idle, INIT, READY, RESET
<1>18. CASE TransmitSet
  <2>1. bus # "off" /\ bus' = bus /\ dev' = dev
    BY <1>4, <1>18, Zenon DEF TransmitSet, At, Idle
  <2> QED
    BY <1>3, <1>5, <2>1, Zenon
<1>19. CASE Enable
  <2>1. UNCHANGED <<dev, line, bus, deferred>>
    BY <1>19, Zenon DEF Enable, output
  <2>2. state' = state /\ pc' \in {"idle", "ready", "suspended", "reset", "closed"}
    BY <1>19, FoundPlace, Zenon DEF Enable, Goto
  <2> QED
    BY <1>2, <1>3, <2>1, <2>2, Zenon DEF HostOf, Idle
<1>19a. CASE EnableStore
  <2>1. UNCHANGED <<dev, line, bus, deferred>> /\ Storing
    BY <1>19a, Zenon DEF EnableStore, output
  <2>2. CASE bus = "off"
    <3>1. pc = "closed"
      BY <1>4, <2>1, <2>2, Zenon DEF FoundInv
    <3>2. state' = RESET /\ pc' = "idle"
      BY <1>19a, <3>1, StoredState, Zenon DEF EnableStore, Goto
    <3> QED
      BY <1>2, <1>3, <2>1, <3>2, Zenon DEF HostOf, Idle
  <2> QED
    BY <1>3, <1>5, <2>1, <2>2, Zenon
<1>20. CASE EnableArm \/ ReceiveTest
  <2>1. UNCHANGED <<state, dev, bus, deferred>> /\ pc' \in {"armed", "busy", "idle"}
    BY <1>20, Zenon DEF EnableArm, ReceiveTest, Goto, output
  <2>2. bus = "off" => line' = line
    BY <1>4, <1>20, Zenon DEF EnableArm, ReceiveTest
  <2> QED
    BY <1>2, <1>3, <2>1, <2>2, Zenon DEF HostOf, Idle
<1>21. CASE Disable
  <2>1. UNCHANGED <<dev, line, bus, deferred>> /\ pc' = "idle" /\ state' \in {state, INIT}
    BY <1>21, Zenon DEF Disable, Goto, output
  <2> QED
    BY <1>2, <1>3, <2>1, Zenon DEF HostOf, Idle
<1>22. CASE Write \/ Begin \/ End \/ ReceiveLoad \/ ReceiveCopy \/ ReceiveSub
  <2>1. UNCHANGED <<state, dev, line, bus, deferred>>
        /\ pc' \in {"check", "begin", "end", "copy", "sub", "test"}
    BY <1>22, Zenon
       DEF Write, Begin, End, ReceiveLoad, ReceiveCopy, ReceiveSub, Goto, output
  <2> QED
    BY <1>2, <1>3, <2>1, Zenon DEF HostOf, Idle
<1>23. CASE Notified \/ \E n \in scene.reads : Read(n)
  <2>1. UNCHANGED <<state, dev, line, bus, deferred>> /\ pc' \in {pc, "load"}
    BY <1>23, Zenon DEF Notified, Read, Goto, output
  <2> QED
    BY <1>2, <1>3, <2>1, Zenon DEF HostOf, Idle
<1>24. CASE UNCHANGED vars
  BY <1>2, <1>3, <1>24, Zenon DEF vars, output
<1> QED
  BY <1>6, <1>7, <1>8, <1>9, <1>10, <1>11, <1>12, <1>13, <1>14, <1>15, <1>16, <1>17,
     <1>18, <1>19, <1>19a, <1>20, <1>21, <1>22, <1>23, <1>24, Zenon
     DEF Next, Host, Sketch, Running

-----------------------------------------------------------------------------
(* Every accepted transfer is called back once. *)

\* Steps of the sketch that are none of transmit.
Elsewhere(p) == p \notin {"check", "swap", "set", "svc"}

\* Where the sketch is does not matter, outside of transmit.
LEMMA CallsElsewhere ==
  ASSUME CallsInv, Elsewhere(pc), Elsewhere(pc'),
         dev'.tx_busy = dev.tx_busy, dev'.tx_flush = dev.tx_flush,
         dev'.tx_timeout = dev.tx_timeout, line'.sending = line.sending,
         cdc'.tx_busy = cdc.tx_busy,
         UNCHANGED <<deferred, tx_callback, asked, called, scene>>
  PROVE  CallsInv'
<1>1. pc \notin {"check", "swap", "set", "svc"} /\ pc' \notin {"check", "swap", "set", "svc"}
  BY Zenon DEF Elsewhere
<1>2. /\ deferred' = deferred /\ tx_callback' = tx_callback /\ asked' = asked
      /\ called' = called /\ scene' = scene
  OBVIOUS
<1> QED
  BY <1>1, <1>2, Zenon DEF CallsInv, CallsOf

\* The same of a step that leaves the sketch where it is.
LEMMA CallsSame ==
  ASSUME CallsInv,
         dev'.tx_busy = dev.tx_busy, dev'.tx_flush = dev.tx_flush,
         dev'.tx_timeout = dev.tx_timeout, line'.sending = line.sending,
         cdc'.tx_busy = cdc.tx_busy,
         UNCHANGED <<pc, deferred, tx_callback, asked, called, scene>>
  PROVE  CallsInv'
<1>2. /\ pc' = pc /\ deferred' = deferred /\ tx_callback' = tx_callback /\ asked' = asked
      /\ called' = called /\ scene' = scene
  OBVIOUS
<1> QED
  BY <1>2, Zenon DEF CallsInv, CallsOf

\* What CallBack does to the fields CallsInv is about.
LEMMA CallBackCalls ==
  ASSUME BaseInv, NEW d \in Devices, NEW s, CallBack(d, s), "full" \notin Perils
  PROVE  /\ called' = called + 1 /\ dev' \in Devices
         /\ dev'.tx_flush = d.tx_flush /\ dev'.tx_timeout = d.tx_timeout
         /\ \/ /\ dev' = d /\ cdc'.tx_busy = FALSE /\ deferred' = deferred /\ asked' = asked
            \/ /\ s = READY /\ d.tx_busy = FALSE /\ asked < scene.sends
               /\ dev'.tx_busy = TRUE /\ cdc'.tx_busy = TRUE /\ deferred' = TRUE
               /\ asked' = asked + 1
<1>1. cdc \in Classes
  BY DEF BaseInv
<1>2. [cdc EXCEPT !.tx_busy = FALSE].tx_busy = FALSE /\ [cdc EXCEPT !.tx_busy = TRUE].tx_busy = TRUE
  BY <1>1 DEF Classes
<1>3. /\ [d EXCEPT !.tx_busy = TRUE].tx_busy = TRUE
      /\ [d EXCEPT !.tx_busy = TRUE].tx_flush = d.tx_flush
      /\ [d EXCEPT !.tx_busy = TRUE].tx_timeout = d.tx_timeout
  BY DEF Devices
<1>4. dev' \in Devices
  BY CallBackTypes, Zenon
<1> QED
  BY <1>2, <1>3, <1>4, CallBackCases, Zenon

\* Nothing is started while the port is not READY.
LEMMA CallBackOnly ==
  ASSUME BaseInv, NEW d \in Devices, NEW s, s # READY, CallBack(d, s), "full" \notin Perils
  PROVE  /\ called' = called + 1 /\ dev' = d /\ cdc'.tx_busy = FALSE
         /\ deferred' = deferred /\ asked' = asked
<1>1. cdc \in Classes
  BY DEF BaseInv
<1>2. [cdc EXCEPT !.tx_busy = FALSE].tx_busy = FALSE
  BY <1>1 DEF Classes
<1> QED
  BY <1>2, Zenon DEF CallBack

\* A transfer that is given up is called back now if it was pending.
LEMMA GiveUpCalls ==
  ASSUME BaseInv, CallsInv, "full" \notin Perils, NEW d \in Devices, NEW s, GiveUp(d, s),
         d.tx_busy = dev.tx_busy, d.tx_flush = dev.tx_flush,
         d.tx_timeout = 0 \/ d.tx_timeout = dev.tx_timeout,
         Pending => tx_callback = TRUE,
         UNCHANGED <<line, tx_callback, pc, scene>>
  PROVE  CallsInv'
<1> DEFINE both == d.tx_flush \/ d.tx_busy
           given == [d EXCEPT !.tx_flush = both]
<1>0. /\ line' = line /\ tx_callback' = tx_callback /\ pc' = pc /\ scene' = scene
      /\ d.tx_busy = dev.tx_busy /\ d.tx_flush = dev.tx_flush
      /\ d.tx_timeout = 0 \/ d.tx_timeout = dev.tx_timeout
  OBVIOUS
<1>1. both \in Truth
  BY Zenon DEF Truth
<1>2. IF d.tx_busy /\ ~d.tx_flush /\ tx_callback THEN CallBack(given, s) ELSE Silent(given)
  BY Zenon DEF GiveUp
<1>3. /\ dev \in Devices /\ cdc \in Classes /\ tx_callback \in BOOLEAN
      /\ asked \in Nat /\ called \in Nat
  BY DEF BaseInv
<1>4. both = dev.tx_busy
  <2>1. (d.tx_busy \in BOOLEAN) /\ (d.tx_flush \in BOOLEAN)
    BY DeviceTruth, Zenon
  <2>2. d.tx_flush = TRUE => d.tx_busy = TRUE
    BY <1>0, Zenon DEF CallsInv, CallsOf
  <2> QED
    BY <1>0, <2>1, <2>2, Zenon
<1> HIDE DEF both
<1>5. given \in Devices
  BY <1>1, DeviceSet, Zenon
<1>6. given.tx_busy = dev.tx_busy /\ given.tx_flush = dev.tx_busy /\ given.tx_timeout = d.tx_timeout
  BY <1>0, <1>4 DEF Devices
<1> HIDE DEF given
<1>7. CASE Pending
  <2>1. dev.tx_busy = TRUE /\ dev.tx_flush = FALSE /\ tx_callback = TRUE
    BY <1>7, Zenon DEF Pending
  <2>2. CallBack(given, s)
    BY <1>0, <1>2, <2>1, Zenon
  <2>3. /\ called' = called + 1 /\ dev' = given /\ cdc'.tx_busy = FALSE
        /\ deferred' = deferred /\ asked' = asked
    BY <1>5, <1>6, <2>1, <2>2, CallBackCalls, Zenon
  <2>4. asked = called + 1
    BY <2>1, Zenon DEF CallsInv, CallsOf
  <2> QED
    BY <1>0, <1>6, <2>1, <2>3, <2>4, Zenon DEF CallsInv, CallsOf
<1>8. CASE ~Pending
  <2>1. ~(dev.tx_busy = TRUE /\ dev.tx_flush = FALSE)
    BY <1>8, Zenon DEF Pending
  <2>2. ~(d.tx_busy /\ ~d.tx_flush)
    BY <1>0, <1>3, <2>1, DeviceTruth, Zenon
  <2>3. Silent(given)
    BY <1>2, <2>2, Zenon
  <2>4. /\ dev' = given /\ cdc' = cdc /\ deferred' = deferred /\ asked' = asked
        /\ called' = called
    BY <2>3, Zenon DEF Silent
  <2>5. dev.tx_busy \in BOOLEAN
    BY <1>3, DeviceTruth, Zenon
  <2> QED
    BY <1>0, <1>6, <2>1, <2>4, <2>5, Zenon DEF CallsInv, CallsOf
<1> QED
  BY <1>7, <1>8

\* One callback for each transfer: no step breaks it.
LEMMA CallsStep ==
  ASSUME BaseInv, HostInv, CallsInv, [Next]_vars, Answered
  PROVE  CallsInv'
<1> DEFINE Old == CallsOf(dev.tx_busy, dev.tx_flush, dev.tx_timeout, line.sending, pc,
                          deferred, cdc.tx_busy, tx_callback, asked, called, scene.sends)
           New == CallsOf(dev'.tx_busy, dev'.tx_flush, dev'.tx_timeout, line'.sending, pc',
                          deferred', cdc'.tx_busy, tx_callback', asked', called', scene'.sends)
<1>1. /\ dev \in Devices /\ line \in Lines /\ cdc \in Classes /\ pc \in Places
      /\ tx_callback \in BOOLEAN /\ deferred \in BOOLEAN /\ asked \in Nat /\ called \in Nat
      /\ scene.sends \in Nat
  BY UsbCdcAssumption DEF BaseInv
<1>2. Old
  BY Zenon DEF CallsInv
<1>3. New => CallsInv'
  BY Zenon DEF CallsInv
<1>4. "bus" \notin Perils /\ "full" \notin Perils
  BY DEF Answered
<1>5. /\ tx_callback <=> tx_callback = TRUE
      /\ deferred <=> deferred = TRUE
      /\ ~deferred <=> deferred = FALSE
  BY <1>1, Zenon
<1>6. \A v : \A f \in {[dev EXCEPT !.reset = v], [dev EXCEPT !.suspended = v],
                       [dev EXCEPT !.rx_busy = v]} :
         f.tx_busy = dev.tx_busy /\ f.tx_flush = dev.tx_flush /\ f.tx_timeout = dev.tx_timeout
  BY <1>1 DEF Devices
<1>7. \A v : [cdc EXCEPT !.enabled = v].tx_busy = cdc.tx_busy
             /\ [cdc EXCEPT !.notified = v].tx_busy = cdc.tx_busy
  BY <1>1 DEF Classes
<1>8. \A v : [cdc EXCEPT !.tx_busy = v].tx_busy = v
  BY <1>1 DEF Classes
<1>9. \A n : Armed(n).sending = line.sending
             /\ [line EXCEPT !.armed = n].sending = line.sending
             /\ [line EXCEPT !.sending = n].sending = n
             /\ [line EXCEPT !.armed = None, !.sending = n].sending = n
  BY <1>1 DEF Lines, Armed
<1>9a. (\E v : dev' = [dev EXCEPT !.rx_busy = v]) =>
          /\ dev'.tx_busy = dev.tx_busy /\ dev'.tx_flush = dev.tx_flush
          /\ dev'.tx_timeout = dev.tx_timeout
  BY <1>1 DEF Devices
<1>9b. /\ (\E v : cdc' = [cdc EXCEPT !.notified = v]) => cdc'.tx_busy = cdc.tx_busy
       /\ (\E v : cdc' = [cdc EXCEPT !.enabled = v]) => cdc'.tx_busy = cdc.tx_busy
  BY <1>1 DEF Classes
<1>9c. /\ (\E n : line' = Armed(n)) => line'.sending = line.sending
       /\ line' = [line EXCEPT !.armed = None] => line'.sending = line.sending
  BY <1>1 DEF Lines, Armed
<1>10. CASE Configure
  <2>1. /\ dev'.tx_busy = FALSE /\ dev'.tx_flush = FALSE /\ dev'.tx_timeout = 0
        /\ line'.sending = FALSE
    BY <1>10 DEF Configure
  <2>2. UNCHANGED <<cdc, output, pc, scene>> /\ bus = "off"
    BY <1>10, Zenon DEF Configure
  <2>3. /\ cdc' = cdc /\ pc' = pc /\ scene' = scene /\ tx_callback' = tx_callback
        /\ deferred' = deferred /\ asked' = asked /\ called' = called
    BY <2>2, Zenon DEF output
  <2>4. dev.tx_busy = FALSE /\ pc \notin {"swap", "set", "svc"} /\ deferred = FALSE
    BY <2>2, Zenon DEF HostInv
  <2> HIDE DEF Old, New
  <2>5. New
    BY <1>2, <2>1, <2>3, <2>4, Zenon DEF Old, New, CallsOf
  <2> QED
    BY <1>3, <2>5
<1>11. CASE Detach
  <2>1. /\ Gone.tx_busy = FALSE /\ Gone.tx_flush = FALSE /\ Gone.tx_timeout = 0
        /\ Gone \in Devices
    BY GoneFresh DEF Gone
  <2>2. /\ line'.sending = FALSE /\ tx_callback' = tx_callback /\ pc' = pc /\ scene' = scene
        /\ pc \notin {"swap", "set", "svc"} /\ deferred = FALSE
    BY <1>1, <1>4, <1>5, <1>9, <1>11, Zenon DEF Detach, Transmitting
  <2>3. IF dev.tx_busy /\ ~dev.tx_flush /\ tx_callback THEN CallBack(Gone, RESET)
        ELSE Silent(Gone)
    BY <1>11, Zenon DEF Detach, Gone
  <2>4. CASE Pending
    <3>1. dev.tx_busy = TRUE /\ dev.tx_flush = FALSE
      BY <2>4, Zenon DEF Pending
    <3>2. tx_callback = TRUE /\ asked = called + 1 /\ pc \notin {"check", "swap"}
      BY <1>2, <2>2, <3>1, Zenon DEF CallsOf
    <3>3. CallBack(Gone, RESET)
      BY <2>3, <3>1, <3>2, Zenon
    <3>4. RESET # READY
      BY DEF RESET, READY
    <3>5. /\ called' = called + 1 /\ dev' = Gone /\ cdc'.tx_busy = FALSE
          /\ deferred' = deferred /\ asked' = asked
      BY <1>4, <2>1, <3>3, <3>4, CallBackOnly, Zenon
    <3> HIDE DEF Old, New
    <3>6. New
      BY <1>2, <2>1, <2>2, <3>2, <3>5, Zenon DEF Old, New, CallsOf
    <3> QED
      BY <1>3, <3>6
  <2>5. CASE ~Pending
    <3>1. ~(dev.tx_busy = TRUE /\ dev.tx_flush = FALSE)
      BY <2>5, Zenon DEF Pending
    <3>2. ~(dev.tx_busy /\ ~dev.tx_flush)
      BY <1>1, <3>1, DeviceTruth, Zenon
    <3>3. Silent(Gone)
      BY <2>3, <3>2, Zenon
    <3>4. /\ dev' = Gone /\ cdc' = cdc /\ deferred' = deferred /\ asked' = asked
          /\ called' = called
      BY <3>3, Zenon DEF Silent
    <3> HIDE DEF Old, New
    <3>5. New
      BY <1>2, <2>1, <2>2, <3>1, <3>4, Zenon DEF Old, New, CallsOf
    <3> QED
      BY <1>3, <3>5
  <2> QED
    BY <2>4, <2>5
<1>12. CASE Suspend
  <2> DEFINE d == [dev EXCEPT !.suspended = TRUE, !.tx_timeout = 0]
  <2>1. d.tx_busy = dev.tx_busy /\ d.tx_flush = dev.tx_flush /\ d.tx_timeout = 0
    BY <1>1 DEF Devices
  <2>2. GiveUp(d, state')
    BY <1>12, Zenon DEF Suspend
  <2>3. d \in Devices
    <3>1. 0 \in 0..Timeout /\ TRUE \in Truth
      BY UsbCdcAssumption DEF Truth
    <3> QED
      BY <1>1, <3>1, TimeoutSet, Zenon
  <2>4. Pending => tx_callback = TRUE
    <3>1. ~(pc = "set" /\ ~tx_callback)
      BY <1>4, <1>12, Zenon DEF Suspend
    <3> QED
      BY <1>2, <1>5, <3>1, Zenon DEF Pending, CallsOf
  <2>5. UNCHANGED <<line, tx_callback, pc, scene>>
    BY <1>12, Zenon DEF Suspend
  <2> HIDE DEF d
  <2> QED
    BY <1>4, <2>1, <2>2, <2>3, <2>4, <2>5, GiveUpCalls, Zenon
<1>13. CASE Sof
  <2>1. UNCHANGED <<line, tx_callback, pc, scene>> /\ dev.tx_timeout # 0
    <3>1. dev.tx_timeout > 0 /\ dev.tx_timeout \in 0..Timeout
      BY <1>1, <1>13, DeviceTruth, Zenon DEF Sof
    <3>2. dev.tx_timeout # 0
      BY <3>1
    <3> QED
      BY <1>13, <3>2, Zenon DEF Sof, hist
  <2>2. tx_callback = TRUE
    BY <1>2, <2>1, Zenon DEF CallsOf
  <2>3. CASE /\ dev' = [dev EXCEPT !.tx_timeout = dev.tx_timeout - 1]
             /\ UNCHANGED <<state, cdc, deferred, asked, called>>
    <3>1. dev'.tx_busy = dev.tx_busy /\ dev'.tx_flush = dev.tx_flush
      BY <1>1, <2>3 DEF Devices
    <3>2. /\ line' = line /\ pc' = pc /\ tx_callback' = TRUE /\ scene' = scene
          /\ cdc' = cdc /\ deferred' = deferred /\ asked' = asked /\ called' = called
      BY <2>1, <2>2, <2>3, Zenon
    <3> HIDE DEF Old, New
    <3>3. New
      BY <1>2, <3>1, <3>2, Zenon DEF Old, New, CallsOf
    <3> QED
      BY <1>3, <3>3
  <2>4. CASE GiveUp([dev EXCEPT !.reset = TRUE], state')
    <3> DEFINE d == [dev EXCEPT !.reset = TRUE]
    <3>1. d.tx_busy = dev.tx_busy /\ d.tx_flush = dev.tx_flush /\ d.tx_timeout = dev.tx_timeout
      BY <1>6, Zenon
    <3>2. d \in Devices
      BY <1>1, DeviceSet, Zenon DEF Truth
    <3>3. GiveUp(d, state')
      BY <2>4
    <3> HIDE DEF d
    <3> QED
      BY <1>4, <2>1, <2>2, <3>1, <3>2, <3>3, GiveUpCalls, Zenon
  <2> QED
    BY <1>13, <2>3, <2>4, Zenon DEF Sof
<1>14. CASE TxDone
  <2> DEFINE over == [dev EXCEPT !.tx_busy = FALSE, !.tx_timeout = 0, !.tx_flush = FALSE]
             quiet == [over EXCEPT !.reset = FALSE]
  <2>1. over \in Devices
    <3>1. 0 \in 0..Timeout /\ FALSE \in Truth
      BY UsbCdcAssumption DEF Truth
    <3> QED
      BY <1>1, <3>1, Zenon DEF Devices
  <2>2. /\ over.tx_busy = FALSE /\ over.tx_flush = FALSE /\ over.tx_timeout = 0
        /\ quiet.tx_busy = FALSE /\ quiet.tx_flush = FALSE /\ quiet.tx_timeout = 0
    BY <1>1 DEF Devices
  <2>3. line.sending = TRUE
    BY <1>1, <1>14, LineTruth, Zenon DEF TxDone
  <2>4. /\ dev.tx_busy = TRUE /\ pc \notin {"set", "svc"} /\ deferred = FALSE
        /\ tx_callback = TRUE
    BY <1>2, <1>5, <2>3, Zenon DEF CallsOf
  <2>5. line'.sending = FALSE /\ pc' = pc /\ tx_callback' = TRUE /\ scene' = scene
    BY <1>9, <1>14, <2>4, Zenon DEF TxDone, hist
  <2>6. CASE dev.tx_flush = TRUE
    <3>1. Silent(quiet)
      BY <1>1, <1>14, <2>6, DeviceTruth, Zenon DEF TxDone
    <3>2. /\ dev' = quiet /\ cdc' = cdc /\ deferred' = deferred /\ asked' = asked
          /\ called' = called
      BY <3>1, Zenon DEF Silent
    <3>3. asked = called
      BY <1>2, <2>6, Zenon DEF CallsOf
    <3> HIDE DEF Old, New, over, quiet
    <3>4. New
      BY <1>2, <2>2, <2>4, <2>5, <2>6, <3>2, <3>3, Zenon DEF Old, New, CallsOf
    <3> QED
      BY <1>3, <3>4
  <2>7. CASE dev.tx_flush = FALSE
    <3>1. CallBack(over, state)
      BY <1>1, <1>14, <2>4, <2>7, DeviceTruth, Zenon DEF TxDone
    <3>2. asked = called + 1 /\ pc \notin {"check", "swap", "set", "svc"} /\ asked <= scene.sends
      BY <1>2, <2>4, <2>7, Zenon DEF CallsOf
    <3> HIDE DEF over, quiet
    <3>3. /\ called' = called + 1 /\ dev'.tx_flush = FALSE /\ dev'.tx_timeout = 0
          /\ \/ /\ dev' = over /\ cdc'.tx_busy = FALSE /\ deferred' = deferred /\ asked' = asked
             \/ /\ asked < scene.sends /\ dev'.tx_busy = TRUE /\ cdc'.tx_busy = TRUE
                /\ deferred' = TRUE /\ asked' = asked + 1
      BY <1>4, <2>1, <2>2, <3>1, CallBackCalls, Zenon
    <3> HIDE DEF Old, New
    <3>4. CASE /\ dev' = over /\ cdc'.tx_busy = FALSE /\ deferred' = deferred /\ asked' = asked
      <4>1. New
        BY <2>2, <2>4, <2>5, <3>2, <3>3, <3>4, Zenon DEF New, CallsOf
      <4> QED
        BY <1>3, <4>1
    <3>5. CASE /\ asked < scene.sends /\ dev'.tx_busy = TRUE /\ cdc'.tx_busy = TRUE
               /\ deferred' = TRUE /\ asked' = asked + 1
      <4>1. asked' = called' + 1 /\ asked' <= scene.sends
        BY <1>1, <3>2, <3>3, <3>5
      <4>2. New
        BY <2>4, <2>5, <3>2, <3>3, <3>5, <4>1, Zenon DEF New, CallsOf
      <4> QED
        BY <1>3, <4>2
    <3> QED
      BY <3>3, <3>4, <3>5
  <2>8. dev.tx_flush \in BOOLEAN
    BY <1>1, DeviceTruth, Zenon
  <2> QED
    BY <2>6, <2>7, <2>8, Zenon
<1>15. CASE Resume
  <2>1. UNCHANGED <<line, cdc, output, pc, scene>> /\ dev' = [dev EXCEPT !.suspended = FALSE]
    BY <1>15, Zenon DEF Resume
  <2> QED
    BY <1>6, <2>1, CallsSame, Zenon DEF output
<1>16. CASE Control
  <2>1. UNCHANGED <<line, cdc, output, pc, scene>> /\ dev' = [dev EXCEPT !.reset = FALSE]
    BY <1>16, Zenon DEF Control, hist
  <2> QED
    BY <1>6, <2>1, CallsSame, Zenon DEF output
<1>17. CASE \E n \in scene.lengths : RxReady(n)
  <2>1. PICK n \in scene.lengths : RxReady(n)
    BY <1>17
  <2>2. UNCHANGED <<output, pc, scene>>
    BY <2>1, Zenon DEF RxReady
  <2>3. \E v : dev' = [dev EXCEPT !.rx_busy = v]
    BY <2>1, Zenon DEF RxReady
  <2>4. \E v : cdc' = [cdc EXCEPT !.notified = v]
    BY <2>1, Zenon DEF RxReady
  <2>5. line'.sending = line.sending
    <3>1. (\E k : line' = Armed(k)) \/ line' = [line EXCEPT !.armed = None]
      BY <2>1, Zenon DEF RxReady
    <3> QED
      BY <1>9c, <3>1, Zenon
  <2>6. /\ dev'.tx_busy = dev.tx_busy /\ dev'.tx_flush = dev.tx_flush
        /\ dev'.tx_timeout = dev.tx_timeout
    BY <1>9a, <2>3, Zenon
  <2>7. cdc'.tx_busy = cdc.tx_busy
    BY <1>9b, <2>4, Zenon
  <2> QED
    BY <2>2, <2>5, <2>6, <2>7, CallsSame, Zenon DEF output
<1>18. CASE PendSV \/ TransmitSvc
  <2>1. /\ line' = [line EXCEPT !.sending = line.sending \/ dev.usbd]
        /\ dev' = [dev EXCEPT !.tx_timeout = Timeout]
        /\ cdc' = cdc /\ tx_callback' = tx_callback /\ asked' = asked /\ called' = called
        /\ scene' = scene
    BY <1>18, Zenon DEF PendSV, TransmitSvc, DoTransmit, hist
  <2>2. /\ deferred' = FALSE
        /\ \/ deferred = TRUE /\ pc' = pc
           \/ pc = "svc" /\ deferred = FALSE /\ pc' = "idle"
    BY <1>5, <1>18, Zenon DEF PendSV, TransmitSvc, At, Goto
  <2>3. dev'.tx_busy = dev.tx_busy /\ dev'.tx_flush = dev.tx_flush
    BY <1>1, <2>1 DEF Devices
  <2>4. dev.tx_busy = TRUE /\ tx_callback = TRUE /\ pc' \notin {"set", "svc"}
    BY <1>2, <2>2, Zenon DEF CallsOf
  <2>5. pc' \in {"check", "swap"} => pc \in {"check", "swap"}
    BY <2>2, Zenon
  <2> HIDE DEF Old, New
  <2>6. New
    BY <1>2, <2>1, <2>2, <2>3, <2>4, <2>5, Zenon DEF Old, New, CallsOf
  <2> QED
    BY <1>3, <2>6
<1>19. CASE Write
  <2>1. /\ pc = "idle" /\ pc' = "check" /\ asked < scene.sends
        /\ cdc' = [cdc EXCEPT !.tx_busy = TRUE] /\ cdc.tx_busy = FALSE
    BY <1>1, <1>19, ClassTruth, Zenon DEF Write, At, Goto
  <2>2. /\ dev' = dev /\ line' = line /\ deferred' = deferred /\ asked' = asked
        /\ called' = called /\ tx_callback' = tx_callback /\ scene' = scene
    BY <1>19, Zenon DEF Write, output, hist
  <2>3. cdc'.tx_busy = TRUE
    BY <1>8, <2>1, Zenon
  <2> HIDE DEF Old, New
  <2>4. New
    BY <1>2, <2>1, <2>2, <2>3, Zenon DEF Old, New, CallsOf
  <2> QED
    BY <1>3, <2>4
<1>20. CASE TransmitCheck
  <2>1. /\ pc = "check" /\ deferred = FALSE
        /\ \/ pc' = "swap" /\ cdc' = cdc
           \/ pc' = "idle" /\ cdc' = [cdc EXCEPT !.tx_busy = FALSE]
    BY <1>5, <1>20, Zenon DEF TransmitCheck, At, Goto, Refuse
  <2>2. /\ dev' = dev /\ line' = line /\ deferred' = deferred /\ asked' = asked
        /\ called' = called /\ tx_callback' = tx_callback /\ scene' = scene
    BY <1>20, Zenon DEF TransmitCheck, output, hist
  <2> HIDE DEF Old, New
  <2>3. New
    BY <1>2, <2>1, <2>2, Zenon DEF Old, New, CallsOf
  <2> QED
    BY <1>3, <2>3
<1>21. CASE TransmitSwap
  <2>1. /\ pc = "swap" /\ deferred = FALSE /\ dev' = [dev EXCEPT !.tx_busy = TRUE]
        /\ \/ dev.tx_busy = TRUE /\ pc' = "idle" /\ asked' = asked
           \/ dev.tx_busy = FALSE /\ pc' = "set" /\ asked' = asked + 1 /\ cdc' = cdc
    BY <1>1, <1>5, <1>21, DeviceTruth, Zenon DEF TransmitSwap, At, Goto, Refuse
  <2>2. /\ line' = line /\ deferred' = deferred
        /\ called' = called /\ tx_callback' = tx_callback /\ scene' = scene
    BY <1>21, Zenon DEF TransmitSwap, output, hist
  <2>3. /\ dev'.tx_busy = TRUE /\ dev'.tx_flush = dev.tx_flush
        /\ dev'.tx_timeout = dev.tx_timeout
    BY <1>1, <2>1 DEF Devices
  <2>4. /\ ~(dev.tx_busy = TRUE /\ dev.tx_flush = FALSE) /\ cdc.tx_busy = TRUE
        /\ asked = called /\ asked < scene.sends
    BY <1>2, <2>1, Zenon DEF CallsOf
  <2>5. dev.tx_flush \in BOOLEAN /\ line.sending \in BOOLEAN
    BY <1>1, DeviceTruth, LineTruth, Zenon
  <2>6. CASE dev.tx_busy = TRUE /\ pc' = "idle" /\ asked' = asked
    <3> HIDE DEF Old, New
    <3>1. New
      BY <1>2, <2>1, <2>2, <2>3, <2>4, <2>5, <2>6, Zenon DEF Old, New, CallsOf
    <3> QED
      BY <1>3, <3>1
  <2>7. CASE dev.tx_busy = FALSE /\ pc' = "set" /\ asked' = asked + 1 /\ cdc' = cdc
    <3>1. asked' = called' + 1 /\ asked' <= scene'.sends
      BY <1>1, <2>2, <2>4, <2>7
    <3>2. dev.tx_flush = FALSE /\ line.sending = FALSE
      BY <1>2, <2>5, <2>7, Zenon DEF CallsOf
    <3> HIDE DEF Old, New
    <3>3. New
      BY <1>2, <2>1, <2>2, <2>3, <2>4, <2>7, <3>1, <3>2, Zenon DEF Old, New, CallsOf
    <3> QED
      BY <1>3, <3>3
  <2> QED
    BY <2>1, <2>6, <2>7
<1>22. CASE TransmitSet
  <2>1. /\ pc = "set" /\ deferred = FALSE /\ pc' = "svc" /\ tx_callback' = TRUE
        /\ dev' = dev /\ line' = line /\ deferred' = deferred /\ asked' = asked
        /\ called' = called /\ cdc' = cdc /\ scene' = scene
    BY <1>5, <1>22, Zenon DEF TransmitSet, At, Goto, hist
  <2> HIDE DEF Old, New
  <2>2. New
    BY <1>2, <2>1, Zenon DEF Old, New, CallsOf
  <2> QED
    BY <1>3, <2>2
<1>23. CASE Begin \/ Enable \/ EnableStore \/ EnableArm \/ EnableBusy \/ End \/ Disable
  <2>1. Elsewhere(pc) /\ Elsewhere(pc') /\ UNCHANGED <<output, scene>>
    BY <1>23, FoundPlace, Zenon
       DEF Begin, Enable, EnableStore, Storing, EnableArm, EnableBusy, End, Disable, At, Goto,
           Elsewhere, hist
  <2>2. dev' = dev \/ \E v : dev' = [dev EXCEPT !.rx_busy = v]
    BY <1>23, Zenon DEF Begin, Enable, EnableStore, EnableArm, EnableBusy, End, Disable
  <2>3. cdc' = cdc \/ \E v : cdc' = [cdc EXCEPT !.enabled = v]
    BY <1>23, Zenon DEF Begin, Enable, EnableStore, EnableArm, EnableBusy, End, Disable
  <2>4. line' = line \/ \E n : line' = Armed(n)
    BY <1>23, Zenon DEF Begin, Enable, EnableStore, EnableArm, EnableBusy, End, Disable
  <2>5. /\ dev'.tx_busy = dev.tx_busy /\ dev'.tx_flush = dev.tx_flush
        /\ dev'.tx_timeout = dev.tx_timeout
    BY <1>9a, <2>2, Zenon
  <2>6. cdc'.tx_busy = cdc.tx_busy
    BY <1>9b, <2>3, Zenon
  <2>7. line'.sending = line.sending
    BY <1>9c, <2>4, Zenon
  <2> QED
    BY <2>1, <2>5, <2>6, <2>7, CallsElsewhere, Zenon DEF output
<1>24. CASE ReceiveLoad \/ ReceiveCopy \/ ReceiveSub \/ ReceiveTest \/ ReceiveBusy
  <2>1. Elsewhere(pc) /\ Elsewhere(pc') /\ UNCHANGED <<cdc, output, scene>>
    BY <1>24, Zenon
       DEF ReceiveLoad, ReceiveCopy, ReceiveSub, ReceiveTest, ReceiveBusy, At, Goto,
           Elsewhere, hist
  <2>2. dev' = dev \/ \E v : dev' = [dev EXCEPT !.rx_busy = v]
    BY <1>24, Zenon DEF ReceiveLoad, ReceiveCopy, ReceiveSub, ReceiveTest, ReceiveBusy
  <2>3. line' = line \/ \E n : line' = Armed(n)
    BY <1>24, Zenon DEF ReceiveLoad, ReceiveCopy, ReceiveSub, ReceiveTest, ReceiveBusy
  <2>4. /\ dev'.tx_busy = dev.tx_busy /\ dev'.tx_flush = dev.tx_flush
        /\ dev'.tx_timeout = dev.tx_timeout
    BY <1>9a, <2>2, Zenon
  <2>5. line'.sending = line.sending
    BY <1>9c, <2>3, Zenon
  <2> QED
    BY <2>1, <2>4, <2>5, CallsElsewhere, Zenon DEF output
<1>25. CASE Notified \/ \E n \in scene.reads : Read(n)
  <2>1. Elsewhere(pc) /\ Elsewhere(pc') /\ UNCHANGED <<dev, line, output, scene>>
    BY <1>25, Zenon DEF Notified, Read, At, Goto, Elsewhere, hist
  <2>2. cdc' = cdc \/ \E v : cdc' = [cdc EXCEPT !.notified = v]
    BY <1>25, Zenon DEF Notified, Read
  <2>3. cdc'.tx_busy = cdc.tx_busy
    BY <1>7, <2>2, Zenon
  <2> QED
    BY <2>1, <2>3, CallsElsewhere, Zenon DEF output
<1>26. CASE UNCHANGED vars
  BY <1>26, CallsSame, Zenon DEF vars, output, hist
<1> HIDE DEF Old, New
<1> QED
  BY <1>10, <1>11, <1>12, <1>13, <1>14, <1>15, <1>16, <1>17, <1>18, <1>19, <1>20, <1>21,
     <1>22, <1>23, <1>24, <1>25, <1>26, Zenon DEF Next, Host, Sketch, Running

\* It holds at the start.
LEMMA AnsweredInit ==
  ASSUME Init
  PROVE  AnsweredInv
<1>1. BaseInv
  <2>1. 0 \in 0..Timeout /\ 0 \in Int /\ 0 \in Nat /\ FALSE \in Truth /\ FALSE \in BOOLEAN
        /\ None \in Int /\ Null \in Int /\ INIT \in INIT..RESET
    BY UsbCdcAssumption DEF Truth, None, Null, INIT, RESET
  <2>2. /\ dev \in Devices /\ line \in Lines /\ cdc \in Classes /\ rx \in Rings
        /\ rcv \in Locals
    BY <2>1, Zenon DEF Init, Devices, Lines, Classes, Rings, Locals
  <2> QED
    BY <2>1, <2>2, Zenon DEF Init, BaseInv, Places
<1>2. HostInv /\ FoundInv
  BY Zenon DEF Init, HostInv, FoundInv, Storing
<1>3. CallsInv
  <2>1. /\ dev.tx_busy = FALSE /\ dev.tx_flush = FALSE /\ dev.tx_timeout = 0
        /\ line.sending = FALSE /\ pc = "idle" /\ deferred = FALSE /\ asked = called
        /\ asked <= scene.sends
    BY UsbCdcAssumption DEF Init
  <2> QED
    BY <2>1, Zenon DEF CallsInv, CallsOf
<1> QED
  BY <1>1, <1>2, <1>3, Zenon DEF AnsweredInv

\* It is inductive.
LEMMA AnsweredAlways == ASSUME Answered PROVE Spec => []AnsweredInv
<1>1. Init => AnsweredInv
  BY AnsweredInit
<1>2. AnsweredInv /\ [Next]_vars => AnsweredInv'
  BY BaseStep, HostStep, FoundStep, CallsStep, Zenon DEF AnsweredInv, Answered
<1> QED
  BY <1>1, <1>2, PTL DEF Spec

\* Every accepted transfer is called back once: for every size, timeout and scene, as
\* long as the bus is not reset inside of transmit and the PendSV queue has room.
THEOREM CallsCorrect == ASSUME Answered PROVE Spec => []CalledOnce
<1>1. AnsweredInv => CalledOnce
  <2> SUFFICES ASSUME AnsweredInv PROVE CalledOnce
    OBVIOUS
  <2>1. asked = called + 1 \/ asked = called
    BY Zenon DEF AnsweredInv, CallsInv, CallsOf
  <2>2. asked \in Nat /\ called \in Nat
    BY DEF AnsweredInv, BaseInv
  <2> QED
    BY <2>1, <2>2 DEF CalledOnce
<1> QED
  BY <1>1, AnsweredAlways, PTL

\* Without a host, no step sends or starts a timeout.
LEMMA SilentWithoutHost ==
  ASSUME BaseInv, HostInv, [Next]_vars, bus = "off"
  PROVE  line'.sending = line.sending /\ ~(dev'.tx_timeout > dev.tx_timeout)
<1>1. /\ dev \in Devices /\ line \in Lines
      /\ pc \notin {"swap", "set", "svc"} /\ deferred = FALSE /\ line.sending = FALSE
  BY DEF BaseInv, HostInv
<1>2. ~(dev.tx_timeout > dev.tx_timeout) /\ ~(0 > dev.tx_timeout)
  <2>1. dev.tx_timeout \in 0..Timeout
    BY <1>1, DeviceTruth, Zenon
  <2> QED
    BY <2>1
<1>3. \A v : [dev EXCEPT !.rx_busy = v].tx_timeout = dev.tx_timeout
  BY <1>1 DEF Devices
<1>4. \A n : Armed(n).sending = line.sending
  BY <1>1 DEF Lines, Armed
<1>5. CASE Configure
  <2>1. dev'.tx_timeout = 0 /\ line'.sending = FALSE
    BY <1>5 DEF Configure
  <2> QED
    BY <1>1, <1>2, <2>1
<1>6. CASE UNCHANGED <<dev, line>>
  BY <1>2, <1>6, Zenon
<1>7. CASE EnableBusy \/ ReceiveBusy
  <2>1. line' = line /\ \E v : dev' = [dev EXCEPT !.rx_busy = v]
    BY <1>7, Zenon DEF EnableBusy, ReceiveBusy
  <2> QED
    BY <1>2, <1>3, <2>1, Zenon
<1>8. CASE EnableArm \/ ReceiveTest
  <2>1. dev' = dev /\ (line' = line \/ \E n : line' = Armed(n))
    BY <1>8, Zenon DEF EnableArm, ReceiveTest
  <2> QED
    BY <1>2, <1>4, <2>1, Zenon
<1>9. CASE TransmitSwap \/ TransmitSvc \/ PendSV
  BY <1>1, <1>9, Zenon DEF TransmitSwap, TransmitSvc, PendSV, At
<1>10. CASE Detach \/ Suspend \/ Resume \/ Control \/ TxDone \/ Sof
            \/ \E n \in scene.lengths : RxReady(n)
  BY <1>10, Zenon DEF Detach, Suspend, Resume, Control, TxDone, Sof, RxReady
<1>11. CASE Write \/ TransmitCheck \/ TransmitSet \/ Begin \/ Enable \/ EnableStore \/ End
            \/ Disable
  BY <1>6, <1>11, Zenon
     DEF Write, TransmitCheck, TransmitSet, Begin, Enable, EnableStore, End, Disable
<1>12. CASE ReceiveLoad \/ ReceiveCopy \/ ReceiveSub \/ Notified \/ \E n \in scene.reads : Read(n)
  BY <1>6, <1>12, Zenon DEF ReceiveLoad, ReceiveCopy, ReceiveSub, Notified, Read
<1>13. CASE UNCHANGED vars
  BY <1>6, <1>13, Zenon DEF vars
<1> QED
  BY <1>5, <1>7, <1>8, <1>9, <1>10, <1>11, <1>12, <1>13, Zenon
     DEF Next, Host, Sketch, Running

\* do_transmit finds a host: for every size, timeout and scene, as long as the bus is
\* not reset inside of transmit and the PendSV queue has room.
THEOREM TransmitsCorrect == ASSUME Answered PROVE Spec => TransmitsToOpen
<1>1. AnsweredInv /\ [Next]_vars =>
        [line'.sending # line.sending \/ dev'.tx_timeout > dev.tx_timeout => dev.usbd]_vars
  <2> SUFFICES ASSUME AnsweredInv, [Next]_vars
               PROVE  line'.sending # line.sending \/ dev'.tx_timeout > dev.tx_timeout => dev.usbd
    BY Zenon
  <2>1. BaseInv /\ HostInv
    BY Zenon DEF AnsweredInv
  <2>2. CASE bus = "off"
    BY <2>1, <2>2, SilentWithoutHost, Zenon
  <2>3. CASE bus # "off"
    BY <2>1, <2>3, Zenon DEF HostInv
  <2> QED
    BY <2>2, <2>3
<1> QED
  BY <1>1, AnsweredAlways, PTL DEF Spec, TransmitsToOpen

-----------------------------------------------------------------------------
(* The ring is a queue. *)

\* Places of the sketch at which it is neither in receive nor in enable.
Plain(p) == p \notin {"load", "copy", "sub", "test", "busy", "arm", "armed"}

\* Most steps leave the ring and its endpoint alone, or disarm the endpoint.
LEMMA QueueSame ==
  ASSUME QueueInv,
         UNCHANGED <<rx, rx_data, unread, rcv, scene, issued>>,
         line'.armed \in {line.armed, None}, line'.buffer = line.buffer,
         Open(state') <=> Open(state),
         events' \in 0..scene.events, events' = 0 => events = 0 /\ bus' = bus,
         pc' = pc \/ (Plain(pc') /\ pc # "arm" /\ pc # "sub"),
         ~Plain(pc') => bus' # "off"
  PROVE  QueueInv'
<1>1. /\ rx' = rx /\ rx_data' = rx_data /\ unread' = unread /\ rcv' = rcv /\ scene' = scene
      /\ issued' = issued /\ line'.buffer = line.buffer
      /\ line'.armed = line.armed \/ line'.armed = None
      /\ events' \in 0..scene.events /\ (events' = 0 => events = 0 /\ bus' = bus)
      /\ pc' = pc \/ (Plain(pc') /\ pc # "arm" /\ pc # "sub")
      /\ ~Plain(pc') => bus' # "off"
      /\ Open(state') <=> Open(state)
  OBVIOUS
<1>2. DataInv /\ PlaceInv /\ RingInv /\ ArmedInv /\ ReceiveInv
  BY Zenon DEF QueueInv
<1>3. DataInv'
  <2>1. None \in Null..Size-1
    BY UsbCdcAssumption DEF None, Null
  <2> QED
    BY <1>1, <1>2, <2>1, Zenon DEF DataInv
<1>4. PlaceInv'
  BY <1>1, <1>2, Zenon DEF PlaceInv, Receiving, Enabling, Plain
<1>5. RingInv'
  BY <1>1, <1>2, Zenon DEF RingInv, Taken, Plain
<1>6. ArmedInv'
  BY <1>1, <1>2, Zenon DEF ArmedInv, Plain
<1>7. ReceiveInv'
  BY <1>1, <1>2, Zenon DEF ReceiveInv, Plain
<1> QED
  BY <1>3, <1>4, <1>5, <1>6, <1>7, Zenon DEF QueueInv

\* The fields of an advanced ring.
LEMMA AdvanceFields ==
  ASSUME NEW r \in Rings, NEW n \in Int
  PROVE  /\ Advance(r, n).read = r.read /\ Advance(r, n).count = r.count + n
         /\ r.write + n + Packet > Size =>
               Advance(r, n).wrap = r.write + n /\ Advance(r, n).write = 0
         /\ ~(r.write + n + Packet > Size) =>
               Advance(r, n).wrap = r.wrap /\ Advance(r, n).write = r.write + n
<1> DEFINE write == r.write + n
           count == r.count + n
           late == [r EXCEPT !.wrap = write, !.write = 0, !.count = count]
           early == [r EXCEPT !.write = write, !.count = count]
<1>1. /\ late.read = r.read /\ late.count = count /\ late.wrap = write /\ late.write = 0
      /\ early.read = r.read /\ early.count = count /\ early.wrap = r.wrap
      /\ early.write = write
  <2> HIDE DEF write, count
  <2> QED
    BY DEF Rings
<1>2. Advance(r, n) = IF write + Packet > Size THEN late ELSE early
  BY Zenon DEF Advance
<1> HIDE DEF late, early
<1> QED
  BY <1>1, <1>2

\* Two multiples that are less than two packets apart.
LEMMA Multiples ==
  ASSUME NEW m \in Nat, NEW n \in Nat, Multiple(m), Multiple(n), m < n
  PROVE  /\ m + Packet <= n
         /\ n < m + 2 * Packet => n = m + Packet
<1>1. PICK a \in 0..m : m = a * Packet
  BY DEF Multiple
<1>2. PICK b \in 0..n : n = b * Packet
  BY DEF Multiple
<1>3. a \in Nat /\ b \in Nat /\ Packet \in Nat /\ Packet > 0
  BY <1>1, <1>2, UsbCdcAssumption
<1>4. \A x, y \in Nat : x <= y => x * Packet <= y * Packet
  BY <1>3
<1>5. b >= a + 1
  <2> SUFFICES ASSUME b <= a PROVE FALSE
    BY <1>3
  <2> QED
    BY <1>1, <1>2, <1>3, <1>4
<1>6. (a + 1) * Packet = m + Packet /\ (a + 2) * Packet = m + 2 * Packet
  BY <1>1, <1>3
<1>7. m + Packet <= n
  BY <1>2, <1>3, <1>4, <1>5, <1>6
<1>8. ASSUME n < m + 2 * Packet PROVE n = m + Packet
  <2>1. b = a + 1
    <3> SUFFICES ASSUME b >= a + 2 PROVE FALSE
      BY <1>3, <1>5
    <3>1. (a + 2) * Packet <= b * Packet
      BY <1>3, <1>4
    <3> QED
      BY <1>2, <1>3, <1>6, <1>8, <3>1
  <2> QED
    BY <1>2, <1>6, <2>1
<1> QED
  BY <1>7, <1>8

\* One packet behind a multiple is a multiple.
LEMMA NextMultiple ==
  ASSUME NEW m \in Nat, Multiple(m)
  PROVE  Multiple(m + Packet)
<1>1. PICK a \in 0..m : m = a * Packet
  BY DEF Multiple
<1>2. a + 1 \in 0..m + Packet /\ m + Packet = (a + 1) * Packet
  BY <1>1, UsbCdcAssumption
<1> QED
  BY <1>2 DEF Multiple

\* What the bounds of a scene are.
LEMMA SceneFacts ==
  ASSUME BaseInv
  PROVE  /\ scene \in Scenes /\ scene.lengths \subseteq 0..Packet
         /\ scene.reads \subseteq Nat \ {0} /\ scene.anytime \in BOOLEAN
         /\ scene.backlog \in Nat /\ scene.bytes \in Nat /\ scene.sends \in Nat
         /\ scene.events \in Nat
  BY UsbCdcAssumption DEF BaseInv

\* How the bus comes on: the endpoint gets a place in the ring.
LEMMA QueueConfigure ==
  ASSUME RoomyInv, Roomy, Configure
  PROVE  QueueInv'
<1>1. /\ BaseInv /\ HostInv /\ DataInv /\ PlaceInv /\ RingInv /\ ArmedInv /\ ReceiveInv
  BY Zenon DEF RoomyInv, QueueInv
<1>2. /\ rx' = rx /\ rx_data' = rx_data /\ unread' = unread /\ rcv' = rcv /\ scene' = scene
      /\ issued' = issued /\ pc' = pc /\ bus = "off" /\ bus' = "on"
  BY Zenon DEF Configure, input
<1>3. events < scene.events /\ events' = events + 1
  BY Zenon DEF Configure, BusEvent
<1>4. events \in 0..scene.events /\ scene.events \in Nat
  BY <1>1, SceneFacts, Zenon DEF DataInv
<1>5. events' \in 0..scene.events /\ events' # 0
  BY <1>3, <1>4
<1>6. ~Receiving /\ ~Enabling
  BY <1>1, <1>2, Zenon DEF PlaceInv
<1>7. Open(state') <=> Open(state)
  BY DEF Configure, Open, INIT, RESET
<1>8. CASE Open(state)
  <2>1. line'.buffer = rx.write /\ line'.armed = rx.write
    BY <1>8 DEF Configure
  <2>2. /\ rx.count = Len(unread) /\ rx.count <= rx.wrap
        /\ Straight(rx, Len(unread)) \/ Folded(rx, Len(unread))
        /\ Whole(scene) => rx.wrap = Size
    <3>1. Taken = 0
      BY <1>6, Zenon DEF Taken, Receiving
    <3>2. /\ rx.count = Len(unread) + Taken /\ rx.count <= rx.wrap
          /\ Straight(rx, Len(unread)) \/ Folded(rx, Len(unread))
          /\ Whole(scene) => rx.wrap = Size
      BY <1>1, <1>8, Zenon DEF RingInv
    <3>3. Len(unread) \in Nat
      BY <1>1 DEF DataInv
    <3> QED
      BY <3>1, <3>2, <3>3
  <2>3. /\ rx.read \in 0..Size /\ rx.write \in 0..Size-Packet /\ rx.wrap \in 0..Size
        /\ Len(unread) \in Nat /\ Len(unread) <= scene.backlog
    BY <1>1 DEF DataInv
  <2>4. rx.count + Packet <= rx.wrap
    <3>1. CASE scene.events <= 1
      <4>1. events = 0
        BY <1>3, <1>4, <3>1
      <4>2. unread = <<>>
        BY <1>1, <1>8, <4>1, Zenon DEF PlaceInv
      <4>3. Len(unread) = 0
        BY <4>2
      <4>4. rx.wrap = Size
        BY <2>2, <2>3, <4>3 DEF Straight, Folded
      <4> QED
        BY <2>2, <4>3, <4>4, UsbCdcAssumption
    <3>2. CASE scene.backlog + Packet <= LeastWrap(scene)
      <4>1. LeastWrap(scene) <= rx.wrap
        BY <2>2, <2>3, UsbCdcAssumption DEF Straight, Folded, LeastWrap
      <4>2. LeastWrap(scene) \in Int /\ scene.backlog \in Nat
        BY <1>1, SceneFacts, UsbCdcAssumption DEF LeastWrap
      <4> QED
        BY <2>2, <2>3, <3>2, <4>1, <4>2, UsbCdcAssumption
    <3> QED
      BY <1>1, <3>1, <3>2, SceneFacts, Zenon DEF Roomy
  <2>5. rx.write \in Null..Size-1
    BY <2>3, UsbCdcAssumption DEF Null
  <2>6. DataInv'
    BY <1>1, <1>2, <1>5, <2>1, <2>5, Zenon DEF DataInv
  <2>7. PlaceInv'
    BY <1>2, <1>5, <1>6, Zenon DEF PlaceInv, Receiving, Enabling
  <2>8. RingInv'
    BY <1>1, <1>2, <1>7, Zenon DEF RingInv, Taken
  <2>9. ArmedInv'
    BY <1>2, <2>1, <2>4, Zenon DEF ArmedInv
  <2>10. ReceiveInv'
    BY <1>1, <1>2, Zenon DEF ReceiveInv
  <2> QED
    BY <2>6, <2>7, <2>8, <2>9, <2>10, Zenon DEF QueueInv
<1>9. CASE ~Open(state)
  <2>1. line'.buffer = line.buffer /\ line'.armed = line.buffer
    BY <1>9 DEF Configure
  <2>2. DataInv'
    BY <1>1, <1>2, <1>5, <2>1, Zenon DEF DataInv
  <2>3. PlaceInv'
    BY <1>2, <1>5, <1>6, Zenon DEF PlaceInv, Receiving, Enabling
  <2>4. RingInv' /\ ArmedInv'
    BY <1>7, <1>9, Zenon DEF RingInv, ArmedInv
  <2>5. ReceiveInv'
    BY <1>1, <1>2, Zenon DEF ReceiveInv
  <2> QED
    BY <2>2, <2>3, <2>4, <2>5, Zenon DEF QueueInv
<1> QED
  BY <1>8, <1>9

\* How the sketch begins: the ring is empty, and not armed yet.
LEMMA QueueEnable ==
  ASSUME RoomyInv, Enable
  PROVE  QueueInv'
<1>1. /\ BaseInv /\ HostInv /\ DataInv /\ PlaceInv /\ RingInv /\ ArmedInv /\ ReceiveInv
  BY Zenon DEF RoomyInv, QueueInv
<1>2. /\ rx_data' = rx_data /\ line' = line /\ rcv' = rcv /\ scene' = scene /\ bus' = bus
      /\ issued' = issued /\ events' = events /\ pc = "begin" /\ dev' = dev
  BY Zenon DEF Enable, At
<1>20. state' = state
  BY Zenon DEF Enable
<1>3. CASE pc' = "idle" /\ UNCHANGED <<rx, unread>>
  <2>1. /\ line'.armed \in {line.armed, None} /\ line'.buffer = line.buffer
        /\ events' \in 0..scene.events
    BY <1>1, <1>2, Zenon DEF DataInv
  <2>2. Plain(pc') /\ pc # "arm" /\ pc # "sub"
    BY <1>2, <1>3, Zenon DEF Plain
  <2> QED
    BY <1>1, <1>2, <1>20, <1>3, <2>1, <2>2, QueueSame, Zenon DEF RoomyInv
<1>4. CASE /\ state = INIT /\ unread' = <<>> /\ pc' = Found
           /\ rx' = [read |-> 0, write |-> 0, wrap |-> Size, count |-> 0, event |-> TRUE]
  <2>1. rx'.read = 0 /\ rx'.write = 0 /\ rx'.wrap = Size /\ rx'.count = 0
    BY <1>4
  <2>2. ~Open(state')
    BY <1>20, <1>4 DEF Open, INIT
  <2>3. 0 \in 0..Size /\ 0 \in 0..Size-Packet /\ Size \in 0..Size
    BY UsbCdcAssumption
  <2>4. unread' \in Seq(Nat) /\ Len(unread') <= scene'.backlog
    BY <1>1, <1>2, <1>4, SceneFacts
  <2>5. DataInv'
    <3>1. /\ rx'.read \in 0..Size /\ rx'.write \in 0..Size-Packet
          /\ rx'.wrap \in 0..Size /\ rx'.count \in 0..Size
      BY <2>1, <2>3, Zenon
    <3> QED
      BY <1>1, <1>2, <2>4, <3>1, Zenon DEF DataInv
  <2>6. pc' \in {"ready", "suspended", "reset", "closed"}
    BY <1>4, FoundPlace, Zenon
  <2>7. PlaceInv'
    BY <1>1, <1>2, <2>2, <2>6, Zenon DEF PlaceInv, Receiving, Enabling
  <2>8. RingInv' /\ ArmedInv'
    BY <2>2, Zenon DEF RingInv, ArmedInv
  <2>9. ReceiveInv'
    BY <2>6, Zenon DEF ReceiveInv
  <2> QED
    BY <2>5, <2>7, <2>8, <2>9, Zenon DEF QueueInv
<1> QED
  BY <1>3, <1>4, Zenon DEF Enable, Goto

\* The port is open when its state is stored, and the ring empty.
LEMMA QueueStore ==
  ASSUME RoomyInv, EnableStore
  PROVE  QueueInv'
<1>1. /\ BaseInv /\ HostInv /\ DataInv /\ PlaceInv /\ RingInv /\ ArmedInv /\ ReceiveInv
      /\ FoundInv /\ StoreInv
  BY Zenon DEF RoomyInv, QueueInv
<1>2. /\ rx' = rx /\ rx_data' = rx_data /\ unread' = unread /\ line' = line /\ rcv' = rcv
      /\ scene' = scene /\ bus' = bus /\ issued' = issued /\ events' = events /\ dev' = dev
      /\ Storing /\ pc' = IF pc = "closed" THEN "idle" ELSE "arm"
  BY Zenon DEF EnableStore, Goto, input, hist
<1>3. /\ unread = <<>>
      /\ rx.read = 0 /\ rx.write = 0 /\ rx.wrap = Size /\ rx.count = 0
  BY <1>1, <1>2, Zenon DEF StoreInv
<1>4. Open(state')
  BY StoredState
<1>5. \/ pc' = "arm" /\ bus # "off"
      \/ pc' = "idle" /\ bus = "off" /\ line.armed = None
  BY <1>1, <1>2, Zenon DEF FoundInv, HostInv
<1>6. DataInv'
  BY <1>1, <1>2, Zenon DEF DataInv
<1>7. PlaceInv'
  BY <1>1, <1>2, <1>3, <1>4, <1>5, Zenon DEF PlaceInv, Receiving, Enabling
<1>8. RingInv'
  <2>1. Taken' = 0
    BY <1>5, Zenon DEF Taken
  <2>2. Len(unread) = 0 /\ 0 + 0 = 0 /\ 0 <= Size
    BY <1>3, UsbCdcAssumption
  <2>3. Straight(rx, Len(unread))
    BY <1>3, <2>2, Zenon DEF Straight
  <2>4. Multiple(0)
    BY UsbCdcAssumption DEF Multiple
  <2>5. Holds(rx, rx_data, unread)
    BY <1>3 DEF Holds
  <2> QED
    BY <1>2, <1>3, <2>1, <2>2, <2>3, <2>4, <2>5, Zenon DEF RingInv
<1>9. ArmedInv'
  BY <1>2, <1>5, Zenon DEF ArmedInv
<1>10. ReceiveInv'
  BY <1>5, Zenon DEF ReceiveInv
<1> QED
  BY <1>6, <1>7, <1>8, <1>9, <1>10, Zenon DEF QueueInv

\* How it ends.
LEMMA QueueDisable ==
  ASSUME RoomyInv, Disable
  PROVE  QueueInv'
<1>1. /\ BaseInv /\ HostInv /\ DataInv /\ PlaceInv /\ RingInv /\ ArmedInv /\ ReceiveInv
  BY Zenon DEF RoomyInv, QueueInv
<1>2. /\ rx_data' = rx_data /\ line' = line /\ rcv' = rcv /\ scene' = scene /\ bus' = bus
      /\ issued' = issued /\ events' = events /\ pc = "end" /\ pc' = "idle"
  BY Zenon DEF Disable, At, Goto
<1>3. CASE UNCHANGED <<state, rx, unread>>
  <2>1. /\ line'.armed \in {line.armed, None} /\ line'.buffer = line.buffer
        /\ events' \in 0..scene.events
    BY <1>1, <1>2, Zenon DEF DataInv
  <2>2. Plain(pc') /\ pc # "arm" /\ pc # "sub"
    BY <1>2, Zenon DEF Plain
  <2> QED
    BY <1>1, <1>2, <1>3, <2>1, <2>2, QueueSame, Zenon DEF RoomyInv
<1>4. CASE /\ state' = INIT /\ unread' = <<>>
           /\ rx' = [rx EXCEPT !.read = 0, !.write = 0, !.wrap = 0, !.count = 0]
  <2>1. rx'.read = 0 /\ rx'.write = 0 /\ rx'.wrap = 0 /\ rx'.count = 0
    BY <1>1, <1>4 DEF BaseInv, Rings
  <2>2. ~Open(state')
    BY <1>4 DEF Open, INIT
  <2>3. /\ 0 \in 0..Size /\ 0 \in 0..Size-Packet
    BY UsbCdcAssumption
  <2>4. unread' \in Seq(Nat) /\ Len(unread') = 0 /\ Len(unread') <= scene'.backlog
    BY <1>1, <1>2, <1>4, SceneFacts
  <2>5. DataInv'
    BY <1>1, <1>2, <2>1, <2>3, <2>4, Zenon DEF DataInv
  <2>6. PlaceInv'
    BY <1>1, <1>2, <1>4, <2>2, Zenon DEF PlaceInv, Receiving, Enabling
  <2>7. RingInv' /\ ArmedInv'
    BY <2>2, Zenon DEF RingInv, ArmedInv
  <2>8. ReceiveInv'
    BY <1>2, Zenon DEF ReceiveInv
  <2> QED
    BY <2>5, <2>6, <2>7, <2>8, Zenon DEF QueueInv
<1> QED
  BY <1>3, <1>4, Zenon DEF Disable

\* Enable and receive give the endpoint the place behind the last byte.
LEMMA QueueArm ==
  ASSUME RoomyInv, EnableArm \/ (ReceiveTest /\ HasRoom(rx) /\ pc' = "busy")
  PROVE  QueueInv'
<1>1. /\ BaseInv /\ HostInv /\ DataInv /\ PlaceInv /\ RingInv /\ ArmedInv /\ ReceiveInv
  BY Zenon DEF RoomyInv, QueueInv
<1>2. /\ rx' = rx /\ rx_data' = rx_data /\ rcv' = rcv /\ scene' = scene /\ bus' = bus
      /\ issued' = issued /\ events' = events /\ state' = state /\ unread' = unread
      /\ \/ pc = "arm" /\ pc' = "armed"
         \/ pc = "test" /\ pc' = "busy" /\ HasRoom(rx)
      /\ line' = line \/ line' = Armed(rx.write)
  BY Zenon DEF EnableArm, ReceiveTest, At, Goto, hist, input
<1>3. Open(state) /\ bus # "off"
  BY <1>1, <1>2, Zenon DEF PlaceInv, Receiving, Enabling
<1>4. line' = Armed(rx.write)
  <2>1. dev.usbd = TRUE
    BY <1>1, <1>3, Zenon DEF HostInv
  <2> QED
    BY <1>2, <2>1, Zenon DEF EnableArm, ReceiveTest, At, Goto
<1>5. line'.armed = rx.write /\ line'.buffer = rx.write
  BY <1>1, <1>4 DEF BaseInv, Armed, Lines
<1>6. /\ rx.write \in 0..Size-Packet /\ rx.wrap \in 0..Size /\ rx.count \in 0..Size
      /\ rx.read \in 0..Size /\ Len(unread) \in Nat
  BY <1>1 DEF DataInv
<1>7. rx.count + Packet <= rx.wrap
  <2>1. CASE pc = "test"
    <3>1. HasRoom(rx)
      BY <1>2, <2>1, Zenon
    <3>2. rx.count <= rx.wrap
      BY <1>1, <1>3, Zenon DEF RingInv
    <3> QED
      BY <1>6, <3>1, <3>2, UsbCdcAssumption DEF HasRoom
  <2>2. CASE pc = "arm"
    <3>1. rx.count = 0 /\ unread = <<>>
      BY <1>1, <2>2, Zenon DEF PlaceInv, Enabling
    <3>2. Straight(rx, Len(unread)) \/ Folded(rx, Len(unread))
      BY <1>1, <1>3, Zenon DEF RingInv
    <3>3. Len(unread) = 0
      BY <3>1
    <3>4. rx.wrap = Size
      BY <1>6, <3>2, <3>3 DEF Straight, Folded
    <3> QED
      BY <3>1, <3>4, UsbCdcAssumption
  <2> QED
    BY <1>2, <2>1, <2>2
<1>8. DataInv'
  <2>1. rx.write \in Null..Size-1
    BY <1>6, UsbCdcAssumption DEF Null
  <2> QED
    BY <1>1, <1>2, <1>5, <2>1, Zenon DEF DataInv
<1>9. PlaceInv'
  BY <1>1, <1>2, <1>3, Zenon DEF PlaceInv, Receiving, Enabling
<1>10. RingInv'
  BY <1>1, <1>2, Zenon DEF RingInv, Taken
<1>11. ArmedInv'
  BY <1>2, <1>5, <1>7, Zenon DEF ArmedInv
<1>12. ReceiveInv'
  BY <1>2, Zenon DEF ReceiveInv
<1> QED
  BY <1>8, <1>9, <1>10, <1>11, <1>12, Zenon DEF QueueInv

\* receive notes how much it will take, and loads where the ring wraps and begins.
LEMMA QueueBegin ==
  ASSUME RoomyInv, Roomy, ReceiveLoad \/ \E n \in scene.reads : Read(n)
  PROVE  QueueInv'
<1>1. /\ BaseInv /\ HostInv /\ DataInv /\ PlaceInv /\ RingInv /\ ArmedInv /\ ReceiveInv
  BY Zenon DEF RoomyInv, QueueInv
<1>2. /\ rx' = rx /\ rx_data' = rx_data /\ scene' = scene /\ bus' = bus /\ line' = line
      /\ issued' = issued /\ events' = events /\ state' = state /\ unread' = unread
  BY Zenon DEF ReceiveLoad, Read, hist, input
<1>3. /\ rx.write \in 0..Size-Packet /\ rx.wrap \in 0..Size /\ rx.count \in 0..Size
      /\ rx.read \in 0..Size /\ rcv.count \in 0..Size /\ rcv.wrap \in 0..Size
      /\ rcv.read \in 0..Size
  BY <1>1, Zenon DEF DataInv
<1>4. CASE ReceiveLoad
  <2>1. /\ pc = "load" /\ pc' = "copy" /\ rcv' = [rcv EXCEPT !.wrap = rx.wrap, !.read = rx.read]
    BY <1>4, Zenon DEF ReceiveLoad, At, Goto
  <2>2. rcv'.count = rcv.count /\ rcv'.wrap = rx.wrap /\ rcv'.read = rx.read
    BY <1>1, <2>1 DEF BaseInv, Locals
  <2>3. DataInv'
    BY <1>1, <1>2, <1>3, <2>2, Zenon DEF DataInv
  <2>4. PlaceInv'
    BY <1>1, <1>2, <2>1, Zenon DEF PlaceInv, Receiving, Enabling
  <2>5. RingInv'
    BY <1>1, <1>2, <2>1, Zenon DEF RingInv, Taken
  <2>6. ArmedInv'
    BY <1>1, <1>2, <2>1, Zenon DEF ArmedInv
  <2>7. ReceiveInv'
    BY <1>1, <1>2, <2>1, <2>2, Zenon DEF ReceiveInv
  <2> QED
    BY <2>3, <2>4, <2>5, <2>6, <2>7, Zenon DEF QueueInv
<1>5. CASE \E n \in scene.reads : Read(n)
  <2>1. PICK n \in scene.reads : Read(n)
    BY <1>5
  <2>2. pc = "idle" /\ dev.usbd
    <3>1. "closed" \notin Perils
      BY DEF Roomy
    <3> QED
      BY <2>1, <3>1, Zenon DEF Read, At
  <2>3. bus # "off"
    BY <1>1, <2>2, Zenon DEF HostInv
  <2>4. CASE UNCHANGED <<pc, rcv>>
    <3>1. DataInv'
      BY <1>1, <1>2, <2>4, Zenon DEF DataInv
    <3>2. PlaceInv'
      BY <1>1, <1>2, <2>4, Zenon DEF PlaceInv, Receiving, Enabling
    <3>3. RingInv'
      BY <1>1, <1>2, <2>2, <2>4, Zenon DEF RingInv, Taken
    <3>4. ArmedInv' /\ ReceiveInv'
      BY <1>1, <1>2, <2>4, Zenon DEF ArmedInv, ReceiveInv
    <3> QED
      BY <3>1, <3>2, <3>3, <3>4, Zenon DEF QueueInv
  <2>5. CASE /\ state >= READY /\ pc' = "load"
             /\ rcv' = [rcv EXCEPT !.count = IF n > rx.count THEN rx.count ELSE n]
    <3> DEFINE c == IF n > rx.count THEN rx.count ELSE n
    <3>1. Open(state)
      BY <1>1, <2>5 DEF BaseInv, Open, READY, INIT, RESET
    <3>2. c \in 0..Size /\ c <= rx.count
      <4>1. n \in Nat
        BY <1>1, SceneFacts
      <4>2. rx.count \in 0..Size /\ Size \in Nat
        BY <1>3, UsbCdcAssumption
      <4>3. CASE n > rx.count
        BY <4>2, <4>3
      <4>4. CASE ~(n > rx.count)
        BY <4>1, <4>2, <4>4
      <4> QED
        BY <4>3, <4>4
    <3>3. rcv' = [rcv EXCEPT !.count = c]
      BY <2>5
    <3> HIDE DEF c
    <3>4. rcv'.count = c /\ rcv'.wrap = rcv.wrap /\ rcv'.read = rcv.read
      BY <1>1, <3>3 DEF BaseInv, Locals
    <3>5. c <= Len(unread)
      <4>1. rx.count = Len(unread) + Taken /\ Taken = 0
        BY <1>1, <2>2, <3>1, Zenon DEF RingInv, Taken
      <4>2. Len(unread) \in Nat
        BY <1>1 DEF DataInv
      <4> QED
        BY <3>2, <4>1, <4>2
    <3>6. DataInv'
      BY <1>1, <1>2, <1>3, <3>2, <3>4, Zenon DEF DataInv
    <3>7. PlaceInv'
      BY <1>1, <1>2, <2>3, <2>5, <3>1, Zenon DEF PlaceInv, Receiving, Enabling
    <3>8. RingInv'
      BY <1>1, <1>2, <2>2, <2>5, Zenon DEF RingInv, Taken
    <3>9. ArmedInv'
      BY <1>1, <1>2, <2>2, <2>5, Zenon DEF ArmedInv
    <3>10. ReceiveInv'
      BY <1>2, <2>5, <3>4, <3>5, Zenon DEF ReceiveInv
    <3> QED
      BY <3>6, <3>7, <3>8, <3>9, <3>10, Zenon DEF QueueInv
  <2>6. ~(state < READY) => state >= READY
    BY <1>1 DEF BaseInv, READY, INIT, RESET
  <2> QED
    BY <2>1, <2>4, <2>5, <2>6, Zenon DEF Read, Goto
<1> QED
  BY <1>4, <1>5

\* Reading past the end of the folded part of a ring.
LEMMA PastTheFold ==
  ASSUME NEW r \in Nat, NEW p \in Nat, NEW n \in Nat, NEW c \in Nat, p <= r + c, c <= n
  PROVE  /\ r + c - p \in 0..r + n - p
         /\ \A i \in 1..n - c : /\ (r + c - p) + (i - 1) < r + n - p
                               /\ ~(r + ((c + i) - 1) < p)
  OBVIOUS

\* What is left of a sequence.
LEMMA RestFacts ==
  ASSUME NEW u \in Seq(Nat), NEW c \in 0..Len(u)
  PROVE  /\ Len(SubSeq(u, c + 1, Len(u))) = Len(u) - c
         /\ SubSeq(u, c + 1, Len(u)) \in Seq(Nat)
         /\ \A i \in 1..Len(u) - c :
               SubSeq(u, c + 1, Len(u))[i] = u[c + i] /\ c + i \in 1..Len(u)
<1>1. Len(u) \in Nat /\ c \in Nat /\ c <= Len(u)
  OBVIOUS
<1>2. /\ SubSeq(u, c + 1, Len(u)) \in Seq(Nat)
      /\ Len(SubSeq(u, c + 1, Len(u))) = IF c + 1 <= Len(u) THEN Len(u) - (c + 1) + 1 ELSE 0
      /\ \A i \in 1..Len(u) - (c + 1) + 1 : SubSeq(u, c + 1, Len(u))[i] = u[c + 1 + i - 1]
  BY <1>1, SubSeqProperties
<1> QED
  BY <1>1, <1>2

\* receive takes the oldest bytes out of the ring, but not out of its count yet.
LEMMA QueueCopy ==
  ASSUME RoomyInv, ReceiveCopy
  PROVE  QueueInv'
<1> DEFINE c == rcv.count
           n == Len(unread)
           from == Slot(rx.read, rx.wrap, c)
           to == IF rx.read + c >= rx.wrap THEN Size ELSE rx.wrap
<1>1. /\ BaseInv /\ HostInv /\ DataInv /\ PlaceInv /\ RingInv /\ ArmedInv /\ ReceiveInv
  BY Zenon DEF RoomyInv, QueueInv
<1>2. /\ rx_data' = rx_data /\ rcv' = rcv /\ scene' = scene /\ bus' = bus /\ line' = line
      /\ issued' = issued /\ events' = events /\ state' = state
      /\ unread' = SubSeq(unread, c + 1, n) /\ pc = "copy" /\ pc' = "sub"
  BY Zenon DEF ReceiveCopy, At, Goto
<1>3. rcv.wrap = rx.wrap /\ rcv.read = rx.read /\ c <= n
  BY <1>1, <1>2, Zenon DEF ReceiveInv
<1>4. rx' = [rx EXCEPT !.read = from, !.wrap = to, !.event = TRUE]
  BY <1>3, Zenon DEF ReceiveCopy
<1>5. /\ rx.read \in 0..Size /\ rx.write \in 0..Size-Packet /\ rx.wrap \in 0..Size
      /\ rx.count \in 0..Size /\ c \in 0..Size /\ n \in Nat /\ unread \in Seq(Nat)
      /\ n <= scene.backlog /\ scene.backlog \in Nat
  <2>1. scene.backlog \in Nat
    BY <1>1, SceneFacts
  <2>2. unread \in Seq(Nat)
    BY <1>1, Zenon DEF DataInv
  <2>3. n \in Nat
    BY <2>2
  <2> QED
    BY <1>1, <2>1, <2>2, <2>3, Zenon DEF DataInv
<1>6. Open(state)
  BY <1>1, <1>2, Zenon DEF PlaceInv, Receiving
<1>7. /\ rx.count = n /\ rx.count <= rx.wrap
      /\ Straight(rx, n) \/ Folded(rx, n)
      /\ Whole(scene) => rx.wrap = Size /\ Multiple(rx.write)
      /\ Holds(rx, rx_data, unread)
  <2>1. Taken = 0
    BY <1>2, Zenon DEF Taken
  <2>2. rx.count = n + Taken
    BY <1>1, <1>6, Zenon DEF RingInv
  <2>3. rx.count = n
    BY <1>5, <2>1, <2>2
  <2> QED
    BY <1>1, <1>6, <2>3, Zenon DEF RingInv
<1>8. /\ Len(unread') = n - c /\ unread' \in Seq(Nat)
      /\ \A i \in 1..n - c : unread'[i] = unread[c + i] /\ c + i \in 1..n
  <2>1. c \in 0..n
    BY <1>3, <1>5
  <2> QED
    BY <1>2, <1>5, <2>1, RestFacts, Zenon
<1>9. \/ /\ rx.wrap = Size /\ rx.read + n = rx.write /\ rx.read + c < rx.wrap
         /\ from = rx.read + c /\ to = rx.wrap
      \/ /\ Folded(rx, n) /\ rx.read + c < rx.wrap /\ from = rx.read + c /\ to = rx.wrap
      \/ /\ Folded(rx, n) /\ rx.read + c >= rx.wrap /\ from = rx.read + c - rx.wrap /\ to = Size
  BY <1>3, <1>5, <1>7, UsbCdcAssumption DEF Straight, Slot, Folded
<1>10. rx'.write = rx.write /\ rx'.count = rx.count /\ rx'.read = from /\ rx'.wrap = to
  <2> HIDE DEF from, to
  <2> QED
    BY <1>1, <1>4 DEF BaseInv, Rings
<1> HIDE DEF c, n, from, to
<1>11. /\ from \in 0..Size /\ to \in 0..Size /\ rx.wrap <= to
       /\ Straight(rx', n - c) \/ Folded(rx', n - c)
  <2>1. Size \in Nat /\ Packet \in 1..Size /\ c \in Nat /\ c <= n /\ n \in Nat
    BY <1>3, <1>5, UsbCdcAssumption
  <2>2. CASE /\ rx.wrap = Size /\ rx.read + n = rx.write /\ rx.read + c < rx.wrap
             /\ from = rx.read + c /\ to = rx.wrap
    <3>1. rx.read \in 0..Size /\ rx.write \in Nat /\ rx.wrap = Size
      BY <1>5, <2>1, <2>2
    <3>2. from \in 0..Size /\ to \in 0..Size /\ rx.wrap <= to /\ from + (n - c) = rx.write
      BY <2>1, <2>2, <3>1
    <3>3. Straight(rx', n - c)
      BY <1>10, <2>2, <3>2, Zenon DEF Straight
    <3> QED
      BY <3>2, <3>3
  <2>3. CASE /\ Folded(rx, n) /\ rx.read + c < rx.wrap /\ from = rx.read + c /\ to = rx.wrap
    <3>1. /\ rx.read < rx.wrap /\ rx.write <= rx.read /\ rx.read + n = rx.wrap + rx.write
          /\ Size - Packet < rx.wrap
      BY <2>3 DEF Folded
    <3>2. from \in 0..Size /\ to \in 0..Size /\ rx.wrap <= to
      <4>1. rx.read \in 0..Size /\ rx.wrap \in 0..Size /\ from = rx.read + c /\ to = rx.wrap
            /\ rx.read + c < rx.wrap
        BY <1>5, <2>3, Zenon
      <4> QED
        BY <2>1, <4>1
    <3>3. /\ from < to /\ rx.write <= from /\ from + (n - c) = to + rx.write
          /\ Size - Packet < to
      BY <1>5, <2>1, <2>3, <3>1
    <3> QED
      BY <1>10, <3>2, <3>3 DEF Folded
  <2>4. CASE /\ Folded(rx, n) /\ rx.read + c >= rx.wrap /\ from = rx.read + c - rx.wrap
             /\ to = Size
    <3>1. /\ rx.read < rx.wrap /\ rx.write <= rx.read /\ rx.read + n = rx.wrap + rx.write
          /\ Size - Packet < rx.wrap
      BY <2>4 DEF Folded
    <3>2. from \in 0..rx.write /\ from + (n - c) = rx.write
      <4>0. from = rx.read + c - rx.wrap
        BY <2>4
      <4>1. rx.read \in Nat /\ rx.write \in Nat /\ rx.wrap \in Nat
        BY <1>5, UsbCdcAssumption
      <4>2. rx.wrap <= rx.read + c /\ c <= n /\ c \in Nat /\ n \in Nat
        BY <2>1, <2>4, <4>1
      <4>3. rx.read + c - rx.wrap \in 0..rx.read + n - rx.wrap
        BY <4>1, <4>2, PastTheFold, Zenon
      <4>4. rx.read + n - rx.wrap = rx.write
        BY <3>1, <4>1, <4>2
      <4>5. (rx.read + c - rx.wrap) + (n - c) = rx.read + n - rx.wrap
        BY <4>1, <4>2
      <4> QED
        BY <4>0, <4>3, <4>4, <4>5
    <3>3. from \in 0..Size /\ to \in 0..Size /\ rx.wrap <= to
      BY <1>5, <2>1, <2>4, <3>2
    <3> QED
      BY <1>10, <2>4, <3>2, <3>3, Zenon DEF Straight
  <2> QED
    BY <1>9, <2>2, <2>3, <2>4
<1>13. Holds(rx', rx_data', unread')
  <2> SUFFICES ASSUME NEW i \in 1..n - c
               PROVE  rx_data[Slot(from, to, i - 1)] = unread[c + i]
    BY <1>2, <1>8, <1>10, Zenon DEF Holds
  <2>1. rx_data[Slot(rx.read, rx.wrap, (c + i) - 1)] = unread[c + i]
    BY <1>7, <1>8, Zenon DEF Holds, n
  <2>2. Slot(from, to, i - 1) = Slot(rx.read, rx.wrap, (c + i) - 1)
    <3>1. c \in Nat /\ i \in Nat /\ i >= 1 /\ i <= n - c /\ rx.read \in Nat /\ rx.wrap \in Nat
          /\ Size \in Nat /\ n \in Nat /\ rx.write \in 0..Size /\ rx.wrap <= Size
      BY <1>3, <1>5, UsbCdcAssumption
    <3>2. CASE from = rx.read + c /\ to = rx.wrap
      BY <3>1, <3>2 DEF Slot
    <3>3. CASE /\ Folded(rx, n) /\ rx.read + c >= rx.wrap /\ from = rx.read + c - rx.wrap
               /\ to = Size
      <4>1. rx.wrap <= rx.read + c /\ c <= n
        BY <1>3, <3>1, <3>3
      <4>2. /\ (rx.read + c - rx.wrap) + (i - 1) < rx.read + n - rx.wrap
            /\ ~(rx.read + ((c + i) - 1) < rx.wrap)
        BY <3>1, <4>1, PastTheFold, Zenon
      <4>3. rx.read + n - rx.wrap = rx.write
        BY <3>1, <3>3 DEF Folded
      <4>4. (rx.read + c - rx.wrap) + (i - 1) < Size
        BY <3>1, <4>2, <4>3
      <4>5. from = rx.read + c - rx.wrap
        BY <3>3
      <4>6. (rx.read + c - rx.wrap) + (i - 1) = rx.read + ((c + i) - 1) - rx.wrap
        BY <3>1
      <4>7. Slot(from, Size, i - 1) = from + (i - 1)
        BY <4>4, <4>5, Zenon DEF Slot
      <4>8. Slot(rx.read, rx.wrap, (c + i) - 1) = rx.read + ((c + i) - 1) - rx.wrap
        BY <4>2, Zenon DEF Slot
      <4> QED
        BY <3>3, <4>5, <4>6, <4>7, <4>8
    <3> QED
      BY <1>9, <3>2, <3>3
  <2> QED
    BY <2>1, <2>2
<1>14. RingInv'
  <2>1. Taken' = c
    BY <1>2, Zenon DEF Taken, c
  <2>2. rx'.count = Len(unread') + Taken' /\ rx'.count <= rx'.wrap
    BY <1>3, <1>5, <1>7, <1>8, <1>10, <1>11, <2>1
  <2>3. Whole(scene) => rx'.wrap = Size
    BY <1>5, <1>7, <1>10, <1>11
  <2>4. Straight(rx', Len(unread')) \/ Folded(rx', Len(unread'))
    BY <1>8, <1>11
  <2> QED
    BY <1>2, <1>7, <1>10, <1>13, <2>2, <2>3, <2>4, Zenon DEF RingInv
<1>15. DataInv'
  <2>1. Len(unread') <= scene'.backlog
    BY <1>2, <1>3, <1>5, <1>8
  <2> QED
    BY <1>1, <1>2, <1>5, <1>8, <1>10, <1>11, <2>1, Zenon DEF DataInv
<1>16. PlaceInv'
  <2>1. events # 0 /\ bus # "off"
    BY <1>1, <1>2, Zenon DEF PlaceInv, Receiving
  <2> QED
    BY <1>2, <1>6, <2>1, Zenon DEF PlaceInv, Receiving, Enabling
<1>17. ArmedInv'
  <2>1. line.armed # None => line.armed = rx.write /\ rx.count + Packet <= rx.wrap
    BY <1>1, <1>2, <1>6, Zenon DEF ArmedInv
  <2>2. rx.count + Packet <= rx.wrap => rx'.count + Packet <= rx'.wrap
    BY <1>5, <1>10, <1>11, UsbCdcAssumption
  <2> QED
    BY <1>2, <1>10, <2>1, <2>2, Zenon DEF ArmedInv
<1>18. ReceiveInv'
  BY <1>2, Zenon DEF ReceiveInv
<1> QED
  BY <1>14, <1>15, <1>16, <1>17, <1>18, Zenon DEF QueueInv

\* Then it takes them out of the count.
LEMMA QueueSub ==
  ASSUME RoomyInv, ReceiveSub
  PROVE  QueueInv'
<1>1. /\ BaseInv /\ HostInv /\ DataInv /\ PlaceInv /\ RingInv /\ ArmedInv /\ ReceiveInv
  BY Zenon DEF RoomyInv, QueueInv
<1>2. /\ rx_data' = rx_data /\ rcv' = rcv /\ scene' = scene /\ bus' = bus /\ line' = line
      /\ issued' = issued /\ events' = events /\ state' = state /\ unread' = unread
      /\ pc = "sub" /\ pc' = "test"
  BY Zenon DEF ReceiveSub, At, Goto, hist
<1>3. /\ rx'.count = rx.count - rcv.count /\ rx'.read = rx.read /\ rx'.write = rx.write
      /\ rx'.wrap = rx.wrap
  BY <1>1 DEF ReceiveSub, BaseInv, Rings
<1>4. /\ rx.wrap \in 0..Size /\ rx.count \in 0..Size /\ rcv.count \in 0..Size
      /\ Len(unread) \in Nat
  BY <1>1 DEF DataInv
<1>5. Open(state)
  BY <1>1, <1>2, Zenon DEF PlaceInv, Receiving
<1>6. /\ rx.count = Len(unread) + rcv.count /\ rx.count <= rx.wrap
      /\ Straight(rx, Len(unread)) \/ Folded(rx, Len(unread))
      /\ Whole(scene) => rx.wrap = Size /\ Multiple(rx.write)
      /\ Holds(rx, rx_data, unread)
  <2>1. Taken = rcv.count
    BY <1>2, Zenon DEF Taken
  <2>2. rx.count = Len(unread) + Taken
    BY <1>1, <1>5, Zenon DEF RingInv
  <2>3. rx.count = Len(unread) + rcv.count
    BY <2>1, <2>2
  <2> QED
    BY <1>1, <1>5, <2>3, Zenon DEF RingInv
<1>7. rx'.count = Len(unread) /\ rx'.count <= rx'.wrap /\ rx'.count \in 0..Size
  <2>1. rx.count = Len(unread) + rcv.count /\ rx.count <= rx.wrap
    BY <1>6
  <2>2. rx.count - rcv.count = Len(unread)
    BY <1>4, <2>1
  <2>3. Len(unread) <= rx.wrap /\ Len(unread) \in 0..Size
    BY <1>4, <2>1, UsbCdcAssumption
  <2> QED
    BY <1>3, <2>2, <2>3, Zenon
<1>8. DataInv'
  BY <1>1, <1>2, <1>3, <1>7, Zenon DEF DataInv
<1>9. PlaceInv'
  <2>1. events # 0 /\ bus # "off"
    BY <1>1, <1>2, Zenon DEF PlaceInv, Receiving
  <2> QED
    BY <1>2, <1>5, <2>1, Zenon DEF PlaceInv, Receiving, Enabling
<1>10. RingInv'
  <2>1. Taken' = 0
    BY <1>2, Zenon DEF Taken
  <2>2. rx'.count = Len(unread') + Taken'
    BY <1>2, <1>4, <1>7, <2>1
  <2>3. Straight(rx', Len(unread')) \/ Folded(rx', Len(unread'))
    BY <1>2, <1>3, <1>6, Zenon DEF Straight, Folded
  <2>4. Holds(rx', rx_data', unread')
    BY <1>2, <1>3, <1>6, Zenon DEF Holds
  <2> QED
    BY <1>2, <1>3, <1>6, <1>7, <2>2, <2>3, <2>4, Zenon DEF RingInv
<1>11. ArmedInv'
  <2>1. line.armed # None => line.armed = rx.write /\ rx.count + Packet <= rx.wrap
    BY <1>1, <1>2, <1>5, Zenon DEF ArmedInv
  <2>2. rx.count + Packet <= rx.wrap => rx'.count + Packet <= rx'.wrap
    BY <1>3, <1>4, UsbCdcAssumption
  <2> QED
    BY <1>2, <1>3, <2>1, <2>2, Zenon DEF ArmedInv
<1>12. ReceiveInv'
  BY <1>2, Zenon DEF ReceiveInv
<1> QED
  BY <1>8, <1>9, <1>10, <1>11, <1>12, Zenon DEF QueueInv

\* Bytes that are appended.
LEMMA AppendFacts ==
  ASSUME NEW u \in Seq(Nat), NEW n \in Nat, NEW k \in Nat
  PROVE  /\ Len(u \o [i \in 1..n |-> k + i]) = Len(u) + n
         /\ u \o [i \in 1..n |-> k + i] \in Seq(Nat)
         /\ \A i \in 1..Len(u) : (u \o [j \in 1..n |-> k + j])[i] = u[i]
         /\ \A i \in 1..n : (u \o [j \in 1..n |-> k + j])[Len(u) + i] = k + i
<1> DEFINE more == [i \in 1..n |-> k + i]
<1>1. more \in Seq(Nat) /\ Len(more) = n /\ \A i \in 1..n : more[i] = k + i
  OBVIOUS
<1> HIDE DEF more
<1>2. Len(u) \in Nat /\ u \o more \in Seq(Nat) /\ Len(u \o more) = Len(u) + Len(more)
  <2>1. u \o more \in Seq(Nat)
    BY <1>1, ConcatProperties, Zenon
  <2>2. Len(u \o more) = Len(u) + Len(more)
    BY <1>1
  <2> QED
    BY <2>1, <2>2
<1>3. \A i \in 1..Len(u) : (u \o more)[i] = u[i]
  BY <1>1
<1>4. \A i \in 1..n : (u \o more)[Len(u) + i] = more[i]
  BY <1>1, <1>2
<1> QED
  BY <1>1, <1>2, <1>3, <1>4 DEF more

\* Behind the write pointer of a folded ring there is room for what the ring has room for.
LEMMA RoomInTheFold ==
  ASSUME NEW r \in Nat, NEW p \in Nat, NEW l \in Nat, NEW n \in Nat, NEW k \in Nat,
         NEW z \in Nat, r < p, l + n + k <= z
  PROVE  (r + l - p) + n + k <= z
  OBVIOUS

\* A packet goes behind the write pointer, which wraps before less than a packet is left.
LEMMA ReadyShape ==
  ASSUME RoomyInv, Roomy, NEW n \in scene.lengths, Open(state), line.armed # None,
         ~Enabling, Len(unread) + n <= scene.backlog, Receiving => scene.anytime
  PROVE  LET len == Len(unread)
         IN  /\ line.armed = rx.write /\ rx.count = len + Taken /\ Taken \in 0..Size
             /\ rx.count + Packet <= rx.wrap
             /\ \/ /\ rx.wrap = Size /\ rx.read + len = rx.write
                   /\ rx.write + n + Packet <= Size
                \/ /\ rx.wrap = Size /\ rx.read + len = rx.write
                   /\ rx.write + n + Packet > Size /\ 0 < n
                   /\ Whole(scene) => rx.write + n = Size
                   /\ Taken # 0 => rx.write + n = Size
                \/ /\ Folded(rx, len) /\ rx.write + n + Packet <= Size
                   /\ rx.write + n <= rx.read
<1> DEFINE len == Len(unread)
<1>1. /\ BaseInv /\ HostInv /\ DataInv /\ PlaceInv /\ RingInv /\ ArmedInv /\ ReceiveInv
  BY Zenon DEF RoomyInv, QueueInv
<1>2. /\ rx.read \in 0..Size /\ rx.write \in 0..Size-Packet /\ rx.wrap \in 0..Size
      /\ rx.count \in 0..Size /\ len \in Nat /\ Taken \in 0..Size
      /\ Size \in Nat /\ Packet \in 1..Size
  BY <1>1, UsbCdcAssumption DEF DataInv, Taken
<1>3. n \in 0..Packet /\ scene.backlog \in Nat /\ (Whole(scene) => n = 0 \/ n = Packet)
  BY <1>1, SceneFacts DEF Whole
<1>4. line.armed = rx.write /\ rx.count + Packet <= rx.wrap
  BY <1>1, Zenon DEF ArmedInv, Enabling
<1>5. /\ rx.count = len + Taken
      /\ Straight(rx, len) \/ Folded(rx, len)
      /\ Whole(scene) => rx.wrap = Size /\ Multiple(rx.write)
  BY <1>1, Zenon DEF RingInv
<1>6. Whole(scene) \/ (Taken = 0 /\ scene.backlog + Packet <= Size)
  <2>1. Whole(scene) \/ (~scene.anytime /\ scene.backlog + Packet <= Size)
    BY <1>1, SceneFacts, Zenon DEF Roomy
  <2>2. pc = "sub" => scene.anytime
    BY Zenon DEF Receiving
  <2> QED
    BY <2>1, <2>2, Zenon DEF Taken
<1>7. Whole(scene) /\ rx.write < Size =>
         /\ rx.write + Packet <= Size
         /\ Size < rx.write + 2 * Packet => Size = rx.write + Packet
  <2>1. rx.write \in Nat /\ Size \in Nat
    BY <1>2
  <2>2. Whole(scene) => Multiple(rx.write) /\ Multiple(Size)
    BY <1>5, Zenon DEF Whole
  <2> QED
    BY <2>1, <2>2, Multiples
<1>8. rx.write < Size
  BY <1>2
<1> HIDE DEF len
<1>9. CASE Straight(rx, len) /\ rx.write + n + Packet <= Size
  BY <1>2, <1>4, <1>5, <1>9, Zenon DEF Straight, len
<1>10. CASE Straight(rx, len) /\ rx.write + n + Packet > Size
  <2>1. 0 < n
    BY <1>2, <1>3, <1>10
  <2>2. ASSUME Whole(scene) PROVE rx.write + n = Size
    <3>1. n = Packet
      BY <1>3, <2>1, <2>2
    <3>2. Size < rx.write + 2 * Packet
      <4>1. rx.write \in Nat /\ Size \in Nat /\ Packet \in Nat /\ rx.write + n + Packet > Size
        BY <1>2, <1>10
      <4> QED
        BY <3>1, <4>1
    <3> QED
      BY <1>7, <1>8, <2>2, <3>1, <3>2
  <2>3. Taken # 0 => rx.write + n = Size
    BY <1>6, <2>2, Zenon
  <2>4. rx.wrap = Size /\ rx.read + len = rx.write
    BY <1>10, Zenon DEF Straight
  <2> QED
    BY <1>2, <1>4, <1>5, <1>10, <2>1, <2>2, <2>3, <2>4, Zenon DEF len
<1>11. CASE Folded(rx, len)
  <2>1. /\ rx.read < rx.wrap /\ rx.write <= rx.read /\ rx.read + len = rx.wrap + rx.write
    BY <1>11, Zenon DEF Folded
  <2>2. rx.write + Packet <= rx.read
    <3>1. /\ rx.read \in Nat /\ rx.write \in Nat /\ rx.wrap \in Nat /\ len \in Nat
          /\ Taken \in Nat /\ Packet \in Nat
      BY <1>2
    <3>2. (len + Taken) + Packet <= rx.wrap /\ rx.read + len = rx.wrap + rx.write
      BY <1>4, <1>5, <2>1, Zenon
    <3> QED
      BY <3>1, <3>2
  <2>3. rx.write + n <= rx.read
    BY <1>2, <1>3, <2>2
  <2>4. rx.write + n + Packet <= Size
    <3>1. CASE Whole(scene)
      <4>1. CASE n = 0
        BY <1>2, <4>1
      <4>2. CASE n = Packet
        <5>1. /\ rx.read \in Nat /\ rx.write \in Nat /\ rx.wrap \in Nat /\ rx.wrap <= Size
              /\ Size \in Nat /\ Packet \in Nat
          BY <1>2
        <5>2. rx.write + Packet < Size
          BY <2>1, <2>2, <5>1
        <5>3. Size < rx.write + 2 * Packet => Size = rx.write + Packet
          BY <1>7, <1>8, <3>1, Zenon
        <5>4. ~(Size < rx.write + 2 * Packet)
          BY <5>1, <5>2, <5>3
        <5> QED
          BY <4>2, <5>1, <5>4
      <4> QED
        BY <1>3, <3>1, <4>1, <4>2, Zenon
    <3>2. CASE scene.backlog + Packet <= Size
      <4>1. len + n <= scene.backlog /\ scene.backlog \in Nat /\ n \in Nat
        BY <1>3 DEF len
      <4>2. len + n + Packet <= Size
        BY <1>2, <3>2, <4>1
      <4>3. /\ rx.read \in Nat /\ rx.wrap \in Nat /\ len \in Nat /\ Size \in Nat
            /\ Packet \in Nat /\ rx.read < rx.wrap
        BY <1>2, <2>1
      <4>4. (rx.read + len - rx.wrap) + n + Packet <= Size
        BY <4>1, <4>2, <4>3, RoomInTheFold, Zenon
      <4>5. rx.write = rx.read + len - rx.wrap
        <5>1. rx.write \in Nat /\ rx.read + len = rx.wrap + rx.write
          BY <1>2, <2>1
        <5> QED
          BY <4>3, <5>1
      <4> QED
        BY <4>4, <4>5, Zenon
    <3> QED
      BY <1>6, <3>1, <3>2
  <2> QED
    BY <1>2, <1>4, <1>5, <1>11, <2>3, <2>4, Zenon DEF len
<1>12. rx.write + n + Packet <= Size \/ rx.write + n + Packet > Size
  BY <1>2, <1>3
<1> QED
  BY <1>5, <1>9, <1>10, <1>11, <1>12, Zenon

\* A packet comes into the ring.
LEMMA QueueReady ==
  ASSUME RoomyInv, Roomy, NEW n \in scene.lengths, RxReady(n)
  PROVE  QueueInv'
<1> DEFINE next == Advance(rx, n)
           more == Open(state) /\ state # RESET /\ HasRoom(next)
           tell == Open(state) /\ n > 0 /\ rx.event
           new == [i \in 1..n |-> issued + i]
<1>1. /\ BaseInv /\ HostInv /\ DataInv /\ PlaceInv /\ RingInv /\ ArmedInv /\ ReceiveInv
  BY Zenon DEF RoomyInv, QueueInv
<1>2. /\ state' = state /\ bus' = bus /\ pc' = pc /\ rcv' = rcv /\ events' = events
      /\ scene' = scene /\ issued' = issued + n
      /\ bus = "on" /\ line.armed # None
      /\ issued + n <= scene.bytes /\ Len(unread) + n <= scene.backlog
      /\ (Receiving => scene.anytime)
  BY Zenon DEF RxReady
<1>3. ~Enabling /\ line.armed # Null
  <2>1. "early" \notin Perils
    BY DEF Roomy
  <2> QED
    BY <2>1, Zenon DEF RxReady
<1>4. n \in 0..Packet /\ scene.backlog \in Nat /\ scene.bytes \in Nat
  BY <1>1, SceneFacts
<1>5. /\ rx.read \in 0..Size /\ rx.write \in 0..Size-Packet /\ rx.wrap \in 0..Size
      /\ rx.count \in 0..Size /\ Size \in Nat /\ Packet \in 1..Size
      /\ line.armed \in Null..Size-1 /\ issued \in 0..scene.bytes /\ unread \in Seq(Nat)
      /\ rx_data \in [0..Size-1 -> 0..scene.bytes]
  BY <1>1, UsbCdcAssumption DEF DataInv
<1>6. /\ rx_data' = [i \in 0..Size-1 |->
            IF line.armed >= 0 /\ i \in line.armed..line.armed + n - 1
            THEN issued + 1 + i - line.armed ELSE rx_data[i]]
      /\ rx' = IF Open(state) THEN [next EXCEPT !.event = @ /\ ~tell] ELSE rx
      /\ unread' = IF Open(state) THEN unread \o new ELSE unread
      /\ line' = IF more THEN Armed(next.write) ELSE [line EXCEPT !.armed = None]
  BY Zenon DEF RxReady
<1>7. line.armed \in 0..Size-1
  <2>1. /\ line.armed \in Null..Size-1 /\ line.armed # None /\ line.armed # Null
        /\ Size \in Nat
    BY <1>2, <1>3, <1>5
  <2> QED
    BY <2>1 DEF None, Null
<1>8. /\ rx_data' \in [0..Size-1 -> 0..scene.bytes]
      /\ \A i \in 0..Size-1 :
            rx_data'[i] = IF i \in line.armed..line.armed + n - 1
                          THEN issued + 1 + i - line.armed ELSE rx_data[i]
  <2> DEFINE at == line.armed
             byte(i) == IF at >= 0 /\ i \in at..at + n - 1
                        THEN issued + 1 + i - at ELSE rx_data[i]
  <2>1. at \in Nat /\ n \in Nat /\ issued \in Nat /\ issued + n <= scene.bytes
        /\ scene.bytes \in Nat /\ at >= 0
    BY <1>2, <1>4, <1>5, <1>7
  <2>2. \A i \in 0..Size-1 : i \in at..at + n - 1 => issued + 1 + i - at \in 0..scene.bytes
    BY <2>1
  <2>3. \A i \in 0..Size-1 : rx_data[i] \in 0..scene.bytes
    BY <1>5, Zenon
  <2> HIDE DEF at
  <2>4. \A i \in 0..Size-1 : byte(i) \in 0..scene.bytes
    BY <2>2, <2>3, Zenon
  <2>5. rx_data' = [i \in 0..Size-1 |-> byte(i)]
    BY <1>6, Zenon DEF at
  <2>6. rx_data' \in [0..Size-1 -> 0..scene.bytes]
    BY <2>4, <2>5, Zenon
  <2>7. \A i \in 0..Size-1 : rx_data'[i] = byte(i)
    BY <2>5, Zenon
  <2> QED
    BY <2>1, <2>6, <2>7, Zenon DEF at
<1>9. issued' \in 0..scene'.bytes
  <2>1. issued \in Nat /\ n \in Nat /\ scene.bytes \in Nat
    BY <1>4, <1>5
  <2>2. issued + n <= scene.bytes
    BY <1>2, Zenon
  <2>3. issued + n \in 0..scene.bytes
    BY <2>1, <2>2
  <2> QED
    BY <1>2, <2>3, Zenon
<1>10. PlaceInv'
  BY <1>1, <1>2, <1>3, Zenon DEF PlaceInv, Receiving, Enabling
<1> DEFINE len == Len(unread)
<1>11. len \in Nat /\ len + n \in Nat /\ n \in Nat /\ len + n <= scene.backlog
  <2>1. unread \in Seq(Nat)
    BY <1>5, Zenon
  <2>2. len \in Nat
    BY <2>1
  <2>3. n \in Nat
    BY <1>4, <1>5
  <2>4. len + n <= scene.backlog
    BY <1>2, Zenon
  <2> HIDE DEF len
  <2>5. len + n \in Nat
    BY <2>2, <2>3
  <2> QED
    BY <2>2, <2>3, <2>4, <2>5, Zenon
<1>12. CASE ~Open(state)
  <2>1. rx' = rx /\ unread' = unread /\ line' = [line EXCEPT !.armed = None]
    BY <1>6, <1>12, Zenon
  <2>2. line'.armed = None /\ line'.buffer = line.buffer
    BY <1>1, <2>1 DEF BaseInv, Lines
  <2>3. None \in Null..Size-1
    BY UsbCdcAssumption DEF None, Null
  <2>4. DataInv'
    BY <1>1, <1>2, <1>8, <1>9, <2>1, <2>2, <2>3, Zenon DEF DataInv
  <2>5. RingInv' /\ ArmedInv'
    BY <1>2, <1>12, Zenon DEF RingInv, ArmedInv
  <2>6. ReceiveInv'
    BY <1>1, <1>2, <2>1, Zenon DEF ReceiveInv
  <2> QED
    BY <1>10, <2>4, <2>5, <2>6, Zenon DEF QueueInv
<1>13. CASE Open(state)
  <2>1. /\ line.armed = rx.write /\ rx.count = len + Taken /\ Taken \in 0..Size
        /\ rx.count + Packet <= rx.wrap
        /\ \/ /\ rx.wrap = Size /\ rx.read + len = rx.write
              /\ rx.write + n + Packet <= Size
           \/ /\ rx.wrap = Size /\ rx.read + len = rx.write
              /\ rx.write + n + Packet > Size /\ 0 < n
              /\ Whole(scene) => rx.write + n = Size
              /\ Taken # 0 => rx.write + n = Size
           \/ /\ Folded(rx, len) /\ rx.write + n + Packet <= Size
              /\ rx.write + n <= rx.read
    BY <1>1, <1>2, <1>3, <1>13, ReadyShape, Zenon
  <2>2. next \in Rings /\ rx \in Rings
    BY <1>1, <1>4, AdvanceTypes DEF BaseInv
  <2>3. /\ next.read = rx.read /\ next.count = rx.count + n
        /\ rx.write + n + Packet > Size => next.wrap = rx.write + n /\ next.write = 0
        /\ ~(rx.write + n + Packet > Size) => next.wrap = rx.wrap /\ next.write = rx.write + n
    <3>1. n \in Int
      BY <1>4
    <3> QED
      BY <2>2, <3>1, AdvanceFields, Zenon
  <2>4. /\ rx'.read = next.read /\ rx'.write = next.write /\ rx'.wrap = next.wrap
        /\ rx'.count = next.count
    <3>1. \A v : /\ [next EXCEPT !.event = v].read = next.read
                 /\ [next EXCEPT !.event = v].write = next.write
                 /\ [next EXCEPT !.event = v].wrap = next.wrap
                 /\ [next EXCEPT !.event = v].count = next.count
      BY <2>2 DEF Rings
    <3>2. \E v : rx' = [next EXCEPT !.event = v]
      BY <1>6, <1>13, Zenon
    <3> QED
      BY <3>1, <3>2, Zenon
  <2>5. unread' = unread \o new
    BY <1>6, <1>13, Zenon
  <2>6. /\ Len(unread') = len + n /\ unread' \in Seq(Nat)
        /\ \A i \in 1..len : unread'[i] = unread[i]
        /\ \A i \in 1..n : unread'[len + i] = issued + i
    <3>1. issued \in Nat /\ n \in Nat /\ unread \in Seq(Nat)
      BY <1>4, <1>5
    <3>2. /\ Len(unread \o new) = Len(unread) + n
          /\ unread \o new \in Seq(Nat)
      BY <3>1, AppendFacts
    <3>3. \A i \in 1..Len(unread) : (unread \o new)[i] = unread[i]
      BY <3>1, AppendFacts, Zenon
    <3>4. \A i \in 1..n : (unread \o new)[Len(unread) + i] = issued + i
      BY <3>1, AppendFacts, Zenon
    <3> HIDE DEF new
    <3> QED
      BY <2>5, <3>2, <3>3, <3>4, Zenon
  <2> HIDE DEF next, new, tell
  <2>7. /\ rx.read \in Nat /\ rx.write \in Nat /\ rx.wrap \in Nat /\ rx.count \in Nat
        /\ Size \in Nat /\ Packet \in Nat /\ len \in Nat /\ Taken \in Nat /\ n <= Packet
        /\ rx.write + Packet <= Size /\ rx.wrap <= Size /\ rx.read <= Size /\ n \in Nat
        /\ rx.count + n <= rx.wrap
    <3>1. Taken \in 0..Size /\ rx.count + Packet <= rx.wrap
      BY <2>1, Zenon
    <3>2. /\ rx.read \in Nat /\ rx.write \in Nat /\ rx.wrap \in Nat /\ rx.count \in Nat
          /\ rx.write + Packet <= Size /\ rx.wrap <= Size /\ rx.read <= Size
          /\ Size \in Nat /\ Packet \in Nat
      BY <1>5
    <3>3. n <= Packet /\ n \in Nat
      BY <1>4, <1>5
    <3>4. Taken \in Nat /\ rx.count + n <= rx.wrap
      BY <3>1, <3>2, <3>3
    <3> QED
      BY <1>11, <3>2, <3>3, <3>4, Zenon
  <2> HIDE DEF len
  <2> DEFINE Room  == /\ rx'.write \in 0..Size-Packet /\ rx'.wrap \in 0..Size
                      /\ rx'.count <= rx'.wrap
             Shape == Straight(rx', len + n) \/ Folded(rx', len + n)
             Slots == /\ \A i \in 1..len :
                            /\ Slot(rx'.read, rx'.wrap, i - 1) = Slot(rx.read, rx.wrap, i - 1)
                            /\ Slot(rx.read, rx.wrap, i - 1) \in 0..Size-1
                            /\ Slot(rx.read, rx.wrap, i - 1) \notin rx.write..rx.write + n - 1
                      /\ \A i \in 1..n :
                            /\ Slot(rx'.read, rx'.wrap, (len + i) - 1) = rx.write + (i - 1)
                            /\ rx.write + (i - 1) \in 0..Size-1
             Full  == Whole(scene) => rx'.wrap = Size /\ Multiple(rx'.write)
  <2>8. rx'.read = rx.read /\ rx'.count = rx.count + n
    BY <2>3, <2>4
  <2>9. Multiple(0)
    BY UsbCdcAssumption DEF Multiple
  <2>10. Whole(scene) => rx.wrap = Size /\ Multiple(rx.write) /\ (n = 0 \/ n = Packet)
    <3>1. Whole(scene) => rx.wrap = Size /\ Multiple(rx.write)
      BY <1>1, <1>13, Zenon DEF RingInv
    <3>2. Whole(scene) => n = 0 \/ n = Packet
      BY DEF Whole
    <3> QED
      BY <3>1, <3>2, Zenon
  <2>11. ASSUME rx.wrap = Size, rx.read + len = rx.write, rx.write + n + Packet <= Size
         PROVE  Room /\ Shape /\ Slots /\ Full
    <3>1. rx'.wrap = Size /\ rx'.write = rx.write + n
      BY <2>3, <2>4, <2>7, <2>11
    <3>2. Room
      <4>1. rx.write + n \in 0..Size-Packet /\ Size \in 0..Size /\ rx.count + n <= Size
        BY <2>7, <2>11
      <4> QED
        BY <2>8, <3>1, <4>1, Zenon
    <3>3. Shape
      <4>1. rx.read + (len + n) = rx.write + n
        BY <2>7, <2>11
      <4> QED
        BY <2>8, <3>1, <4>1, Zenon DEF Straight
    <3>4. Slots
      <4>1. rx.read + len + n <= Size
        BY <2>7, <2>11
      <4>2. /\ \A i \in 1..len : /\ Slot(rx.read, Size, i - 1) = rx.read + (i - 1)
                                 /\ rx.read + (i - 1) \in 0..rx.read + len - 1
            /\ \A i \in 1..n : Slot(rx.read, Size, (len + i) - 1) = rx.read + len + (i - 1)
        <5>1. rx.read \in Nat /\ len \in Nat /\ n \in Nat /\ Size \in Nat
          BY <2>7
        <5> QED
          BY <4>1, <5>1 DEF Slot
      <4>3. \A k \in 0..rx.read + len - 1 : k \in 0..Size-1 /\ k \notin rx.write..rx.write + n - 1
        BY <2>7, <2>11
      <4>4. \A i \in 1..n : rx.write + (i - 1) \in 0..Size-1
        BY <2>7, <2>11
      <4>5. ASSUME NEW i \in 1..len
            PROVE  /\ Slot(rx'.read, rx'.wrap, i - 1) = rx.read + (i - 1)
                   /\ Slot(rx.read, rx.wrap, i - 1) = rx.read + (i - 1)
                   /\ rx.read + (i - 1) \in 0..rx.read + len - 1
        BY <2>8, <2>11, <3>1, <4>2, Zenon
      <4>6. ASSUME NEW i \in 1..n
            PROVE  Slot(rx'.read, rx'.wrap, (len + i) - 1) = rx.write + (i - 1)
        BY <2>8, <2>11, <3>1, <4>2, Zenon
      <4>7. ASSUME NEW i \in 1..len
            PROVE  /\ Slot(rx'.read, rx'.wrap, i - 1) = Slot(rx.read, rx.wrap, i - 1)
                   /\ Slot(rx.read, rx.wrap, i - 1) \in 0..Size-1
                   /\ Slot(rx.read, rx.wrap, i - 1) \notin rx.write..rx.write + n - 1
        <5>1. rx.read + (i - 1) \in 0..Size-1 /\ rx.read + (i - 1) \notin rx.write..rx.write + n - 1
          BY <4>3, <4>5, Zenon
        <5> QED
          BY <4>5, <5>1, Zenon
      <4> QED
        BY <4>4, <4>6, <4>7, Zenon
    <3>5. Full
      <4>1. rx.write + 0 = rx.write
        BY <2>7
      <4> QED
        BY <2>7, <2>10, <3>1, <4>1, NextMultiple, Zenon
    <3> QED
      BY <3>2, <3>3, <3>4, <3>5
  <2>12. ASSUME rx.wrap = Size, rx.read + len = rx.write,
                rx.write + n + Packet > Size, 0 < n,
                Whole(scene) => rx.write + n = Size, Taken # 0 => rx.write + n = Size
         PROVE  Room /\ Shape /\ Slots /\ Full
    <3>1. rx'.wrap = rx.write + n /\ rx'.write = 0
      BY <2>3, <2>4, <2>12, Zenon
    <3>2. Room
      <4>1. 0 \in 0..Size-Packet /\ rx.write + n \in 0..Size
        BY <2>7
      <4>2. rx.count + n <= rx.write + n
        <5>1. CASE Taken = 0
          <6>1. rx.count = len
            BY <2>1, <2>7, <5>1
          <6> QED
            BY <2>7, <2>12, <6>1
        <5>2. CASE Taken # 0
          BY <2>7, <2>12, <5>2
        <5> QED
          BY <5>1, <5>2
      <4> QED
        BY <2>8, <3>1, <4>1, <4>2, Zenon
    <3>3. Shape
      <4>1. /\ rx.read < rx.write + n /\ 0 <= rx.read
            /\ rx.read + (len + n) = (rx.write + n) + 0 /\ Size - Packet < rx.write + n
        BY <2>7, <2>12
      <4> QED
        BY <2>8, <3>1, <4>1, Zenon DEF Folded
    <3>4. Slots
      <4>1. rx.read + len + n <= Size /\ rx.read + len + n <= rx.write + n
            /\ rx.write + n \in Nat
        BY <2>7, <2>12
      <4>2. \A i \in 1..len : /\ Slot(rx.read, Size, i - 1) = rx.read + (i - 1)
                              /\ rx.read + (i - 1) \in 0..rx.read + len - 1
        <5>1. rx.read \in Nat /\ len \in Nat /\ n \in Nat /\ Size \in Nat
          BY <2>7
        <5> QED
          BY <4>1, <5>1 DEF Slot
      <4>3. /\ \A i \in 1..len : Slot(rx.read, rx.write + n, i - 1) = rx.read + (i - 1)
            /\ \A i \in 1..n :
                  Slot(rx.read, rx.write + n, (len + i) - 1) = rx.read + len + (i - 1)
        <5>1. rx.read \in Nat /\ len \in Nat /\ n \in Nat /\ rx.write \in Nat
          BY <2>7
        <5> QED
          BY <4>1, <5>1 DEF Slot
      <4>4. \A k \in 0..rx.read + len - 1 : k \in 0..Size-1 /\ k \notin rx.write..rx.write + n - 1
        BY <2>7, <2>12
      <4>5. \A i \in 1..n : rx.write + (i - 1) \in 0..Size-1
        BY <2>7, <2>12
      <4>6. ASSUME NEW i \in 1..len
            PROVE  /\ Slot(rx'.read, rx'.wrap, i - 1) = rx.read + (i - 1)
                   /\ Slot(rx.read, rx.wrap, i - 1) = rx.read + (i - 1)
                   /\ rx.read + (i - 1) \in 0..rx.read + len - 1
        BY <2>8, <2>12, <3>1, <4>2, <4>3, Zenon
      <4>7. ASSUME NEW i \in 1..n
            PROVE  Slot(rx'.read, rx'.wrap, (len + i) - 1) = rx.write + (i - 1)
        BY <2>8, <2>12, <3>1, <4>3, Zenon
      <4>8. ASSUME NEW i \in 1..len
            PROVE  /\ Slot(rx'.read, rx'.wrap, i - 1) = Slot(rx.read, rx.wrap, i - 1)
                   /\ Slot(rx.read, rx.wrap, i - 1) \in 0..Size-1
                   /\ Slot(rx.read, rx.wrap, i - 1) \notin rx.write..rx.write + n - 1
        <5>1. rx.read + (i - 1) \in 0..Size-1 /\ rx.read + (i - 1) \notin rx.write..rx.write + n - 1
          BY <4>4, <4>6, Zenon
        <5> QED
          BY <4>6, <5>1, Zenon
      <4> QED
        BY <4>5, <4>7, <4>8, Zenon
    <3>5. Full
      BY <2>9, <2>12, <3>1, Zenon
    <3> QED
      BY <3>2, <3>3, <3>4, <3>5
  <2>13. ASSUME Folded(rx, len), rx.write + n + Packet <= Size, rx.write + n <= rx.read
         PROVE  Room /\ Shape /\ Slots /\ Full
    <3>0. /\ rx.read < rx.wrap /\ rx.write <= rx.read /\ rx.read + len = rx.wrap + rx.write
          /\ Size - Packet < rx.wrap
      BY <2>13, Zenon DEF Folded
    <3>1. rx'.wrap = rx.wrap /\ rx'.write = rx.write + n
      BY <2>3, <2>4, <2>7, <2>13
    <3>2. Room
      <4>1. rx.write + n \in 0..Size-Packet /\ rx.wrap \in 0..Size
        BY <2>7, <2>13
      <4> QED
        BY <2>7, <2>8, <3>1, <4>1, Zenon
    <3>3. Shape
      <4>1. rx.read + (len + n) = rx.wrap + (rx.write + n)
        BY <2>7, <3>0
      <4> QED
        BY <2>8, <2>13, <3>0, <3>1, <4>1, Zenon DEF Folded
    <3>4. Slots
      <4>1. rx.read + len - rx.wrap = rx.write
        BY <2>7, <3>0
      <4>2. rx.read < rx.wrap /\ rx.wrap <= rx.read + len
            /\ (rx.read + len - rx.wrap) + n <= rx.read
        BY <2>7, <2>13, <3>0, <4>1
      <4>3. /\ \A i \in 1..len :
                  /\ Slot(rx.read, rx.wrap, i - 1) \in 0..rx.wrap - 1
                  /\ Slot(rx.read, rx.wrap, i - 1)
                        \notin rx.read + len - rx.wrap..(rx.read + len - rx.wrap) + n - 1
            /\ \A i \in 1..n : Slot(rx.read, rx.wrap, (len + i) - 1)
                                  = (rx.read + len - rx.wrap) + (i - 1)
        <5>1. rx.read \in Nat /\ len \in Nat /\ n \in Nat /\ rx.wrap \in Nat
          BY <2>7
        <5> QED
          BY <4>2, <5>1 DEF Slot
      <4>4. \A k \in 0..rx.wrap - 1 : k \in 0..Size-1
        BY <2>7
      <4>5. \A i \in 1..n : rx.write + (i - 1) \in 0..Size-1
        BY <2>7, <2>13
      <4>6. ASSUME NEW i \in 1..len
            PROVE  /\ Slot(rx'.read, rx'.wrap, i - 1) = Slot(rx.read, rx.wrap, i - 1)
                   /\ Slot(rx.read, rx.wrap, i - 1) \in 0..Size-1
                   /\ Slot(rx.read, rx.wrap, i - 1) \notin rx.write..rx.write + n - 1
        BY <2>8, <3>1, <4>1, <4>3, <4>4, Zenon
      <4>7. ASSUME NEW i \in 1..n
            PROVE  Slot(rx'.read, rx'.wrap, (len + i) - 1) = rx.write + (i - 1)
        BY <2>8, <3>1, <4>1, <4>3, Zenon
      <4> QED
        BY <4>5, <4>6, <4>7, Zenon
    <3>5. Full
      <4>1. rx.write + 0 = rx.write
        BY <2>7
      <4> QED
        BY <2>7, <2>10, <3>1, <4>1, NextMultiple, Zenon
    <3> QED
      BY <3>2, <3>3, <3>4, <3>5
  <2>14. Room /\ Shape /\ Slots /\ Full
    BY <2>1, <2>11, <2>12, <2>13, Zenon
  <2>15. RingInv'
    <3>1. Taken' = Taken
      BY <1>2, Zenon DEF Taken
    <3>2. rx'.count = (len + n) + Taken'
      <4>1. rx.count + n = (len + n) + Taken
        BY <2>1, <2>7
      <4> QED
        BY <2>8, <3>1, <4>1, Zenon
    <3>3. /\ rx'.count = Len(unread') + Taken' /\ rx'.count <= rx'.wrap
          /\ Straight(rx', Len(unread')) \/ Folded(rx', Len(unread'))
          /\ Whole(scene') => rx'.wrap = Size /\ Multiple(rx'.write)
      BY <1>2, <2>6, <2>14, <3>2, Zenon
    <3>4. ASSUME NEW i \in 1..len
          PROVE  rx_data'[Slot(rx'.read, rx'.wrap, i - 1)] = unread'[i]
      <4>1. /\ Slot(rx'.read, rx'.wrap, i - 1) = Slot(rx.read, rx.wrap, i - 1)
            /\ Slot(rx.read, rx.wrap, i - 1) \in 0..Size-1
            /\ Slot(rx.read, rx.wrap, i - 1) \notin line.armed..line.armed + n - 1
        BY <2>1, <2>14, Zenon
      <4>2. rx_data[Slot(rx.read, rx.wrap, i - 1)] = unread[i]
        BY <1>1, <1>13, Zenon DEF RingInv, Holds, len
      <4> QED
        BY <1>8, <2>6, <4>1, <4>2, Zenon
    <3>5. ASSUME NEW i \in 1..n
          PROVE  rx_data'[Slot(rx'.read, rx'.wrap, (len + i) - 1)] = unread'[len + i]
      <4>1. /\ Slot(rx'.read, rx'.wrap, (len + i) - 1) = rx.write + (i - 1)
            /\ rx.write + (i - 1) \in 0..Size-1
        BY <2>14, Zenon
      <4>2. /\ rx.write + (i - 1) \in rx.write..rx.write + n - 1
            /\ issued + 1 + (rx.write + (i - 1)) - rx.write = issued + i
        <5>1. rx.write \in Nat /\ n \in Nat /\ issued \in Nat
          BY <1>4, <1>5, <2>7
        <5> QED
          BY <5>1
      <4>3. rx_data'[rx.write + (i - 1)] = issued + 1 + (rx.write + (i - 1)) - rx.write
        BY <1>8, <2>1, <4>1, <4>2, Zenon
      <4>4. unread'[len + i] = issued + i
        BY <2>6, Zenon
      <4> QED
        BY <4>1, <4>2, <4>3, <4>4, Zenon
    <3>6. Holds(rx', rx_data', unread')
      <4>1. SUFFICES ASSUME NEW i \in 1..len + n
                     PROVE  rx_data'[Slot(rx'.read, rx'.wrap, i - 1)] = unread'[i]
        BY <2>6, Zenon DEF Holds
      <4>2. i \in 1..len \/ \E j \in 1..n : i = len + j
        <5>1. len \in Nat /\ n \in Nat
          BY <2>7
        <5>2. CASE i > len
          <6>1. i - len \in 1..n /\ i = len + (i - len)
            BY <5>1, <5>2
          <6> QED
            BY <6>1, Zenon
        <5>3. CASE ~(i > len)
          BY <5>1, <5>3
        <5> QED
          BY <5>2, <5>3
      <4> QED
        BY <3>4, <3>5, <4>2, Zenon
    <3> QED
      BY <3>3, <3>6, Zenon DEF RingInv
  <2>16. DataInv' /\ ArmedInv'
    <3>1. more => HasRoom(next)
      OBVIOUS
    <3>2. line'.armed # None => more /\ line'.armed = rx'.write
      <4>1. CASE more
        <5>1. line'.armed = next.write
          BY <1>1, <1>6, <4>1 DEF BaseInv, Lines, Armed
        <5> QED
          BY <2>4, <4>1, <5>1, Zenon
      <4>2. CASE ~more
        BY <1>1, <1>6, <4>2 DEF BaseInv, Lines
      <4> QED
        BY <4>1, <4>2
    <3>3. ArmedInv'
      <4>1. SUFFICES ASSUME line'.armed # None
                     PROVE  line'.armed = rx'.write /\ rx'.count + Packet <= rx'.wrap
        BY Zenon DEF ArmedInv
      <4>2. HasRoom(next) /\ line'.armed = rx'.write
        BY <3>1, <3>2, <4>1, Zenon
      <4>3. rx'.wrap - rx'.count < 0 \/ rx'.wrap - rx'.count >= Packet
        BY <2>4, <4>2, Zenon DEF HasRoom
      <4>4. /\ rx'.count \in Nat /\ rx'.wrap \in Nat /\ Packet \in Nat
            /\ rx'.count <= rx'.wrap
        <5>1. rx.count + n \in Nat
          BY <2>7
        <5>2. \A k \in 0..Size : k \in Nat
          OBVIOUS
        <5> QED
          BY <2>7, <2>8, <2>14, <5>1, <5>2, Zenon
      <4>5. rx'.count + Packet <= rx'.wrap
        BY <4>3, <4>4
      <4> QED
        BY <4>2, <4>5
    <3>4. line'.buffer \in Null..Size-1 /\ line'.armed \in Null..Size-1
      <4>1. CASE more
        <5>1. line'.armed = next.write /\ line'.buffer = next.write
          BY <1>1, <1>6, <4>1 DEF BaseInv, Lines, Armed
        <5>2. \A k \in 0..Size-Packet : k \in Null..Size-1
          BY UsbCdcAssumption DEF Null
        <5> QED
          BY <2>4, <2>14, <5>1, <5>2, Zenon
      <4>2. CASE ~more
        <5>1. line'.armed = None /\ line'.buffer = line.buffer
          BY <1>1, <1>6, <4>2 DEF BaseInv, Lines
        <5>2. None \in Null..Size-1
          BY UsbCdcAssumption DEF None, Null
        <5> QED
          BY <1>1, <5>1, <5>2, Zenon DEF DataInv
      <4> QED
        BY <4>1, <4>2
    <3>5. rx'.read \in 0..Size /\ rx'.count \in 0..Size
      <4>1. rx.count + n \in 0..Size
        BY <2>7
      <4> QED
        BY <1>5, <2>8, <4>1, Zenon
    <3>6. /\ rcv' = rcv /\ rx'.write \in 0..Size-Packet /\ rx'.wrap \in 0..Size
          /\ Len(unread') <= scene'.backlog /\ events' \in 0..scene'.events
      BY <1>1, <1>2, <1>11, <2>6, <2>14, Zenon DEF DataInv, len
    <3> QED
      BY <1>1, <1>2, <1>8, <1>9, <2>6, <3>3, <3>4, <3>5, <3>6, Zenon DEF DataInv
  <2>17. ReceiveInv'
    <3>1. pc \in {"load", "copy"} => rcv'.count <= Len(unread')
      <4>1. SUFFICES ASSUME pc \in {"load", "copy"} PROVE rcv.count <= len + n
        BY <1>2, <2>6, Zenon
      <4>2. rcv.count <= len
        BY <1>1, <4>1, Zenon DEF ReceiveInv, len
      <4>3. rcv.count \in Int
        BY <1>1 DEF BaseInv, Locals
      <4> QED
        BY <2>7, <4>2, <4>3
    <3>2. pc = "copy" => rcv.wrap = rx'.wrap /\ rcv.read = rx'.read
      <4>1. SUFFICES ASSUME pc = "copy" PROVE rx'.wrap = rx.wrap
        BY <1>1, <2>8, Zenon DEF ReceiveInv
      <4>2. scene.anytime /\ scene \in Scenes
        BY <1>1, <1>2, <4>1, Zenon DEF Receiving, BaseInv
      <4>3. Whole(scene)
        BY <4>2, Zenon DEF Roomy
      <4> QED
        BY <2>10, <2>14, <4>3, Zenon
    <3> QED
      BY <1>2, <3>1, <3>2, Zenon DEF ReceiveInv
  <2> QED
    BY <1>10, <2>15, <2>16, <2>17, Zenon DEF QueueInv
<1> QED
  BY <1>12, <1>13

\* Steps inside of the driver, or of the sketch out of receive and enable.
LEMMA QueueQuiet ==
  ASSUME QueueInv,
         UNCHANGED <<rx, rx_data, unread, rcv, scene, issued, events, bus>>,
         line'.armed = line.armed, line'.buffer = line.buffer,
         Open(state') <=> Open(state),
         pc' = pc \/ (Plain(pc') /\ pc # "arm" /\ pc # "sub")
  PROVE  QueueInv'
<1>1. events' = events /\ bus' = bus
  OBVIOUS
<1>2. events \in 0..scene.events /\ (~Plain(pc) => bus # "off")
  BY Zenon DEF QueueInv, DataInv, PlaceInv, Plain, Receiving, Enabling
<1>3. events' \in 0..scene.events /\ (events' = 0 => events = 0 /\ bus' = bus)
      /\ (~Plain(pc') => bus' # "off")
  BY <1>1, <1>2, Zenon
<1>4. line'.armed \in {line.armed, None}
  OBVIOUS
<1> QED
  BY <1>3, <1>4, QueueSame

\* Events of the bus, other than its start.
LEMMA QueueBus ==
  ASSUME QueueInv, BusEvent, BaseInv,
         UNCHANGED <<rx, rx_data, unread, rcv, scene, issued, pc>>,
         line'.armed \in {line.armed, None}, line'.buffer = line.buffer,
         Open(state') <=> Open(state), ~Plain(pc) => bus' # "off"
  PROVE  QueueInv'
<1>1. events \in 0..scene.events /\ scene.events \in Nat
  BY SceneFacts, Zenon DEF QueueInv, DataInv
<1>2. events' \in 0..scene.events /\ events' # 0
  BY <1>1 DEF BusEvent
<1>3. events' = 0 => events = 0 /\ bus' = bus
  BY <1>2
<1>4. pc' = pc /\ (~Plain(pc') => bus' # "off")
  OBVIOUS
<1> QED
  BY <1>2, <1>3, <1>4, QueueSame

\* Every step keeps the ring a queue.
LEMMA QueueStep ==
  ASSUME RoomyInv, HostInv', Roomy, [Next]_vars
  PROVE  QueueInv'
<1>1. BaseInv /\ QueueInv /\ line \in Lines /\ "bus" \notin Perils /\ "early" \notin Perils
  BY DEF RoomyInv, BaseInv, Roomy
<1>2. state \in INIT..RESET /\ INIT = 1 /\ READY = 2 /\ SUSPENDED = 3 /\ RESET = 4
  BY <1>1 DEF BaseInv, INIT, READY, SUSPENDED, RESET
<1>3. \A v \in Truth :
         [line EXCEPT !.sending = v].armed = line.armed
         /\ [line EXCEPT !.sending = v].buffer = line.buffer
  BY <1>1 DEF Lines
<1>4. Open(RESET) /\ (state # INIT => Open(state)) /\ (state = INIT => ~Open(state))
      /\ (state \in {READY, SUSPENDED, RESET} => Open(state))
      /\ Open(READY) /\ Open(SUSPENDED)
  BY <1>2 DEF Open
<1>5. CASE Detach
  <2>1. /\ BusEvent /\ UNCHANGED <<rx, rx_data, unread, rcv, scene, issued, pc>>
        /\ state' = RESET /\ line' = [line EXCEPT !.armed = None, !.sending = FALSE]
        /\ ~Enabling /\ ~Receiving /\ state # INIT
    BY <1>1, <1>5, Zenon DEF Detach, input
  <2>2. line'.armed = None /\ line'.buffer = line.buffer
    BY <1>1, <2>1 DEF Lines
  <2>3. line'.armed \in {line.armed, None} /\ (Open(state') <=> Open(state))
    BY <1>4, <2>1, <2>2, Zenon
  <2>4. ~Plain(pc) => bus' # "off"
    BY <2>1, Zenon DEF Plain, Enabling, Receiving
  <2> QED
    BY <1>1, <2>1, <2>2, <2>3, <2>4, QueueBus
<1>6. CASE Suspend \/ Resume
  <2>1. /\ BusEvent /\ UNCHANGED <<rx, rx_data, unread, rcv, scene, issued, pc, line>>
        /\ bus' # "off"
        /\ state' = state \/ (state = READY /\ state' = SUSPENDED)
           \/ (state = SUSPENDED /\ state' = READY)
    BY <1>6, Zenon DEF Suspend, Resume, input
  <2>2. Open(state') <=> Open(state)
    BY <1>4, <2>1, Zenon
  <2>3. line'.armed \in {line.armed, None} /\ line'.buffer = line.buffer
    BY <2>1, Zenon
  <2> QED
    BY <1>1, <2>1, <2>2, <2>3, QueueBus
<1>7. CASE Sof \/ Control
  <2>1. /\ UNCHANGED <<rx, rx_data, unread, rcv, scene, issued, events, bus, pc, line>>
        /\ state' = state \/ (Open(state) /\ state' = RESET)
           \/ (state = RESET /\ state' = READY)
    BY <1>7, Zenon DEF Sof, Control, input, hist
  <2>2. Open(state') <=> Open(state)
    BY <1>4, <2>1, Zenon
  <2> QED
    BY <1>1, <2>1, <2>2, QueueQuiet
<1>8. CASE TxDone
  <2>1. /\ UNCHANGED <<rx, rx_data, unread, rcv, scene, issued, events, bus, pc>>
        /\ line' = [line EXCEPT !.sending = FALSE]
        /\ state' = state \/ (state = RESET /\ state' = READY)
    BY <1>8, Zenon DEF TxDone, input, hist
  <2>2. Open(state') <=> Open(state)
    BY <1>4, <2>1, Zenon
  <2>3. line'.armed = line.armed /\ line'.buffer = line.buffer
    BY <1>3, <2>1, Zenon DEF Truth
  <2> QED
    BY <1>1, <2>1, <2>2, <2>3, QueueQuiet
<1>9. CASE PendSV \/ TransmitSvc
  <2>1. /\ UNCHANGED <<rx, rx_data, unread, rcv, scene, issued, events, bus, state>>
        /\ line' = [line EXCEPT !.sending = line.sending \/ dev.usbd]
        /\ pc' = pc \/ (pc' = "idle" /\ pc = "svc")
    BY <1>9, Zenon DEF PendSV, TransmitSvc, DoTransmit, At, Goto, input, hist
  <2>2. line'.armed = line.armed /\ line'.buffer = line.buffer
    BY <1>1, <2>1 DEF Lines
  <2>3. pc' = pc \/ (Plain(pc') /\ pc # "arm" /\ pc # "sub")
    BY <2>1 DEF Plain
  <2> QED
    BY <1>1, <2>1, <2>2, <2>3, QueueQuiet
<1>10. CASE Write \/ TransmitCheck \/ TransmitSwap \/ TransmitSet \/ Begin \/ End
            \/ EnableBusy \/ ReceiveBusy \/ (ReceiveTest /\ pc' = "idle")
  <2>1. UNCHANGED <<rx, rx_data, unread, rcv, scene, issued, events, bus, state, line>>
    <3>1. CASE ReceiveTest /\ pc' = "idle"
      BY <3>1, Zenon DEF ReceiveTest, Goto, input, hist
    <3> QED
      BY <1>10, <3>1, Zenon DEF Write, TransmitCheck, TransmitSwap, TransmitSet, Begin, End,
           EnableBusy, ReceiveBusy, input, hist
  <2>2. pc' \in {"idle", "check", "swap", "set", "svc", "begin", "end"}
        /\ pc # "arm" /\ pc # "sub"
    BY <1>10, Zenon DEF Write, TransmitCheck, TransmitSwap, TransmitSet, Begin, End,
         EnableBusy, ReceiveBusy, ReceiveTest, At, Goto, Refuse
  <2>3. Plain(pc')
    BY <2>2, Zenon DEF Plain
  <2> QED
    BY <1>1, <2>1, <2>2, <2>3, QueueQuiet
<1>11. CASE Notified
  <2>1. CASE \E n \in scene.reads : Read(n)
    BY <2>1, QueueBegin, Zenon
  <2>2. CASE UNCHANGED <<pc, rcv>>
    <3>1. UNCHANGED <<rx, rx_data, unread, rcv, scene, issued, events, bus, state, line, pc>>
      BY <1>11, <2>2, Zenon DEF Notified, input, hist
    <3> QED
      BY <1>1, <3>1, QueueQuiet
  <2> QED
    BY <1>11, <2>1, <2>2, Zenon DEF Notified
<1>12. CASE ReceiveTest /\ HasRoom(rx) /\ pc' = "busy"
  BY <1>12, QueueArm, Zenon
<1>13. ReceiveTest => pc' = "idle" \/ (HasRoom(rx) /\ pc' = "busy")
  BY Zenon DEF ReceiveTest, Goto
<1>14. CASE Configure
  BY <1>14, QueueConfigure, Zenon
<1>15. CASE \E n \in scene.lengths : RxReady(n)
  BY <1>15, QueueReady, Zenon
<1>16. CASE Enable \/ EnableStore \/ EnableArm \/ Disable
  BY <1>16, QueueEnable, QueueStore, QueueArm, QueueDisable, Zenon
<1>17. CASE ReceiveLoad \/ (\E n \in scene.reads : Read(n))
  BY <1>17, QueueBegin, Zenon
<1>18. CASE ReceiveCopy \/ ReceiveSub
  BY <1>18, QueueCopy, QueueSub, Zenon
<1>19. CASE UNCHANGED vars
  <2>1. UNCHANGED <<rx, rx_data, unread, rcv, scene, issued, events, bus, state, line, pc>>
    BY <1>19, Zenon DEF vars, input, hist
  <2> QED
    BY <1>1, <2>1, QueueQuiet
<1> QED
  BY <1>5, <1>6, <1>7, <1>8, <1>9, <1>10, <1>11, <1>12, <1>13, <1>14, <1>15, <1>16, <1>17,
     <1>18, <1>19, Zenon DEF Next, Host, Sketch, Running

\* The ring is one from the start.
LEMMA RoomyInit ==
  ASSUME Init
  PROVE  RoomyInv
<1>1. BaseInv /\ HostInv /\ FoundInv
  BY AnsweredInit, Zenon DEF AnsweredInv
<1>2. ~Open(state) /\ pc = "idle" /\ events = 0 /\ bus = "off" /\ line.armed = None
  BY DEF Init, Open, INIT
<1>3. DataInv
  <2>1. /\ Size \in Nat /\ Packet \in 1..Size /\ scene.bytes \in Nat /\ scene.events \in Nat
        /\ scene.backlog \in Nat
    BY <1>1, SceneFacts, UsbCdcAssumption
  <2>2. /\ 0 \in 0..Size /\ 0 \in 0..Size-Packet /\ None \in Null..Size-1
        /\ Null \in Null..Size-1 /\ 0 \in 0..scene.bytes /\ 0 \in 0..scene.events
    BY <2>1 DEF None, Null
  <2>3. unread \in Seq(Nat) /\ Len(unread) <= scene.backlog
    BY <2>1 DEF Init
  <2>4. rx_data \in [0..Size-1 -> 0..scene.bytes]
    BY <2>2, Zenon DEF Init
  <2>5. /\ rx.read = 0 /\ rx.write = 0 /\ rx.wrap = 0 /\ rx.count = 0
        /\ rcv.read = 0 /\ rcv.wrap = 0 /\ rcv.count = 0
        /\ line.buffer = Null /\ line.armed = None /\ issued = 0 /\ events = 0
    BY DEF Init
  <2> QED
    BY <2>2, <2>3, <2>4, <2>5, Zenon DEF DataInv
<1>4. PlaceInv
  BY <1>2, Zenon DEF PlaceInv, Receiving, Enabling
<1>5. RingInv /\ ArmedInv
  BY <1>2, Zenon DEF RingInv, ArmedInv
<1>6. ReceiveInv
  BY <1>2, Zenon DEF ReceiveInv
<1>7. StoreInv
  BY <1>2, Zenon DEF StoreInv, Storing
<1> QED
  BY <1>1, <1>3, <1>4, <1>5, <1>6, <1>7, Zenon DEF RoomyInv, QueueInv

\* It remains one.
LEMMA RoomyAlways == ASSUME Roomy PROVE Spec => []RoomyInv
<1>1. Init => RoomyInv
  BY RoomyInit
<1>2. RoomyInv /\ [Next]_vars => RoomyInv'
  <2> SUFFICES ASSUME RoomyInv, [Next]_vars PROVE RoomyInv'
    OBVIOUS
  <2>1. "bus" \notin Perils /\ "early" \notin Perils
    BY DEF Roomy
  <2>2. BaseInv' /\ HostInv' /\ FoundInv' /\ StoreInv'
    BY <2>1, BaseStep, HostStep, FoundStep, StoreStep, Zenon DEF RoomyInv
  <2>3. QueueInv'
    BY <2>2, QueueStep, Zenon
  <2> QED
    BY <2>2, <2>3, Zenon DEF RoomyInv
<1> QED
  BY <1>1, <1>2, PTL DEF Spec

\* The packet that the endpoint waits for has a place in the ring, none of it read from.
LEMMA FreePlace ==
  ASSUME NEW r \in Rings, NEW l \in Nat, r.read \in Nat, r.write \in Nat, r.wrap \in Nat,
         Straight(r, l) \/ Folded(r, l), l + Packet <= r.wrap, NEW i \in 0..l - 1
  PROVE  Slot(r.read, r.wrap, i) \notin r.write..r.write + Packet - 1
<1>1. Size \in Nat /\ Packet \in Nat
  BY UsbCdcAssumption
<1>2. CASE Straight(r, l)
  BY <1>1, <1>2 DEF Straight, Slot
<1>3. CASE Folded(r, l)
  <2>1. r.read + l = r.wrap + r.write /\ r.read < r.wrap
    BY <1>3, Zenon DEF Folded
  <2>2. r.write + Packet <= r.read /\ i \in Nat /\ i < l
    BY <1>1, <2>1
  <2> QED
    BY <1>1, <2>1, <2>2 DEF Slot
<1> QED
  BY <1>2, <1>3

\* The ring is a queue: for every size, packet and scene, as long as there is room
\* for a packet and the bus does not fail inside of a call.
THEOREM RingCorrect == ASSUME Roomy PROVE Spec => []RingIsQueue
<1>1. RoomyInv => RingIsQueue
  <2> SUFFICES ASSUME RoomyInv, state >= READY PROVE RingIsQueue
    BY Zenon DEF RingIsQueue
  <2>1. BaseInv /\ DataInv /\ PlaceInv /\ RingInv /\ ArmedInv /\ ReceiveInv
    BY Zenon DEF RoomyInv, QueueInv
  <2>2. Open(state)
    BY <2>1 DEF BaseInv, Open, INIT, READY, RESET
  <2>3. /\ rx.count = Len(unread) + Taken
        /\ Straight(rx, Len(unread)) \/ Folded(rx, Len(unread))
        /\ Holds(rx, rx_data, unread)
    BY <2>1, <2>2, Zenon DEF RingInv
  <2>4. rx.count = Len(unread) + (IF pc = "sub" THEN rcv.count ELSE 0)
    BY <2>3, Zenon DEF Taken
  <2>5. \A i \in 1..Len(unread) : rx_data[Slot(rx.read, rx.wrap, i - 1)] = unread[i]
    BY <2>3, Zenon DEF Holds
  <2>6. ASSUME pc = "copy" PROVE Copied = SubSeq(unread, 1, rcv.count)
    <3>1. /\ rcv.count \in Nat /\ rcv.count <= Len(unread) /\ unread \in Seq(Nat)
          /\ rcv.wrap = rx.wrap /\ rcv.read = rx.read
      BY <2>1, <2>6 DEF DataInv, ReceiveInv
    <3>2. \A i \in 1..rcv.count : i \in 1..Len(unread)
      BY <3>1
    <3>3. \A i \in 1..rcv.count : rx_data[Slot(rcv.read, rcv.wrap, i - 1)] = unread[i]
      BY <2>5, <3>1, <3>2, Zenon
    <3>4. SubSeq(unread, 1, rcv.count) = [i \in 1..rcv.count |-> unread[i]]
      BY <3>1
    <3> QED
      BY <3>3, <3>4, Zenon DEF Copied
  <2>7. ArmedIsFree
    <3>1. SUFFICES ASSUME line.armed >= 0, ~Enabling
                   PROVE  line.armed..line.armed + Packet - 1
                             \subseteq (0..Size-1) \ UnreadSlots
      BY Zenon DEF ArmedIsFree
    <3>2. line.armed # None
      BY <3>1 DEF None
    <3>3. line.armed = rx.write /\ rx.count + Packet <= rx.wrap
      BY <2>1, <2>2, <3>1, <3>2, Zenon DEF ArmedInv, Enabling
    <3>4. /\ rx.read \in Nat /\ rx.write \in 0..Size-Packet /\ rx.wrap \in Nat
          /\ rx.count \in Nat /\ Len(unread) \in Nat /\ Taken \in Nat
          /\ Size \in Nat /\ Packet \in Nat
      <4>1. /\ rx.read \in 0..Size /\ rx.write \in 0..Size-Packet /\ rx.wrap \in 0..Size
            /\ rx.count \in 0..Size /\ rcv.count \in 0..Size /\ unread \in Seq(Nat)
        BY <2>1, Zenon DEF DataInv
      <4>2. Size \in Nat /\ Packet \in Nat /\ \A k \in 0..Size : k \in Nat
        BY UsbCdcAssumption
      <4>3. Len(unread) \in Nat
        BY <4>1
      <4>4. Taken \in Nat
        BY <4>1, <4>2 DEF Taken
      <4> QED
        BY <4>1, <4>2, <4>3, <4>4, Zenon
    <3>5. Len(unread) + Packet <= rx.wrap
      BY <2>3, <3>3, <3>4
    <3>6. \A k \in rx.write..rx.write + Packet - 1 : k \in 0..Size-1
      BY <3>4
    <3>7. \A i \in 0..Len(unread) - 1 :
             Slot(rx.read, rx.wrap, i) \notin rx.write..rx.write + Packet - 1
      <4>1. rx \in Rings /\ rx.write \in Nat
        BY <2>1, <3>4 DEF BaseInv
      <4> QED
        BY <2>3, <3>4, <3>5, <4>1, FreePlace, Zenon
    <3> QED
      BY <3>3, <3>6, <3>7, Zenon DEF UnreadSlots
  <2> QED
    BY <2>4, <2>5, <2>6, <2>7, Zenon DEF RingIsQueue
<1> QED
  BY <1>1, RoomyAlways, PTL

\* The types, when both hold.
THEOREM TypesCorrect == ASSUME Answered, Roomy PROVE Spec => []TypeOK
<1>1. AnsweredInv /\ RoomyInv => TypeOK
  <2> SUFFICES ASSUME AnsweredInv, RoomyInv PROVE TypeOK
    OBVIOUS
  <2>1. BaseInv /\ CallsInv /\ DataInv
    BY Zenon DEF AnsweredInv, RoomyInv, QueueInv
  <2>2. rx \in [read : 0..Size, write : 0..Size-Packet, wrap : 0..Size, count : 0..Size,
                event : BOOLEAN]
    BY <2>1, Zenon DEF BaseInv, DataInv, Rings, Truth
  <2>3. rcv \in [count : 0..Size, wrap : 0..Size, read : 0..Size]
    BY <2>1, Zenon DEF BaseInv, DataInv, Locals
  <2>4. line \in [buffer : Null..Size-1, armed : Null..Size-1, sending : BOOLEAN]
    BY <2>1, Zenon DEF BaseInv, DataInv, Lines, Truth
  <2>5. asked \in 0..scene.sends
    <3>1. asked <= scene.sends
      BY <2>1, Zenon DEF CallsInv, CallsOf
    <3> QED
      BY <2>1, <3>1, SceneFacts DEF BaseInv
  <2>6. /\ dev \in [usbd : BOOLEAN, reset : BOOLEAN, suspended : BOOLEAN, rx_busy : BOOLEAN,
                    tx_busy : BOOLEAN, tx_flush : BOOLEAN, tx_timeout : 0..Timeout]
        /\ cdc \in [enabled : BOOLEAN, tx_busy : BOOLEAN, notified : BOOLEAN]
    BY <2>1, Zenon DEF BaseInv, Devices, Classes, Truth
  <2> QED
    BY <2>1, <2>2, <2>3, <2>4, <2>5, <2>6, Zenon DEF BaseInv, DataInv, Places, TypeOK
<1> QED
  BY <1>1, AnsweredAlways, RoomyAlways, PTL
=============================================================================
