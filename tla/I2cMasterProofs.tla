-------------------------- MODULE I2cMasterProofs --------------------------
(***************************************************************************)
(* Theorems about I2cMaster, for every set of clients, addresses and       *)
(* messages and every NBYTES_MAX.                                          *)
(*                                                                         *)
(* As the bytes of a message are numbered, it is enough to say where the   *)
(* numbering stands: sent, in the shift register, in TXDR, left in the     *)
(* buffers (Sending).  What a flag of the peripheral means in a state of   *)
(* the driver is SignalsOpen, StopFollows and Refusal; the rest says whose *)
(* turn it is.  The parts are predicates of a driver i, a peripheral b and *)
(* transactions tr, so that they can be said of an entry of the interrupt  *)
(* before and after its tail (Dispatch), which may go on to the next one.  *)
(***************************************************************************)
EXTENDS I2cMaster, Integers, TLAPS

\* BOOLEAN, for the fields of records.
Truth == BOOLEAN

Outcomes == {"open", "address_nack", "data_nack", "arbitration_lost"}
Phases   == {"off", "idle", "address", "data", "held", "stopping"}
Flags    == {"TC", "TCR", "TXIS", "NACKF", "STOPF", "ARLO"}
Results  == {"busy", "success", "address_nack", "data_nack", "arbitration_lost"}

Drivers ==
    [state : States, current : Client \cup {None}, address : Address \cup {None},
     restart : Truth, continue : Client \cup {None}, queue : Seq(Client),
     tx : Seq(Nat), tx2 : Seq(Nat), rx : Int, count : Int, locks : Int]

Peripherals ==
    [phase : Phases, read : Truth, left : Int, reload : Truth, autoend : Truth,
     txdr : Nat, shift : Nat, flags : SUBSET Flags, enabled : Truth,
     sent : Seq(Nat), got : Int, outcome : Outcomes]

Transactions ==
    [message : Messages, address : Address, restart : Truth, status : Results]

Types(i, b, tr) ==
    i \in Drivers /\ b \in Peripherals /\ tr \in [Client -> Transactions]

-----------------------------------------------------------------------------
(* The transfer under way. *)

Total(m) == Len(Bytes1(m)) + Len(Bytes2(m))

\* The bytes of s are those from the n-th on.
From(s, n) == \A k \in 1..Len(s) : s[k] = n + k + 1

One(r)    == IF r = Empty THEN 0 ELSE 1
Real(r)   == IF r = Empty \/ r = Junk THEN 0 ELSE 1
InHand(b) == One(b.shift) + Real(b.txdr)

\* Every byte has one place.
Placed(i, b, m) ==
    LET n == Len(b.sent) + InHand(b)
    IN  /\ From(b.sent, 0)
        /\ b.shift # Empty => b.shift = Len(b.sent) + 2
        /\ Real(b.txdr) = 1 => b.txdr = Len(b.sent) + One(b.shift) + 2
        /\ From(i.tx, n) /\ From(i.tx2, n + Len(i.tx))
        /\ n + Len(i.tx) + Len(i.tx2) = Total(m)

\* NBYTES counts the bytes in hand and those of this buffer to be loaded.
Counted(i, b) ==
    /\ i.count = Len(b.sent) + One(b.shift) + One(b.txdr)
    /\ InHand(b) <= b.left /\ b.left <= InHand(b) + Len(i.tx)
    /\ b.reload = TRUE <=> i.tx2 # <<>> \/ b.left < InHand(b) + Len(i.tx)
    /\ b.autoend = TRUE <=> b.reload = FALSE /\ i.rx = 0 /\ i.restart = FALSE

\* The data register.
Register(i, b) ==
    /\ b.txdr = Junk => b.left = 0 /\ i.tx = <<>> /\ i.tx2 = <<>>
    /\ b.phase = "address" => b.sent = <<>> /\ b.shift = Empty /\ b.txdr # Empty
    /\ "TXIS" \in b.flags => b.txdr = Empty /\ b.left > One(b.shift)

Sending(i, b, m) ==
    /\ Placed(i, b, m) /\ Counted(i, b) /\ Register(i, b)
    /\ i.rx = m.rx /\ b.got = 0 /\ b.read = FALSE

\* Everything is written, and what is to be read is read or counted.
Receiving(i, b, m) ==
    /\ From(b.sent, 0) /\ Len(b.sent) = Total(m)
    /\ b.shift = Empty /\ b.txdr = Empty /\ b.read = TRUE /\ i.count = 0
    /\ i.rx >= 0 /\ b.left >= 0 /\ b.got + b.left + i.rx = m.rx
    /\ b.reload = TRUE <=> i.rx > 0
    /\ b.autoend = TRUE <=> b.reload = FALSE /\ i.restart = FALSE
    /\ "TXIS" \notin b.flags

\* What the flags say while a transaction goes well.
SignalsOpen(b) ==
    /\ b.phase # "off"
    /\ b.phase = "address" => b.flags = {} /\ b.left >= 0
    /\ b.phase = "data" => b.flags \subseteq {"TXIS"} /\ b.left > 0
    /\ b.phase \in {"held", "stopping", "idle"} => b.left = 0 /\ b.shift = Empty
    /\ b.phase = "held" => \/ b.flags = {"TCR"} /\ b.reload = TRUE
                           \/ b.flags = {"TC"} /\ b.reload = FALSE /\ b.autoend = FALSE
    /\ b.phase \in {"stopping", "idle"} => b.reload = FALSE /\ b.autoend = TRUE
    /\ b.phase = "stopping" => b.flags = {}
    /\ b.phase = "idle" => b.flags = {"STOPF"}

\* After a NACK the peripheral sends a STOP.
StopFollows(b) ==
    /\ b.phase \in {"stopping", "idle"} /\ "ARLO" \notin b.flags
    /\ b.phase = "idle" <=> "STOPF" \in b.flags

Refusal(i, b) ==
    /\ StopFollows(b) /\ "NACKF" \in b.flags
    /\ i.state = "receive" => b.outcome = "address_nack" /\ i.count = 0
    /\ i.state = "transmit" /\ b.outcome = "address_nack" => i.count = 1 /\ b.txdr # Empty
    /\ i.state = "transmit" /\ b.outcome = "data_nack" => i.count >= 1 + One(b.txdr)

IsBusy(i)   == i.state \in {"transmit", "receive"}
IsActive(i) == i.state \in {"transmit", "receive", "nack"}

TransferInv(i, b, tr) ==
    /\ IsBusy(i) /\ b.outcome = "open" =>
          /\ SignalsOpen(b)
          /\ IF i.state = "transmit" THEN Sending(i, b, tr[i.current].message)
             ELSE Receiving(i, b, tr[i.current].message)
    /\ IsBusy(i) /\ b.outcome \in {"address_nack", "data_nack"} => Refusal(i, b)
    /\ IsBusy(i) /\ b.outcome = "arbitration_lost" =>
          b.phase = "idle" /\ b.flags = {"ARLO"}
    /\ i.state = "nack" =>
          /\ StopFollows(b) /\ i.count >= 0
          /\ b.outcome = IF i.count = 0 THEN "address_nack" ELSE "data_nack"

\* Between transactions.
RestInv(i, b) ==
    /\ i.rx >= 0 /\ i.count >= 0
    /\ i.locks = IF i.state = "ready" THEN 0 ELSE 1
    /\ i.state = "ready"   => b.phase = "off" /\ b.flags = {} /\ i.restart = FALSE
    /\ i.state = "restart" => b.phase = "held" /\ b.flags \subseteq {"TC"} /\ i.restart = TRUE
    /\ i.state = "stop"    => b.phase = "idle" /\ i.restart = FALSE

CurrentInv(i, tr) == IsActive(i) =>
    /\ i.current \in Client /\ tr[i.current].status = "busy"
    /\ i.address = tr[i.current].address
    /\ IsBusy(i) => i.restart = tr[i.current].restart

\* Who waits is busy, waits once, and is not on the bus.
QueueInv(i, tr) ==
    /\ \A j, k \in 1..Len(i.queue) : i.queue[j] = i.queue[k] => j = k
    /\ \A j \in 1..Len(i.queue) :
          /\ tr[i.queue[j]].status = "busy" /\ i.queue[j] # i.continue
          /\ IsActive(i) => i.queue[j] # i.current
    /\ i.continue # None => /\ tr[i.continue].status = "busy"
                            /\ IsActive(i) => i.continue # i.current

DriverInv(i, b, tr) ==
    /\ Types(i, b, tr) /\ RestInv(i, b) /\ CurrentInv(i, tr) /\ QueueInv(i, tr)
    /\ TransferInv(i, b, tr)

ClientTypes ==
    /\ holding \in [Client -> Address \cup {None}] /\ calling \subseteq Client
    /\ irq \in Truth /\ calls \in Nat

-----------------------------------------------------------------------------
(* Whom the bus is kept for. *)

\* The client that kept the bus knows it, is about to know, or has asked to go on.
Keeps(i, tr, hold, in) ==
    /\ i.current \in Client /\ i.address \in Address
    /\ \/ i.current \notin in /\ hold[i.current] = i.address /\ i.continue = None
       \/ /\ i.current = Wire /\ Wire \in in /\ i.continue = None
          /\ tr[Wire].status = "success" /\ tr[Wire].restart = TRUE
          /\ tr[Wire].address = i.address
       \/ tr[i.current].status = "busy" /\ i.continue = i.current

\* The driver waits for the client c.
Awaits(i, c) == i.state = "restart" /\ i.current = c /\ i.continue = None

KeepInv(i, tr, hold, in) ==
    /\ i.continue # None => i.state = "restart"
    /\ i.state = "restart" => Keeps(i, tr, hold, in)
    /\ \A c \in Client : c \notin in /\ hold[c] # None => Awaits(i, c)
    /\ Wire \in in /\ tr[Wire].status = "success" /\ tr[Wire].restart = TRUE =>
          Awaits(i, Wire)
    /\ tr[Wire].status = "busy" => Wire \in in

OrderInv == DriverInv(i2c, bus, trans) /\ i2c.state # "stop" /\ ClientTypes

\* Where no asynchronous call is held up (Prompt).
KeptInv == OrderInv /\ KeepInv(i2c, trans, holding, calling)

-----------------------------------------------------------------------------
(* Operators. *)

\* What CR2 is programmed with for a write.
LEMMA ProgramWriteFacts ==
  ASSUME NEW i \in Drivers, NEW b \in Peripherals
  PROVE  /\ ProgramWrite(i, b) = [b EXCEPT !.left = ProgramWrite(i, b).left,
                                           !.reload = ProgramWrite(i, b).reload,
                                           !.autoend = ProgramWrite(i, b).autoend,
                                           !.flags = b.flags \ {"TC", "TCR"}]
         /\ ProgramWrite(i, b) \in Peripherals
         /\ ProgramWrite(i, b).left = Least(Len(i.tx), NBYTES_MAX)
         /\ ProgramWrite(i, b).reload = TRUE <=> i.tx2 # <<>> \/ Len(i.tx) > NBYTES_MAX
         /\ ProgramWrite(i, b).autoend = TRUE <=>
               ProgramWrite(i, b).reload = FALSE /\ i.rx = 0 /\ i.restart = FALSE
<1> DEFINE more == i.tx2 # <<>> \/ Len(i.tx) > NBYTES_MAX
           auto == ~more /\ i.rx = 0 /\ ~i.restart
           n == Least(Len(i.tx), NBYTES_MAX)
<1>1. more \in BOOLEAN /\ auto \in BOOLEAN
  BY Zenon
<1>2. n \in Int
  BY SizeAssumption DEF Least, Drivers
<1>3. ProgramWrite(i, b) = Program(b, n, more, auto)
  BY DEF ProgramWrite
<1>4. i.restart = FALSE <=> ~i.restart
  <2>1. i.restart \in BOOLEAN
    BY Zenon DEF Drivers, Truth
  <2> QED
    BY <2>1, Zenon
<1>5. auto = TRUE <=> more = FALSE /\ i.rx = 0 /\ i.restart = FALSE
  BY <1>4, Zenon
<1>6. more = TRUE <=> i.tx2 # <<>> \/ Len(i.tx) > NBYTES_MAX
  BY Zenon
<1> HIDE DEF more, auto, n
<1>7. Program(b, n, more, auto) = [b EXCEPT !.left = n, !.reload = more, !.autoend = auto,
                                            !.flags = b.flags \ {"TC", "TCR"}]
  BY DEF Program
<1>8. Program(b, n, more, auto) \in Peripherals
  BY <1>1, <1>2, <1>7 DEF Peripherals, Truth
<1> QED
  BY <1>1, <1>2, <1>3, <1>5, <1>6, <1>7, <1>8 DEF Peripherals, n

\* What CR2 is programmed with for a read.
LEMMA ProgramReadFacts ==
  ASSUME NEW i \in Drivers, NEW b \in Peripherals
  PROVE  /\ ProgramRead(i, b) = [b EXCEPT !.left = ProgramRead(i, b).left,
                                          !.reload = ProgramRead(i, b).reload,
                                          !.autoend = ProgramRead(i, b).autoend,
                                          !.flags = b.flags \ {"TC", "TCR"}]
         /\ ProgramRead(i, b) \in Peripherals
         /\ ProgramRead(i, b).left = Least(i.rx, NBYTES_MAX)
         /\ ProgramRead(i, b).reload = TRUE <=> i.rx > NBYTES_MAX
         /\ ProgramRead(i, b).autoend = TRUE <=>
               ProgramRead(i, b).reload = FALSE /\ i.restart = FALSE
<1> DEFINE more == i.rx > NBYTES_MAX
           auto == ~more /\ ~i.restart
           n == Least(i.rx, NBYTES_MAX)
<1>a. more \in BOOLEAN
  BY SMT
<1>b. more = TRUE <=> i.rx > NBYTES_MAX
  BY SMT
<1> HIDE DEF more
<1>1. more \in BOOLEAN /\ auto \in BOOLEAN
  BY <1>a, Zenon
<1>2. n \in Int
  BY SizeAssumption DEF Least, Drivers
<1>3. ProgramRead(i, b) = Program(b, n, more, auto)
  BY DEF ProgramRead, more
<1>4. i.restart = FALSE <=> ~i.restart
  <2>1. i.restart \in BOOLEAN
    BY Zenon DEF Drivers, Truth
  <2> QED
    BY <2>1, Zenon
<1>5. auto = TRUE <=> more = FALSE /\ i.restart = FALSE
  BY <1>4, <1>a, Zenon
<1>6. more = TRUE <=> i.rx > NBYTES_MAX
  BY <1>b
<1> HIDE DEF auto, n
<1>7. Program(b, n, more, auto) = [b EXCEPT !.left = n, !.reload = more, !.autoend = auto,
                                            !.flags = b.flags \ {"TC", "TCR"}]
  BY DEF Program
<1>8. Program(b, n, more, auto) \in Peripherals
  BY <1>1, <1>2, <1>7 DEF Peripherals, Truth
<1> QED
  BY <1>1, <1>2, <1>3, <1>5, <1>6, <1>7, <1>8 DEF Peripherals, n

\* The least of two numbers.
LEMMA LeastFacts ==
  ASSUME NEW n \in Nat
  PROVE  /\ Least(n, NBYTES_MAX) \in Nat /\ Least(n, NBYTES_MAX) <= n
         /\ n > NBYTES_MAX => Least(n, NBYTES_MAX) < n
         /\ n <= NBYTES_MAX => Least(n, NBYTES_MAX) = n
         /\ n > 0 => Least(n, NBYTES_MAX) > 0
  BY SizeAssumption DEF Least

\* A step of the driver that loads a byte: who is on the bus, who waits and what
\* the client demands stay.
SameClients(i, j) ==
    /\ j.current = i.current /\ j.address = i.address /\ j.restart = i.restart
    /\ j.continue = i.continue /\ j.queue = i.queue /\ j.locks = i.locks

\* What went over the wire stays, and what the peripheral is to do.
SameWire(b, c) ==
    /\ c.sent = b.sent /\ c.shift = b.shift /\ c.got = b.got /\ c.outcome = b.outcome
    /\ c.phase = b.phase
SameCount(b, c) ==
    /\ c.left = b.left /\ c.reload = b.reload /\ c.autoend = b.autoend /\ c.read = b.read

\* The next byte of a buffer is loaded.
LEMMA LoadByteFacts ==
  ASSUME NEW i \in Drivers, NEW b \in Peripherals
  PROVE  /\ LoadByte(i, b).i = [i EXCEPT !.tx = Rest(i.tx), !.count = i.count + 1]
         /\ LoadByte(i, b).b = [b EXCEPT !.txdr = Loaded(i.tx), !.flags = b.flags \ {"TXIS"}]
         /\ LoadByte(i, b).i \in Drivers /\ LoadByte(i, b).b \in Peripherals
         /\ SameClients(i, LoadByte(i, b).i)
         /\ LoadByte(i, b).i.state = i.state /\ LoadByte(i, b).i.tx = Rest(i.tx)
         /\ LoadByte(i, b).i.count = i.count + 1 /\ LoadByte(i, b).i.tx2 = i.tx2
         /\ LoadByte(i, b).i.rx = i.rx
         /\ LoadByte(i, b).b.txdr = Loaded(i.tx)
         /\ LoadByte(i, b).b.flags = b.flags \ {"TXIS"}
         /\ SameWire(b, LoadByte(i, b).b) /\ SameCount(b, LoadByte(i, b).b)
         /\ i.tx # <<>> => /\ Loaded(i.tx) = i.tx[1] /\ Len(Rest(i.tx)) = Len(i.tx) - 1
                           /\ \A k \in 1..Len(i.tx) - 1 : Rest(i.tx)[k] = i.tx[k + 1]
         /\ i.tx = <<>> => Loaded(i.tx) = Junk /\ Rest(i.tx) = <<>>
<1>1. i.tx \in Seq(Nat) /\ i.count \in Int
  BY DEF Drivers
<1>2. Rest(i.tx) \in Seq(Nat) /\ Loaded(i.tx) \in Nat
  BY <1>1 DEF Rest, Loaded, Junk
<1>3. LoadByte(i, b).i = [i EXCEPT !.tx = Rest(i.tx), !.count = i.count + 1]
  BY DEF LoadByte, Drivers
<1>4. LoadByte(i, b).b = [b EXCEPT !.txdr = Loaded(i.tx), !.flags = b.flags \ {"TXIS"}]
  BY DEF LoadByte, Peripherals
<1>5. LoadByte(i, b).i \in Drivers
  <2>1. i.count + 1 \in Int
    BY <1>1
  <2> QED
    BY <1>2, <1>3, <2>1, Zenon DEF Drivers
<1>6. LoadByte(i, b).b \in Peripherals
  BY <1>2, <1>4 DEF Peripherals
<1>7. i.tx # <<>> => /\ Loaded(i.tx) = i.tx[1] /\ Len(Rest(i.tx)) = Len(i.tx) - 1
                     /\ \A k \in 1..Len(i.tx) - 1 : Rest(i.tx)[k] = i.tx[k + 1]
  BY <1>1 DEF Loaded, Rest
<1>8. i.tx = <<>> => Loaded(i.tx) = Junk /\ Rest(i.tx) = <<>>
  BY DEF Loaded, Rest
<1>9. SameClients(i, LoadByte(i, b).i)
  BY <1>3 DEF Drivers, SameClients
<1>10. /\ LoadByte(i, b).i.state = i.state /\ LoadByte(i, b).i.tx = Rest(i.tx)
       /\ LoadByte(i, b).i.count = i.count + 1 /\ LoadByte(i, b).i.tx2 = i.tx2
       /\ LoadByte(i, b).i.rx = i.rx
  BY <1>3 DEF Drivers
<1>11. /\ LoadByte(i, b).b.txdr = Loaded(i.tx)
       /\ LoadByte(i, b).b.flags = b.flags \ {"TXIS"}
  BY <1>4 DEF Peripherals
<1>12. SameWire(b, LoadByte(i, b).b) /\ SameCount(b, LoadByte(i, b).b)
  BY <1>4 DEF Peripherals, SameWire, SameCount
<1> QED
  BY <1>3, <1>4, <1>5, <1>6, <1>7, <1>8, <1>9, <1>10, <1>11, <1>12, Zenon

\* The buffers of a message are numbered from 2 on.
LEMMA BytesFacts ==
  ASSUME NEW m \in Messages
  PROVE  /\ Bytes1(m) \in Seq(Nat) /\ Bytes2(m) \in Seq(Nat)
         /\ Total(m) = Len(Bytes1(m)) + Len(Bytes2(m)) /\ Total(m) \in Nat
         /\ From(Bytes1(m), 0) /\ From(Bytes2(m), Len(Bytes1(m)))
         /\ Bytes1(m) = <<>> => Bytes2(m) = <<>>
         /\ m.tx = <<>> => Bytes1(m) = <<>> /\ m.rx > 0
         /\ m.rx \in Nat
<1> DEFINE n1 == IF m.tx = <<>> THEN 0 ELSE m.tx[1]
           n2 == IF Len(m.tx) = 2 THEN m.tx[2] ELSE 0
<1>1. /\ m.rx \in Nat /\ m.tx \in Seq(Nat) /\ Len(m.tx) \in 0..2
      /\ m.tx = <<>> => m.rx > 0
      /\ Len(m.tx) = 2 => m.tx[1] > 0 /\ m.tx[2] > 0 /\ m.rx = 0
  BY MessageAssumption
<1>2. n1 \in Nat /\ n2 \in Nat /\ (n2 # 0 => n1 = m.tx[1]) /\ (n1 = 0 => n2 = 0)
      /\ (m.tx = <<>> => n1 = 0)
  BY <1>1
<1>3. Bytes1(m) = [k \in 1..n1 |-> k + 1] /\ Bytes2(m) = [k \in 1..n2 |-> m.tx[1] + k + 1]
  BY DEF Bytes1, Bytes2
<1> HIDE DEF n1, n2
<1>4. Bytes1(m) \in Seq(Nat) /\ Len(Bytes1(m)) = n1
  BY <1>2, <1>3
<1>5. Bytes2(m) \in Seq(Nat) /\ Len(Bytes2(m)) = n2
  <2>1. CASE n2 = 0
    BY <1>3, <2>1
  <2>2. CASE n2 # 0
    BY <1>2, <1>3, <2>2
  <2> QED
    BY <2>1, <2>2
<1>6. From(Bytes1(m), 0) /\ From(Bytes2(m), Len(Bytes1(m)))
  BY <1>2, <1>3, <1>4, <1>5 DEF From
<1>7. n1 = 0 => Bytes1(m) = <<>>
  BY <1>4
<1>8. n2 = 0 => Bytes2(m) = <<>>
  BY <1>5
<1> QED
  BY <1>1, <1>2, <1>4, <1>5, <1>6, <1>7, <1>8 DEF Total

\* NBYTES is programmed, and nothing is in hand.
Buffered(i, b, m) ==
    /\ From(b.sent, 0) /\ From(i.tx, Len(b.sent)) /\ From(i.tx2, Len(b.sent) + Len(i.tx))
    /\ Len(b.sent) + Len(i.tx) + Len(i.tx2) = Total(m)
    /\ i.tx = <<>> => i.tx2 = <<>>
    /\ b.shift = Empty /\ i.count = Len(b.sent)

Programmed(i, b) ==
    /\ b.left = Least(Len(i.tx), NBYTES_MAX)
    /\ b.reload = TRUE <=> i.tx2 # <<>> \/ Len(i.tx) > NBYTES_MAX
    /\ b.autoend = TRUE <=> b.reload = FALSE /\ i.rx = 0 /\ i.restart = FALSE

ToBeRead(i, b, m) ==
    /\ i.rx = m.rx /\ b.got = 0 /\ b.read = FALSE
    /\ b.phase = "address" => b.sent = <<>>

\* Arithmetic of the numbering.
LEMMA OneLess ==
  ASSUME NEW n \in Int, NEW x \in Int, NEW y, y = x - 1
  PROVE  n + 1 + y = n + x
  OBVIOUS

\* As above.
LEMMA NextNumber ==
  ASSUME NEW n \in Int, NEW k \in Int
  PROVE  n + (k + 1) + 1 = n + 1 + k + 1
  OBVIOUS

\* As above.
LEMMA NoMore ==
  ASSUME NEW n \in Int, NEW x, x = 0
  PROVE  n + x = n
  OBVIOUS

\* The first byte after NBYTES is programmed puts the buffers in order.
LEMMA FirstByte ==
  ASSUME NEW i \in Drivers, NEW b \in Peripherals, NEW m \in Messages,
         Buffered(i, b, m), Programmed(i, b), ToBeRead(i, b, m)
  PROVE  Sending(LoadByte(i, b).i, LoadByte(i, b).b, m)
<1> DEFINE j == LoadByte(i, b).i
           c == LoadByte(i, b).b
<1> SUFFICES Sending(j, c, m)
  OBVIOUS
<1>1. /\ i.tx # <<>> => /\ Loaded(i.tx) = i.tx[1] /\ Len(Rest(i.tx)) = Len(i.tx) - 1
                        /\ \A k \in 1..Len(i.tx) - 1 : Rest(i.tx)[k] = i.tx[k + 1]
      /\ i.tx = <<>> => Loaded(i.tx) = Junk /\ Rest(i.tx) = <<>>
  BY LoadByteFacts
<1>2. /\ j.tx = Rest(i.tx) /\ j.count = i.count + 1 /\ j.tx2 = i.tx2 /\ j.rx = i.rx
      /\ j.restart = i.restart
      /\ c.txdr = Loaded(i.tx) /\ c.flags = b.flags \ {"TXIS"} /\ c.sent = b.sent
      /\ c.shift = b.shift /\ c.left = b.left /\ c.reload = b.reload
      /\ c.autoend = b.autoend /\ c.got = b.got /\ c.read = b.read /\ c.phase = b.phase
  BY LoadByteFacts, Zenon DEF SameClients, SameWire, SameCount
<1> HIDE DEF j, c
<1>s. i.tx \in Seq(Nat) /\ i.tx2 \in Seq(Nat) /\ b.sent \in Seq(Nat)
  <2>1. i.tx \in Seq(Nat) /\ i.tx2 \in Seq(Nat)
    BY DEF Drivers
  <2>2. b.sent \in Seq(Nat)
    BY DEF Peripherals
  <2> QED
    BY <2>1, <2>2
<1>3. Len(i.tx) \in Nat /\ Len(i.tx2) \in Nat /\ Len(b.sent) \in Nat
  BY <1>s
<1>4. One(c.shift) = 0 /\ b.shift = Empty /\ i.count = Len(b.sent)
  BY <1>2 DEF One, Buffered
<1>5. /\ b.left \in Nat /\ b.left <= Len(i.tx)
      /\ Len(i.tx) > NBYTES_MAX <=> b.left < Len(i.tx)
      /\ Len(i.tx) > 0 => b.left > 0
  BY <1>3, LeastFacts, SizeAssumption DEF Programmed
<1>6. CASE i.tx = <<>>
  <2>1. /\ Len(i.tx) = 0 /\ i.tx2 = <<>> /\ Len(i.tx2) = 0 /\ j.tx = <<>> /\ Len(j.tx) = 0
        /\ c.txdr = Junk /\ b.left = 0 /\ j.tx2 = <<>> /\ Len(j.tx2) = 0
    BY <1>1, <1>2, <1>3, <1>s, <1>5, <1>6 DEF Buffered
  <2>2. Real(c.txdr) = 0 /\ One(c.txdr) = 1 /\ InHand(c) = 0 /\ c.txdr # Empty
    BY <1>4, <2>1 DEF Real, One, InHand, Junk, Empty
  <2>3. From(j.tx, Len(c.sent) + InHand(c)) /\ From(j.tx2, Len(c.sent) + InHand(c) + Len(j.tx))
    BY <2>1 DEF From
  <2> QED
    <3>1. Placed(j, c, m)
      BY <1>2, <1>3, <1>4, <2>1, <2>2, <2>3 DEF Placed, Buffered
    <3>2. Counted(j, c)
      BY <1>2, <1>3, <1>4, <1>5, <2>1, <2>2, SizeAssumption DEF Counted, Programmed
    <3>3. Register(j, c)
      BY <1>2, <1>4, <2>1, <2>2 DEF Register, ToBeRead
    <3> QED
      BY <1>2, <3>1, <3>2, <3>3 DEF Sending, ToBeRead
<1>7. CASE i.tx # <<>>
  <2>1. Len(i.tx) > 0 /\ Len(j.tx) = Len(i.tx) - 1 /\ c.txdr = i.tx[1] /\ Len(j.tx) \in Nat
    BY <1>1, <1>2, <1>3, <1>s, <1>7
  <2>a. Len(c.sent) = Len(b.sent) /\ Len(j.tx2) = Len(i.tx2)
    BY <1>2
  <2>b. Len(b.sent) + 1 + Len(j.tx) = Len(b.sent) + Len(i.tx)
    <3>1. Len(b.sent) \in Int /\ Len(i.tx) \in Int
      BY <1>3
    <3> QED
      BY <2>1, <3>1, OneLess, Zenon
  <2>2. c.txdr = Len(b.sent) + 2
    BY <1>3, <2>1 DEF From, Buffered
  <2>3. Real(c.txdr) = 1 /\ One(c.txdr) = 1 /\ InHand(c) = 1 /\ c.txdr # Empty /\ c.txdr # Junk
    BY <1>3, <1>4, <2>2 DEF Real, One, InHand, Junk, Empty
  <2>4. From(j.tx, Len(c.sent) + InHand(c))
    <3> SUFFICES ASSUME NEW k \in 1..Len(j.tx)
                 PROVE  j.tx[k] = Len(b.sent) + 1 + k + 1
      BY <2>a, <2>3 DEF From
    <3>0. k \in Int /\ k + 1 \in 1..Len(i.tx) /\ k \in 1..Len(i.tx) - 1
      BY <1>3, <2>1
    <3>1. j.tx[k] = i.tx[k + 1]
      BY <1>1, <1>2, <1>7, <3>0
    <3>2. i.tx[k + 1] = Len(b.sent) + (k + 1) + 1
      BY <3>0 DEF From, Buffered
    <3>3. Len(b.sent) \in Int
      BY <1>3
    <3> QED
      BY <3>0, <3>1, <3>2, <3>3, NextNumber, Zenon
  <2>5. From(j.tx2, Len(c.sent) + InHand(c) + Len(j.tx))
    <3>1. Len(c.sent) + InHand(c) + Len(j.tx) = Len(b.sent) + Len(i.tx)
      BY <2>b, <2>a, <2>3, Zenon
    <3> QED
      BY <1>2, <3>1 DEF Buffered
  <2>6. Placed(j, c, m)
    <3>1. c.shift = Empty /\ c.sent = b.sent
      BY <1>2, <1>4
    <3>2. Len(c.sent) + InHand(c) + Len(j.tx) + Len(j.tx2) = Total(m)
      <4>1. Len(c.sent) + InHand(c) + Len(j.tx) = Len(b.sent) + Len(i.tx)
        BY <2>b, <2>a, <2>3, Zenon
      <4> QED
        BY <4>1, <2>a DEF Buffered
    <3>3. c.txdr = Len(c.sent) + One(c.shift) + 2
      BY <1>3, <1>4, <2>a, <2>2
    <3> QED
      BY <2>4, <2>5, <3>1, <3>2, <3>3 DEF Placed, Buffered
  <2>7. Counted(j, c)
    <3>1. j.count = Len(c.sent) + One(c.shift) + One(c.txdr)
      BY <1>2, <1>3, <1>4, <2>a, <2>3
    <3>2. InHand(c) <= c.left /\ c.left <= InHand(c) + Len(j.tx)
      BY <1>2, <1>3, <1>5, <2>1, <2>3
    <3>3. c.left < InHand(c) + Len(j.tx) <=> Len(i.tx) > NBYTES_MAX
      BY <1>2, <1>3, <1>5, <2>1, <2>3
    <3>4. c.reload = TRUE <=> j.tx2 # <<>> \/ c.left < InHand(c) + Len(j.tx)
      BY <1>2, <3>3 DEF Programmed
    <3>5. c.autoend = TRUE <=> c.reload = FALSE /\ j.rx = 0 /\ j.restart = FALSE
      BY <1>2 DEF Programmed
    <3> QED
      BY <3>1, <3>2, <3>4, <3>5 DEF Counted
  <2>8. Register(j, c)
    BY <1>2, <1>4, <2>3 DEF Register, ToBeRead
  <2> QED
    BY <1>2, <2>6, <2>7, <2>8 DEF Sending, ToBeRead
<1> QED
  BY <1>6, <1>7

\* A write starts.
LEMMA TransmitFacts ==
  ASSUME NEW i \in Drivers, NEW b \in Peripherals, NEW m \in Messages,
         m.tx # <<>>, i.tx = Bytes1(m), i.tx2 = Bytes2(m), i.rx = m.rx,
         b.sent = <<>>, b.got = 0
  PROVE  /\ Transmit(i, b).i \in Drivers /\ Transmit(i, b).b \in Peripherals
         /\ SameClients(i, Transmit(i, b).i)
         /\ Transmit(i, b).i.state = "transmit" /\ Transmit(i, b).b.outcome = b.outcome
         /\ Transmit(i, b).i.rx = i.rx /\ Transmit(i, b).i.count >= 0
         /\ SignalsOpen(Transmit(i, b).b)
         /\ Sending(Transmit(i, b).i, Transmit(i, b).b, m)
<1> DEFINE i0 == [i EXCEPT !.state = "transmit", !.count = 0]
           b0 == Start(b, FALSE)
           b1 == ProgramWrite(i, b0)
<1>0. i0 \in Drivers
  <2>1. "transmit" \in States /\ 0 \in Int
    BY DEF States
  <2> QED
    BY <2>1, Zenon DEF Drivers
<1>1. i0.state = "transmit" /\ i0.count = 0 /\ i0.tx = i.tx /\ i0.tx2 = i.tx2 /\ i0.rx = i.rx
      /\ i0.restart = i.restart
  BY DEF Drivers
<1>a. SameClients(i, i0)
  BY DEF Drivers, SameClients
<1>2. FALSE \in Truth /\ TRUE \in Truth
  BY DEF Truth
<1>3. b0 \in Peripherals /\ b0.phase = "address" /\ b0.read = FALSE /\ b0.flags = {}
      /\ b0.txdr = Empty /\ b0.shift = Empty /\ b0.sent = <<>> /\ b0.got = 0
      /\ b0.outcome = b.outcome
  BY <1>2 DEF Peripherals, Phases, Start, Empty
<1> HIDE DEF i0, b0
<1>4. /\ b1 \in Peripherals
      /\ b1.left = Least(Len(i0.tx), NBYTES_MAX)
      /\ b1.reload = TRUE <=> i0.tx2 # <<>> \/ Len(i0.tx) > NBYTES_MAX
      /\ b1.autoend = TRUE <=> b1.reload = FALSE /\ i0.rx = 0 /\ i0.restart = FALSE
  <2>1. b1 \in Peripherals /\ b1.left = Least(Len(i.tx), NBYTES_MAX)
    BY <1>3, ProgramWriteFacts, Zenon
  <2>2. b1.reload = TRUE <=> i.tx2 # <<>> \/ Len(i.tx) > NBYTES_MAX
    BY <1>3, ProgramWriteFacts, Zenon
  <2>3. b1.autoend = TRUE <=> b1.reload = FALSE /\ i.rx = 0 /\ i.restart = FALSE
    BY <1>3, ProgramWriteFacts, Zenon
  <2> HIDE DEF b1
  <2> QED
    BY <1>1, <2>1, <2>2, <2>3
<1>b. b1 = [b0 EXCEPT !.left = b1.left, !.reload = b1.reload, !.autoend = b1.autoend,
                      !.flags = b0.flags \ {"TC", "TCR"}]
  BY <1>3, ProgramWriteFacts, Zenon
<1> HIDE DEF b1
<1>5. b1.phase = "address" /\ b1.read = FALSE /\ b1.flags = {}
      /\ b1.txdr = Empty /\ b1.shift = Empty /\ b1.sent = <<>> /\ b1.got = 0
      /\ b1.outcome = b.outcome
  BY <1>3, <1>b DEF Peripherals
<1>6. From(b1.sent, 0) /\ Len(b1.sent) = 0
  BY <1>5 DEF From
<1>7. Sending(LoadByte(i0, b1).i, LoadByte(i0, b1).b, m)
  <2>1. From(i0.tx, Len(b1.sent)) /\ From(i0.tx2, Len(b1.sent) + Len(i0.tx))
        /\ Len(b1.sent) + Len(i0.tx) + Len(i0.tx2) = Total(m) /\ (i0.tx = <<>> => i0.tx2 = <<>>)
    <3>1. /\ Bytes1(m) \in Seq(Nat) /\ Bytes2(m) \in Seq(Nat)
          /\ Total(m) = Len(Bytes1(m)) + Len(Bytes2(m))
          /\ From(Bytes1(m), 0) /\ From(Bytes2(m), Len(Bytes1(m)))
          /\ Bytes1(m) = <<>> => Bytes2(m) = <<>>
      BY BytesFacts
    <3>2. 0 + Len(Bytes1(m)) = Len(Bytes1(m))
      BY <3>1
    <3> QED
      BY <1>1, <1>6, <3>1, <3>2
  <2> QED
    <3>1. Buffered(i0, b1, m)
      BY <1>1, <1>5, <1>6, <2>1 DEF Buffered
    <3>2. Programmed(i0, b1)
      BY <1>4 DEF Programmed
    <3>3. ToBeRead(i0, b1, m)
      BY <1>1, <1>5 DEF ToBeRead
    <3>4. b1 \in Peripherals
      BY <1>4
    <3> QED
      BY <1>0, <3>1, <3>2, <3>3, <3>4, FirstByte, Zenon
<1>8. /\ LoadByte(i0, b1).i \in Drivers /\ LoadByte(i0, b1).b \in Peripherals
      /\ SameClients(i0, LoadByte(i0, b1).i)
      /\ LoadByte(i0, b1).i.state = i0.state /\ LoadByte(i0, b1).i.rx = i0.rx
      /\ LoadByte(i0, b1).i.count = i0.count + 1
      /\ LoadByte(i0, b1).b.flags = b1.flags \ {"TXIS"}
      /\ SameWire(b1, LoadByte(i0, b1).b) /\ SameCount(b1, LoadByte(i0, b1).b)
  BY <1>0, <1>4, LoadByteFacts, Zenon
<1>9. Transmit(i, b) = LoadByte(i0, b1)
  BY Zenon DEF Transmit, i0, b0, b1
<1>10. LoadByte(i0, b1).i.state = "transmit" /\ LoadByte(i0, b1).i.rx = i.rx
       /\ LoadByte(i0, b1).i.count >= 0
  BY <1>1, <1>8
<1>11. LoadByte(i0, b1).b.phase = "address" /\ LoadByte(i0, b1).b.flags = {}
       /\ LoadByte(i0, b1).b.outcome = b.outcome /\ LoadByte(i0, b1).b.left = b1.left
  BY <1>5, <1>8 DEF SameWire, SameCount
<1>12. b1.left >= 0
  BY <1>1, <1>4, LeastFacts DEF Drivers
<1>13. SignalsOpen(LoadByte(i0, b1).b)
  BY <1>11, <1>12 DEF SignalsOpen
<1>14. SameClients(i, LoadByte(i0, b1).i)
  BY <1>a, <1>8 DEF SameClients
<1> QED
  BY <1>1, <1>7, <1>8, <1>9, <1>10, <1>11, <1>13, <1>14

\* A read starts, alone or after the write of its transaction.
LEMMA ReceiveFacts ==
  ASSUME NEW i \in Drivers, NEW b \in Peripherals, NEW m \in Messages,
         i.rx = m.rx, From(b.sent, 0), Len(b.sent) = Total(m), b.got = 0
  PROVE  /\ Receive(i, b).i \in Drivers /\ Receive(i, b).b \in Peripherals
         /\ SameClients(i, Receive(i, b).i)
         /\ Receive(i, b).i.state = "receive" /\ Receive(i, b).b.outcome = b.outcome
         /\ Receive(i, b).i.rx >= 0 /\ Receive(i, b).i.count >= 0
         /\ SignalsOpen(Receive(i, b).b)
         /\ Receiving(Receive(i, b).i, Receive(i, b).b, m)
<1> DEFINE n  == Least(i.rx, NBYTES_MAX)
           j  == [i EXCEPT !.state = "receive", !.count = 0, !.rx = i.rx - n]
           b0 == Start(b, TRUE)
           c  == ProgramRead(i, b0)
<1>0. Receive(i, b).i = j /\ Receive(i, b).b = c
  <2>1. Receive(i, b).i = [i EXCEPT !.state = "receive", !.count = 0, !.rx = i.rx - n]
    BY DEF Receive, Drivers
  <2>2. Receive(i, b).b = c
    BY DEF Receive
  <2> QED
    BY <2>1, <2>2, Zenon
<1>1. m.rx \in Nat /\ i.rx \in Nat
  BY BytesFacts
<1>2. n \in Nat /\ n <= i.rx /\ i.rx - n \in Nat /\ (i.rx > NBYTES_MAX <=> i.rx - n > 0)
  BY <1>1, LeastFacts, SizeAssumption
<1> HIDE DEF n
<1>3. j \in Drivers
  <2>1. "receive" \in States /\ 0 \in Int /\ i.rx - n \in Int
    BY <1>2 DEF States
  <2> QED
    BY <2>1, Zenon DEF Drivers
<1>4. j.state = "receive" /\ j.count = 0 /\ j.rx = i.rx - n /\ j.restart = i.restart
  BY DEF Drivers
<1>5. SameClients(i, j)
  BY DEF Drivers, SameClients
<1>6. FALSE \in Truth /\ TRUE \in Truth
  BY DEF Truth
<1>7. b0 \in Peripherals /\ b0.phase = "address" /\ b0.read = TRUE /\ b0.flags = {}
      /\ b0.txdr = Empty /\ b0.shift = Empty /\ b0.sent = b.sent /\ b0.got = 0
      /\ b0.outcome = b.outcome
  BY <1>6 DEF Peripherals, Phases, Start, Empty
<1> HIDE DEF j, b0
<1>8. c \in Peripherals /\ c.left = n
  BY <1>7, ProgramReadFacts, Zenon DEF n
<1>9. c.reload = TRUE <=> i.rx > NBYTES_MAX
  BY <1>7, ProgramReadFacts, Zenon
<1>10. c.autoend = TRUE <=> c.reload = FALSE /\ i.restart = FALSE
  BY <1>7, ProgramReadFacts, Zenon
<1>11. c = [b0 EXCEPT !.left = c.left, !.reload = c.reload, !.autoend = c.autoend,
                      !.flags = b0.flags \ {"TC", "TCR"}]
  BY <1>7, ProgramReadFacts, Zenon
<1> HIDE DEF c
<1>12. c.phase = "address" /\ c.read = TRUE /\ c.flags = {} /\ c.txdr = Empty
       /\ c.shift = Empty /\ c.sent = b.sent /\ c.got = 0 /\ c.outcome = b.outcome
  BY <1>7, <1>11 DEF Peripherals
<1>13. SignalsOpen(c)
  BY <1>2, <1>8, <1>12 DEF SignalsOpen
<1>14. Receiving(j, c, m)
  <2>1. 0 + n + (i.rx - n) = m.rx
    BY <1>1, <1>2
  <2>2. c.got + c.left + j.rx = m.rx
    BY <1>4, <1>8, <1>12, <2>1, Zenon
  <2>3. j.rx >= 0 /\ c.left >= 0
    BY <1>2, <1>4, <1>8
  <2>4. c.reload = TRUE <=> j.rx > 0
    BY <1>2, <1>4, <1>9
  <2>5. c.autoend = TRUE <=> c.reload = FALSE /\ j.restart = FALSE
    BY <1>4, <1>10
  <2> QED
    BY <1>4, <1>12, <2>2, <2>3, <2>4, <2>5 DEF Receiving
<1>15. j.rx >= 0 /\ j.count >= 0
  BY <1>2, <1>4
<1> QED
  BY <1>0, <1>3, <1>4, <1>5, <1>8, <1>12, <1>13, <1>14, <1>15, Zenon

-----------------------------------------------------------------------------
(* From one transaction to the next. *)

\* The driver and the peripheral as Begin hands them to Transmit or Receive.
Begun(i, t) ==
    [i EXCEPT !.continue = None,
              !.queue    = IF i.continue # None THEN @ ELSE Tail(@),
              !.locks    = Locks(i), !.current = t,
              !.address  = trans[t].address, !.restart = trans[t].restart,
              !.tx  = Bytes1(trans[t].message), !.tx2 = Bytes2(trans[t].message),
              !.rx  = trans[t].message.rx]

Fresh(b) == [b EXCEPT !.sent = <<>>, !.got = 0, !.outcome = "open"]

\* What Begin prepares.
LEMMA BegunFacts ==
  ASSUME NEW i \in Drivers, NEW t \in Client, trans[t] \in Transactions,
         i.continue = None => i.queue # <<>>
  PROVE  /\ Begun(i, t) \in Drivers
         /\ Begun(i, t).current = t /\ Begun(i, t).address = trans[t].address
         /\ Begun(i, t).restart = trans[t].restart
         /\ Begun(i, t).continue = None
         /\ Begun(i, t).queue = IF i.continue # None THEN i.queue ELSE Tail(i.queue)
         /\ Begun(i, t).locks = Locks(i)
         /\ Begun(i, t).tx = Bytes1(trans[t].message)
         /\ Begun(i, t).tx2 = Bytes2(trans[t].message)
         /\ Begun(i, t).rx = trans[t].message.rx
<1> DEFINE m == trans[t].message
           q == IF i.continue # None THEN i.queue ELSE Tail(i.queue)
           a == trans[t].address
           r == trans[t].restart
           l == Locks(i)
           x == Bytes1(m)
           y == Bytes2(m)
           z == m.rx
           j == [i EXCEPT !.continue = None, !.queue = q, !.locks = l, !.current = t,
                          !.address = a, !.restart = r, !.tx = x, !.tx2 = y, !.rx = z]
<1>1. m \in Messages /\ a \in Address /\ r \in Truth
  BY DEF Transactions
<1>2. q \in Seq(Client)
  BY DEF Drivers
<1>3. l \in Int
  BY DEF Drivers, Locks
<1>4. x \in Seq(Nat) /\ y \in Seq(Nat) /\ z \in Int
  BY <1>1, BytesFacts
<1>5. Begun(i, t) = j
  BY DEF Begun, Drivers
<1> HIDE DEF m, q, a, r, l, x, y, z
<1>6. j \in Drivers
  BY <1>1, <1>2, <1>3, <1>4, Zenon DEF Drivers
<1>7. /\ j.current = t /\ j.address = a /\ j.restart = r /\ j.continue = None
      /\ j.queue = q /\ j.locks = l /\ j.tx = x /\ j.tx2 = y /\ j.rx = z
  BY DEF Drivers
<1> QED
  BY <1>5, <1>6, <1>7, Zenon DEF m, q, a, r, l, x, y, z

\* As above, of the peripheral.
LEMMA FreshFacts ==
  ASSUME NEW b \in Peripherals
  PROVE  /\ Fresh(b) \in Peripherals
         /\ Fresh(b).sent = <<>> /\ Fresh(b).got = 0 /\ Fresh(b).outcome = "open"
<1>1. Fresh(b) = [b EXCEPT !.sent = <<>>, !.got = 0, !.outcome = "open"]
  BY DEF Fresh
<1>2. "open" \in Outcomes /\ <<>> \in Seq(Nat) /\ 0 \in Int
  BY DEF Outcomes
<1>3. [b EXCEPT !.sent = <<>>, !.got = 0, !.outcome = "open"] \in Peripherals
  BY <1>2, Zenon DEF Peripherals
<1> QED
  BY <1>1, <1>3 DEF Peripherals

\* A transaction starts: the driver is busy with it, as the client demanded.
LEMMA BeginFacts ==
  ASSUME NEW i \in Drivers, NEW b \in Peripherals, NEW t \in Client,
         trans[t] \in Transactions, i.continue = None => i.queue # <<>>
  PROVE  /\ Begin(i, b, t).i \in Drivers /\ Begin(i, b, t).b \in Peripherals
         /\ SameClients(Begun(i, t), Begin(i, b, t).i)
         /\ IsBusy(Begin(i, b, t).i) /\ Begin(i, b, t).b.outcome = "open"
         /\ Begin(i, b, t).i.rx >= 0 /\ Begin(i, b, t).i.count >= 0
         /\ SignalsOpen(Begin(i, b, t).b)
         /\ IF Begin(i, b, t).i.state = "transmit"
            THEN Sending(Begin(i, b, t).i, Begin(i, b, t).b, trans[t].message)
            ELSE Receiving(Begin(i, b, t).i, Begin(i, b, t).b, trans[t].message)
<1> DEFINE m == trans[t].message
           j == Begun(i, t)
           c == Fresh(b)
<1>1. m \in Messages
  BY DEF Transactions
<1>2. j \in Drivers /\ j.tx = Bytes1(m) /\ j.tx2 = Bytes2(m) /\ j.rx = m.rx
  BY BegunFacts, Zenon
<1>3. c \in Peripherals /\ c.sent = <<>> /\ c.got = 0 /\ c.outcome = "open"
  BY FreshFacts
<1>4. Begin(i, b, t) = IF m.tx # <<>> THEN Transmit(j, c) ELSE Receive(j, c)
  BY DEF Begin, Begun, Fresh
<1> HIDE DEF j, c, m
<1>5. CASE m.tx # <<>>
  <2>1. Begin(i, b, t) = Transmit(j, c)
    BY <1>4, <1>5
  <2>2. /\ Transmit(j, c).i \in Drivers /\ Transmit(j, c).b \in Peripherals
        /\ SameClients(j, Transmit(j, c).i)
        /\ Transmit(j, c).i.state = "transmit" /\ Transmit(j, c).b.outcome = c.outcome
        /\ Transmit(j, c).i.rx = j.rx /\ Transmit(j, c).i.count >= 0
        /\ SignalsOpen(Transmit(j, c).b)
        /\ Sending(Transmit(j, c).i, Transmit(j, c).b, m)
    BY <1>1, <1>2, <1>3, <1>5, TransmitFacts, Zenon
  <2>3. Transmit(j, c).i.rx >= 0
    BY <1>1, <1>2, <2>2, BytesFacts
  <2>4. IsBusy(Transmit(j, c).i)
    BY <2>2 DEF IsBusy
  <2> QED
    BY <1>3, <2>1, <2>2, <2>3, <2>4, Zenon DEF j, m
<1>6. CASE m.tx = <<>>
  <2>1. Begin(i, b, t) = Receive(j, c)
    BY <1>4, <1>6
  <2>2. From(c.sent, 0) /\ Len(c.sent) = Total(m)
    BY <1>1, <1>3, <1>6, BytesFacts DEF From
  <2>3. /\ Receive(j, c).i \in Drivers /\ Receive(j, c).b \in Peripherals
        /\ SameClients(j, Receive(j, c).i)
        /\ Receive(j, c).i.state = "receive" /\ Receive(j, c).b.outcome = c.outcome
        /\ Receive(j, c).i.rx >= 0 /\ Receive(j, c).i.count >= 0
        /\ SignalsOpen(Receive(j, c).b)
        /\ Receiving(Receive(j, c).i, Receive(j, c).b, m)
    BY <1>1, <1>2, <1>3, <2>2, ReceiveFacts, Zenon
  <2>4. IsBusy(Receive(j, c).i) /\ Receive(j, c).i.state # "transmit"
    BY <2>3 DEF IsBusy
  <2> QED
    BY <1>3, <2>1, <2>3, <2>4, Zenon DEF j, m
<1> QED
  BY <1>5, <1>6

\* The four ways through the tail of an entry.
LEMMA DispatchCases ==
  ASSUME NEW i \in Drivers, NEW b \in Peripherals
  PROVE  /\ IsActive(i) => Dispatch(i, b).i = i /\ Dispatch(i, b).b = b
         /\ ~IsActive(i) /\ Chosen(i) # None => Dispatch(i, b) = Begin(i, b, Chosen(i))
         /\ ~IsActive(i) /\ Chosen(i) = None /\ i.state = "stop" =>
               /\ Dispatch(i, b).i = [i EXCEPT !.state = "ready", !.locks = i.locks - 1]
               /\ Dispatch(i, b).b = [b EXCEPT !.phase = "off", !.flags = {}]
         /\ ~IsActive(i) /\ Chosen(i) = None /\ i.state # "stop" =>
               Dispatch(i, b).i = i /\ Dispatch(i, b).b = b
<1>1. i.state \in States
  BY DEF Drivers
<1>2. IsActive(i) <=> i.state \notin {"ready", "stop", "restart"}
  BY <1>1 DEF IsActive, States
<1>3. IsActive(i) => Dispatch(i, b) = [i |-> i, b |-> b]
  BY <1>2 DEF Dispatch
<1>4. ~IsActive(i) /\ Chosen(i) # None => Dispatch(i, b) = Begin(i, b, Chosen(i))
  BY <1>2 DEF Dispatch
<1>5. ~IsActive(i) /\ Chosen(i) = None /\ i.state = "stop" =>
        Dispatch(i, b) = [i |-> [i EXCEPT !.state = "ready", !.locks = i.locks - 1],
                          b |-> [b EXCEPT !.phase = "off", !.flags = {}]]
  BY <1>2 DEF Dispatch, Drivers
<1>6. ~IsActive(i) /\ Chosen(i) = None /\ i.state # "stop" =>
        Dispatch(i, b) = [i |-> i, b |-> b]
  BY <1>2 DEF Dispatch
<1> QED
  BY <1>3, <1>4, <1>5, <1>6

\* Who is chosen: the continuation, or the head of the queue.
LEMMA ChosenFacts ==
  ASSUME NEW i \in Drivers, Chosen(i) # None
  PROVE  /\ Chosen(i) \in Client
         /\ i.continue # None => Chosen(i) = i.continue
         /\ i.continue = None => /\ i.queue # <<>> /\ Chosen(i) = Head(i.queue)
                                 /\ i.restart = FALSE
<1>1. i.continue \in Client \cup {None} /\ i.queue \in Seq(Client)
  BY DEF Drivers
<1>2. i.restart \in BOOLEAN
  BY Zenon DEF Drivers, Truth
<1>3. CASE i.continue # None
  BY <1>1, <1>3 DEF Chosen
<1>4. CASE i.continue = None
  <2>1. i.queue # <<>> /\ Chosen(i) = Head(i.queue)
    BY <1>4 DEF Chosen
  <2>2. ~i.restart
    BY <1>4, Zenon DEF Chosen
  <2>3. i.restart = FALSE
    BY <1>2, <2>2, Zenon
  <2>4. Head(i.queue) \in Client
    BY <1>1, <2>1
  <2> QED
    BY <1>4, <2>1, <2>3, <2>4, Zenon
<1> QED
  BY <1>3, <1>4

\* The tail of the interrupt keeps the driver in order: the next transaction is the
\* only one that is started, with the lock against stop mode taken once.
LEMMA DispatchKeeps ==
  ASSUME NEW i, NEW b, NEW tr, DriverInv(i, b, tr),
         \A c \in Client : tr[c].status = "busy" => trans[c] = tr[c]
  PROVE  /\ DriverInv(Dispatch(i, b).i, Dispatch(i, b).b, tr)
         /\ Dispatch(i, b).i.state # "stop"
<1> DEFINE j == Dispatch(i, b).i
           c == Dispatch(i, b).b
<1>0. i \in Drivers /\ b \in Peripherals /\ tr \in [Client -> Transactions]
  BY DEF DriverInv, Types
<1> HIDE DEF j, c
<1>1. CASE IsActive(i) \/ (Chosen(i) = None /\ i.state # "stop")
  <2>1. j = i /\ c = b
    BY <1>0, <1>1, DispatchCases, Zenon DEF j, c
  <2>2. i.state # "stop"
    BY <1>1 DEF IsActive
  <2> QED
    BY <2>1, <2>2, Zenon DEF j, c
<1>2. CASE ~IsActive(i) /\ Chosen(i) = None /\ i.state = "stop"
  <2>1. j = [i EXCEPT !.state = "ready", !.locks = i.locks - 1]
        /\ c = [b EXCEPT !.phase = "off", !.flags = {}]
    BY <1>0, <1>2, DispatchCases, Zenon DEF j, c
  <2>2. j.state = "ready" /\ j.locks = i.locks - 1 /\ j.rx = i.rx /\ j.count = i.count
        /\ j.queue = i.queue /\ j.continue = i.continue
    BY <1>0, <2>1 DEF Drivers
  <2>3. j.restart = i.restart
    BY <1>0, <2>1 DEF Drivers
  <2>4. c.phase = "off" /\ c.flags = {}
    BY <1>0, <2>1 DEF Peripherals
  <2>5. i.locks = 1 /\ i.rx >= 0 /\ i.count >= 0 /\ i.restart = FALSE
    BY <1>2 DEF DriverInv, RestInv
  <2>6. j \in Drivers
    <3>1. "ready" \in States /\ i.locks - 1 \in Int
      BY <2>5 DEF States
    <3> QED
      BY <1>0, <2>1, <3>1, Zenon DEF Drivers
  <2>7. c \in Peripherals
    <3>1. "off" \in Phases /\ {} \in SUBSET Flags
      BY DEF Phases
    <3> QED
      BY <1>0, <2>1, <3>1, Zenon DEF Peripherals
  <2>8. Types(j, c, tr)
    BY <1>0, <2>6, <2>7 DEF Types
  <2>9. RestInv(j, c)
    BY <2>2, <2>3, <2>4, <2>5 DEF RestInv
  <2>10. ~IsActive(j) /\ ~IsBusy(j) /\ j.state # "nack"
    BY <2>2 DEF IsActive, IsBusy
  <2>11. CurrentInv(j, tr)
    BY <2>10 DEF CurrentInv
  <2>12. TransferInv(j, c, tr)
    BY <2>10 DEF TransferInv
  <2>13. QueueInv(j, tr)
    BY <2>2, <2>10 DEF DriverInv, QueueInv
  <2>14. DriverInv(j, c, tr)
    BY <2>8, <2>9, <2>11, <2>12, <2>13 DEF DriverInv
  <2> QED
    BY <2>2, <2>14 DEF j, c
<1>3. CASE ~IsActive(i) /\ Chosen(i) # None
  <2> DEFINE t == Chosen(i)
  <2>1. /\ t \in Client /\ (i.continue # None => t = i.continue)
        /\ i.continue = None => i.queue # <<>> /\ t = Head(i.queue)
    BY <1>0, <1>3, ChosenFacts, Zenon
  <2> HIDE DEF t
  <2>2. QueueInv(i, tr)
    BY DEF DriverInv
  <2>q. i.queue \in Seq(Client)
    BY <1>0 DEF Drivers
  <2>3. tr[t].status = "busy"
    BY <2>1, <2>2, <2>q DEF QueueInv
  <2>4. trans[t] = tr[t] /\ trans[t] \in Transactions
    BY <1>0, <2>1, <2>3
  <2>5. /\ j \in Drivers /\ c \in Peripherals /\ SameClients(Begun(i, t), j)
        /\ IsBusy(j) /\ c.outcome = "open" /\ j.rx >= 0 /\ j.count >= 0
        /\ SignalsOpen(c)
        /\ IF j.state = "transmit" THEN Sending(j, c, trans[t].message)
           ELSE Receiving(j, c, trans[t].message)
    <3>1. Dispatch(i, b) = Begin(i, b, t)
      BY <1>0, <1>3, DispatchCases, Zenon DEF t
    <3> QED
      <4>1. i.continue = None => i.queue # <<>>
        BY <2>1
      <4>2. j = Begin(i, b, t).i /\ c = Begin(i, b, t).b
        BY <3>1, Zenon DEF j, c
      <4> QED
        BY <1>0, <2>1, <2>4, <4>1, <4>2, BeginFacts, Zenon
  <2>6. /\ j.current = t /\ j.address = tr[t].address /\ j.restart = tr[t].restart
        /\ j.continue = None /\ j.locks = Locks(i)
        /\ j.queue = IF i.continue # None THEN i.queue ELSE Tail(i.queue)
    <3>1. /\ Begun(i, t).current = t /\ Begun(i, t).address = trans[t].address
          /\ Begun(i, t).restart = trans[t].restart /\ Begun(i, t).continue = None
          /\ Begun(i, t).queue = IF i.continue # None THEN i.queue ELSE Tail(i.queue)
          /\ Begun(i, t).locks = Locks(i)
      BY <1>0, <2>1, <2>4, BegunFacts, Zenon
    <3> QED
      BY <2>4, <2>5, <3>1, Zenon DEF SameClients
  <2>7. IsActive(j) /\ j.state \notin {"ready", "stop", "restart", "nack"}
    BY <2>5 DEF IsBusy, IsActive
  <2>8. Types(j, c, tr)
    BY <1>0, <2>5 DEF Types
  <2>9. j.locks = 1
    BY <2>6 DEF Locks, DriverInv, RestInv
  <2>10. RestInv(j, c)
    BY <2>5, <2>7, <2>9 DEF RestInv
  <2>11. CurrentInv(j, tr)
    BY <2>1, <2>3, <2>6 DEF CurrentInv
  <2>12. TransferInv(j, c, tr)
    <3>1. c.outcome # "address_nack" /\ c.outcome # "data_nack"
          /\ c.outcome # "arbitration_lost"
      BY <2>5
    <3>2. IF j.state = "transmit" THEN Sending(j, c, tr[j.current].message)
          ELSE Receiving(j, c, tr[j.current].message)
      BY <2>4, <2>5, <2>6, Zenon
    <3> QED
      BY <2>5, <2>7, <3>1, <3>2 DEF TransferInv
  <2>13. QueueInv(j, tr)
    <3>1. CASE i.continue # None
      <4>1. j.queue = i.queue /\ j.continue = None /\ j.current = i.continue
        BY <2>1, <2>6, <3>1
      <4>2. \A k \in 1..Len(i.queue) : i.queue[k] # None
        BY <2>q, ClientAssumption DEF Client
      <4> QED
        BY <2>2, <4>1, <4>2 DEF QueueInv
    <3>2. CASE i.continue = None
      <4>1. j.queue = Tail(i.queue) /\ t = i.queue[1] /\ i.queue # <<>>
        BY <2>1, <2>6, <2>q, <3>2
      <4>2. \A k \in 1..Len(j.queue) : k + 1 \in 1..Len(i.queue) /\ j.queue[k] = i.queue[k + 1]
                                       /\ k + 1 # 1
        BY <2>q, <4>1
      <4>3. 1 \in 1..Len(i.queue)
        BY <2>q, <4>1
      <4>4. \A k \in 1..Len(j.queue) : j.queue[k] # t /\ tr[j.queue[k]].status = "busy"
        BY <2>2, <4>1, <4>2, <4>3 DEF QueueInv
      <4>5. \A k, l \in 1..Len(j.queue) : j.queue[k] = j.queue[l] => k = l
        <5> SUFFICES ASSUME NEW k \in 1..Len(j.queue), NEW l \in 1..Len(j.queue),
                            j.queue[k] = j.queue[l]
                     PROVE  k = l
          OBVIOUS
        <5>1. i.queue[k + 1] = i.queue[l + 1]
          BY <4>2
        <5>2. k + 1 = l + 1
          BY <2>2, <4>2, <5>1 DEF QueueInv
        <5>3. k \in Int /\ l \in Int
          BY <2>q, <4>1
        <5> QED
          BY <5>2, <5>3
      <4>6. \A k \in 1..Len(j.queue) : j.queue[k] # None
        BY <2>q, <4>2, ClientAssumption DEF Client
      <4> QED
        BY <2>6, <4>4, <4>5, <4>6 DEF QueueInv
    <3> QED
      BY <3>1, <3>2
  <2>14. DriverInv(j, c, tr)
    BY <2>8, <2>10, <2>11, <2>12, <2>13 DEF DriverInv
  <2> QED
    BY <2>7, <2>14 DEF j, c
<1> QED
  BY <1>1, <1>2, <1>3

-----------------------------------------------------------------------------
(* The wire. *)

\* The transfer of the message m goes well so far.
GoesWell(i, b, m) == IF i.state = "transmit" THEN Sending(i, b, m) ELSE Receiving(i, b, m)

\* Only phase and flags change.
SameData(b, c) ==
    /\ c.sent = b.sent /\ c.shift = b.shift /\ c.txdr = b.txdr /\ c.left = b.left
    /\ c.reload = b.reload /\ c.autoend = b.autoend /\ c.got = b.got /\ c.read = b.read

\* A transfer does not mind a change of phase.
LEMMA SameTransfer ==
  ASSUME NEW i, NEW b, NEW c, NEW m, SameData(b, c), GoesWell(i, b, m),
         c.phase = "address" => b.phase = "address",
         "TXIS" \in c.flags => "TXIS" \in b.flags
  PROVE  GoesWell(i, c, m)
<1>1. CASE i.state = "transmit"
  <2>1. Sending(i, b, m)
    BY <1>1 DEF GoesWell
  <2>2. One(c.shift) = One(b.shift) /\ Real(c.txdr) = Real(b.txdr) /\ One(c.txdr) = One(b.txdr)
        /\ InHand(c) = InHand(b) /\ Len(c.sent) = Len(b.sent)
    BY Zenon DEF SameData, InHand
  <2>3. Placed(i, c, m)
    BY <2>1, <2>2, Zenon DEF Sending, Placed, SameData
  <2>4. Counted(i, c)
    BY <2>1, <2>2, Zenon DEF Sending, Counted, SameData
  <2>5. Register(i, c)
    BY <2>1, <2>2, Zenon DEF Sending, Register, SameData
  <2>6. Sending(i, c, m)
    BY <2>1, <2>3, <2>4, <2>5, Zenon DEF Sending, SameData
  <2> QED
    BY <1>1, <2>6 DEF GoesWell
<1>2. CASE i.state # "transmit"
  <2>1. Receiving(i, b, m)
    BY <1>2 DEF GoesWell
  <2>2. Receiving(i, c, m)
    BY <2>1, Zenon DEF Receiving, SameData
  <2> QED
    BY <1>2, <2>2 DEF GoesWell
<1> QED
  BY <1>1, <1>2

\* While the address or data is on the wire, the driver is in a transfer that goes well.
LEMMA OnTheWire ==
  ASSUME DriverInv(i2c, bus, trans), i2c.state # "stop", bus.phase \in {"address", "data"}
  PROVE  /\ IsBusy(i2c) /\ bus.outcome = "open" /\ SignalsOpen(bus)
         /\ GoesWell(i2c, bus, trans[i2c.current].message)
<1>1. i2c.state \in States /\ bus.outcome \in Outcomes
  BY DEF DriverInv, Types, Drivers, Peripherals
<1>2. i2c.state # "ready" /\ i2c.state # "restart"
  BY DEF DriverInv, RestInv
<1>3. i2c.state # "nack"
  BY DEF DriverInv, TransferInv, StopFollows
<1>4. IsBusy(i2c)
  BY <1>1, <1>2, <1>3 DEF States, IsBusy
<1>5. bus.outcome = "open"
  BY <1>1, <1>4 DEF Outcomes, DriverInv, TransferInv, Refusal, StopFollows
<1> QED
  BY <1>4, <1>5 DEF DriverInv, TransferInv, GoesWell

\* A step of the wire leaves the driver as it is; it is in order if the transfer is.
LEMMA WireStep ==
  ASSUME NEW i, NEW b, NEW c, NEW tr, DriverInv(i, b, tr), c \in Peripherals,
         i.state # "stop", IsActive(i), TransferInv(i, c, tr)
  PROVE  DriverInv(i, c, tr)
<1>1. Types(i, c, tr)
  BY DEF DriverInv, Types
<1>2. i.state \notin {"ready", "restart", "stop"}
  BY DEF IsActive
<1>3. RestInv(i, c)
  BY <1>2 DEF DriverInv, RestInv
<1> QED
  BY <1>1, <1>3 DEF DriverInv

\* As above, while the transfer goes well.
LEMMA GoodStep ==
  ASSUME NEW i, NEW b, NEW c, NEW tr, DriverInv(i, b, tr), c \in Peripherals,
         IsBusy(i), c.outcome = "open", SignalsOpen(c),
         GoesWell(i, c, tr[i.current].message)
  PROVE  DriverInv(i, c, tr)
<1>1. IsActive(i) /\ i.state # "stop" /\ i.state # "nack"
  BY DEF IsBusy, IsActive
<1>2. TransferInv(i, c, tr)
  BY <1>1 DEF TransferInv, GoesWell
<1> QED
  BY <1>1, <1>2, WireStep

\* NBYTES is down to 0: the peripheral holds the bus or ends with a STOP.
LEMMA TransferredFacts ==
  ASSUME NEW i, NEW b \in Peripherals, NEW m, GoesWell(i, b, m),
         b.outcome = "open", b.left = 0, b.shift = Empty, b.flags = {}
  PROVE  /\ Transferred(b) \in Peripherals /\ Transferred(b).outcome = "open"
         /\ SignalsOpen(Transferred(b)) /\ GoesWell(i, Transferred(b), m)
<1> DEFINE c == Transferred(b)
<1>1. b.reload \in BOOLEAN /\ b.autoend \in BOOLEAN
  BY Zenon DEF Peripherals, Truth
<1>2. CASE b.reload = TRUE
  <2>1. c = [b EXCEPT !.phase = "held", !.flags = {"TCR"}]
    <3>1. c = [b EXCEPT !.phase = "held", !.flags = @ \cup {"TCR"}]
      BY <1>2, Zenon DEF Transferred
    <3> QED
      BY <3>1 DEF Peripherals
  <2> HIDE DEF c
  <2>2. c \in Peripherals
    BY <2>1 DEF Peripherals, Phases, Flags
  <2>3. c.phase = "held" /\ c.flags = {"TCR"} /\ c.outcome = "open" /\ SameData(b, c)
    BY <2>1 DEF Peripherals, SameData
  <2>4. SignalsOpen(c)
    BY <1>2, <2>3 DEF SignalsOpen, SameData
  <2>5. GoesWell(i, c, m)
    BY <2>3, SameTransfer
  <2> QED
    BY <2>2, <2>3, <2>4, <2>5 DEF c
<1>3. CASE b.reload = FALSE /\ b.autoend = TRUE
  <2>1. c = [b EXCEPT !.phase = "stopping"]
    BY <1>3, Zenon DEF Transferred
  <2> HIDE DEF c
  <2>2. c \in Peripherals
    BY <2>1 DEF Peripherals, Phases
  <2>3. c.phase = "stopping" /\ c.flags = {} /\ c.outcome = "open" /\ SameData(b, c)
    BY <2>1 DEF Peripherals, SameData
  <2>4. SignalsOpen(c)
    BY <1>3, <2>3 DEF SignalsOpen, SameData
  <2>5. GoesWell(i, c, m)
    BY <2>3, SameTransfer
  <2> QED
    BY <2>2, <2>3, <2>4, <2>5 DEF c
<1>4. CASE b.reload = FALSE /\ b.autoend = FALSE
  <2>1. c = [b EXCEPT !.phase = "held", !.flags = {"TC"}]
    <3>1. c = [b EXCEPT !.phase = "held", !.flags = @ \cup {"TC"}]
      BY <1>4, Zenon DEF Transferred
    <3> QED
      BY <3>1 DEF Peripherals
  <2> HIDE DEF c
  <2>2. c \in Peripherals
    BY <2>1 DEF Peripherals, Phases, Flags
  <2>3. c.phase = "held" /\ c.flags = {"TC"} /\ c.outcome = "open" /\ SameData(b, c)
    BY <2>1 DEF Peripherals, SameData
  <2>4. SignalsOpen(c)
    BY <1>4, <2>3 DEF SignalsOpen, SameData
  <2>5. GoesWell(i, c, m)
    BY <2>3, SameTransfer
  <2> QED
    BY <2>2, <2>3, <2>4, <2>5 DEF c
<1> QED
  BY <1>1, <1>2, <1>3, <1>4, Zenon

\* What a step of the wire changes.
LEMMA OnBusKeeps ==
  ASSUME NEW c, OnBus(c)
  PROVE  /\ bus' = c /\ i2c' = i2c /\ trans' = trans
         /\ irq' = irq /\ holding' = holding /\ calling' = calling /\ calls' = calls
  BY DEF OnBus

\* A NACK: the status will tell what was refused.
LEMMA RefusedFacts ==
  ASSUME DriverInv(i2c, bus, trans), i2c.state # "stop", bus.phase \in {"address", "data"},
         NEW why \in {"address_nack", "data_nack"}, NEW c \in Peripherals,
         c.phase = "stopping", c.outcome = why, c.flags = bus.flags \cup {"NACKF"},
         c.txdr = bus.txdr,
         i2c.state = "receive" => why = "address_nack",
         why = "address_nack" => bus.phase = "address",
         i2c.state = "transmit" /\ why = "data_nack" => bus.shift # Empty
  PROVE  DriverInv(i2c, c, trans)
<1>1. /\ IsBusy(i2c) /\ bus.outcome = "open" /\ SignalsOpen(bus)
      /\ GoesWell(i2c, bus, trans[i2c.current].message)
  BY OnTheWire
<1>2. StopFollows(c)
  BY <1>1 DEF SignalsOpen, StopFollows
<1>3. i2c.state = "receive" => i2c.count = 0
  BY <1>1 DEF GoesWell, Receiving
<1>4. ASSUME i2c.state = "transmit" PROVE Sending(i2c, bus, trans[i2c.current].message)
  BY <1>1, <1>4 DEF GoesWell
<1>5. ASSUME i2c.state = "transmit", why = "address_nack"
      PROVE  i2c.count = 1 /\ bus.txdr # Empty
  <2>1. bus.sent = <<>> /\ bus.shift = Empty /\ bus.txdr # Empty
        /\ i2c.count = Len(bus.sent) + One(bus.shift) + One(bus.txdr)
    BY <1>4, <1>5 DEF Sending, Counted, Register
  <2>2. Len(bus.sent) = 0 /\ One(bus.shift) = 0 /\ One(bus.txdr) = 1
    BY <2>1 DEF One
  <2> QED
    BY <2>1, <2>2
<1>6. ASSUME i2c.state = "transmit", why = "data_nack"
      PROVE  i2c.count >= 1 + One(c.txdr)
  <2>1. i2c.count = Len(bus.sent) + One(bus.shift) + One(bus.txdr)
    BY <1>4, <1>6 DEF Sending, Counted
  <2>2. One(bus.shift) = 1 /\ One(bus.txdr) \in {0, 1} /\ c.txdr = bus.txdr
    BY <1>6 DEF One
  <2>3. Len(bus.sent) \in Nat
    BY DEF DriverInv, Types, Peripherals
  <2> QED
    BY <2>1, <2>2, <2>3
<1>7. Refusal(i2c, c)
  BY <1>2, <1>3, <1>5, <1>6 DEF Refusal
<1>8. IsActive(i2c) /\ i2c.state # "nack"
  BY <1>1 DEF IsBusy, IsActive
<1>9. TransferInv(i2c, c, trans)
  BY <1>7, <1>8 DEF TransferInv
<1> QED
  BY <1>8, <1>9, WireStep

\* The addressed slave answers.
LEMMA SlaveAnswersKeeps ==
  ASSUME DriverInv(i2c, bus, trans), i2c.state # "stop", SlaveAnswers
  PROVE  DriverInv(i2c, bus', trans)
<1> DEFINE m == trans[i2c.current].message
<1>0. bus \in Peripherals /\ bus.phase = "address"
  BY DEF DriverInv, Types, SlaveAnswers
<1>1. IsBusy(i2c) /\ bus.outcome = "open" /\ SignalsOpen(bus) /\ GoesWell(i2c, bus, m)
  BY <1>0, OnTheWire
<1>2. bus.flags = {} /\ bus.left >= 0
  BY <1>0, <1>1 DEF SignalsOpen
<1>3. bus.shift = Empty
  BY <1>0, <1>1 DEF GoesWell, Sending, Register, Receiving
<1> HIDE DEF m
<1>4. CASE OnBus(Transferred(bus)) /\ bus.left = 0
  <2>1. /\ Transferred(bus) \in Peripherals /\ Transferred(bus).outcome = "open"
        /\ SignalsOpen(Transferred(bus)) /\ GoesWell(i2c, Transferred(bus), m)
    BY <1>0, <1>1, <1>2, <1>3, <1>4, TransferredFacts
  <2>2. bus' = Transferred(bus)
    BY <1>4, OnBusKeeps
  <2> QED
    BY <1>1, <2>1, <2>2, GoodStep DEF m
<1>5. CASE OnBus([bus EXCEPT !.phase = "data"]) /\ bus.left # 0
  <2> DEFINE c == [bus EXCEPT !.phase = "data"]
  <2>1. c \in Peripherals
    BY <1>0 DEF Peripherals, Phases
  <2>2. c.phase = "data" /\ c.outcome = "open" /\ c.flags = {} /\ SameData(bus, c)
    BY <1>0, <1>1, <1>2 DEF Peripherals, SameData
  <2>3. bus' = c
    BY <1>5, OnBusKeeps
  <2> HIDE DEF c
  <2>4. bus.left > 0
    BY <1>0, <1>2, <1>5 DEF Peripherals
  <2>5. SignalsOpen(c)
    BY <2>2, <2>4 DEF SignalsOpen, SameData
  <2>6. GoesWell(i2c, c, m)
    BY <1>1, <2>2, SameTransfer
  <2> QED
    BY <1>1, <2>1, <2>2, <2>3, <2>5, <2>6, GoodStep DEF m
<1>6. CASE OnBus(Refused("address_nack"))
  <2> DEFINE c == Refused("address_nack")
  <2>1. c = [bus EXCEPT !.phase = "stopping", !.outcome = "address_nack",
                        !.flags = bus.flags \cup {"NACKF"}]
    BY <1>0 DEF Refused, Peripherals
  <2> HIDE DEF c
  <2>2. c \in Peripherals
    BY <1>0, <2>1 DEF Peripherals, Phases, Outcomes, Flags
  <2>3. c.phase = "stopping" /\ c.outcome = "address_nack" /\ c.txdr = bus.txdr
        /\ c.flags = bus.flags \cup {"NACKF"}
    BY <1>0, <2>1 DEF Peripherals
  <2>4. bus' = c
    BY <1>6, OnBusKeeps DEF c
  <2> QED
    BY <1>0, <2>2, <2>3, <2>4, RefusedFacts
<1> QED
  BY <1>4, <1>5, <1>6 DEF SlaveAnswers

\* The byte in TXDR moves to the shift register.
LEMMA ShiftByteKeeps ==
  ASSUME DriverInv(i2c, bus, trans), i2c.state # "stop", ShiftByte
  PROVE  DriverInv(i2c, bus', trans)
<1> DEFINE m == trans[i2c.current].message
           f == IF bus.left > 1 THEN bus.flags \cup {"TXIS"} ELSE bus.flags
           c == [bus EXCEPT !.shift = bus.txdr, !.txdr = Empty, !.flags = f]
<1>0. bus \in Peripherals /\ bus.phase = "data" /\ ~bus.read /\ bus.shift = Empty
      /\ bus.txdr # Empty /\ bus' = c
  <2>1. bus' = [bus EXCEPT !.shift = bus.txdr, !.txdr = Empty,
                           !.flags = IF bus.left > 1 THEN @ \cup {"TXIS"} ELSE @]
    BY DEF ShiftByte, OnBus
  <2>2. bus \in Peripherals
    BY DEF DriverInv, Types
  <2>3. [bus EXCEPT !.shift = bus.txdr, !.txdr = Empty,
                    !.flags = IF bus.left > 1 THEN @ \cup {"TXIS"} ELSE @] = c
    BY <2>2 DEF Peripherals
  <2>4. bus' = c
    BY <2>1, <2>3
  <2> QED
    BY <2>2, <2>4 DEF ShiftByte
<1>1. IsBusy(i2c) /\ bus.outcome = "open" /\ SignalsOpen(bus) /\ GoesWell(i2c, bus, m)
  BY <1>0, OnTheWire
<1>2. i2c.state = "transmit"
  <2>1. bus.read # TRUE
    BY <1>0, Zenon
  <2> QED
    BY <1>1, <2>1 DEF GoesWell, Receiving
<1>3. Sending(i2c, bus, m)
  BY <1>1, <1>2 DEF GoesWell
<1>4. bus.left > 0 /\ bus.flags \subseteq {"TXIS"} /\ "TXIS" \notin bus.flags
  BY <1>0, <1>1, <1>3 DEF SignalsOpen, Sending, Register
<1>5. f \subseteq {"TXIS"} /\ ("TXIS" \in f => bus.left > 1)
  BY <1>4
<1> HIDE DEF m, f
<1>6. c \in Peripherals
  BY <1>0, <1>5 DEF Peripherals, Flags, Empty
<1>7. /\ c.shift = bus.txdr /\ c.txdr = Empty /\ c.flags = f /\ c.sent = bus.sent
      /\ c.left = bus.left /\ c.phase = "data" /\ c.outcome = "open" /\ c.got = bus.got
  BY <1>0, <1>1 DEF Peripherals
<1>8. c.reload = bus.reload /\ c.autoend = bus.autoend /\ c.read = bus.read
  BY <1>0 DEF Peripherals
<1> HIDE DEF c
<1>9. bus.txdr # Junk
  BY <1>3, <1>4 DEF Sending, Register
<1>10. /\ One(c.shift) = 1 /\ One(c.txdr) = 0 /\ Real(c.txdr) = 0 /\ InHand(c) = 1
       /\ One(bus.shift) = 0 /\ One(bus.txdr) = 1 /\ Real(bus.txdr) = 1 /\ InHand(bus) = 1
  BY <1>0, <1>7, <1>9 DEF One, Real, InHand
<1>11. Placed(i2c, c, m)
  <2>1. bus.txdr = Len(bus.sent) + 0 + 2
    BY <1>3, <1>10 DEF Sending, Placed
  <2>2. Len(bus.sent) \in Int
    BY <1>0 DEF Peripherals
  <2>3. c.shift = Len(c.sent) + 2
    BY <1>7, <2>1, <2>2
  <2>4. InHand(c) = InHand(bus) /\ Real(c.txdr) # 1 /\ c.sent = bus.sent
    BY <1>7, <1>10
  <2> QED
    BY <1>3, <2>3, <2>4, Zenon DEF Sending, Placed
<1>12. Counted(i2c, c)
  <2>1. i2c.count = Len(bus.sent) + 0 + 1 /\ Len(bus.sent) \in Int
    BY <1>0, <1>3, <1>10 DEF Sending, Counted, Peripherals
  <2>2. i2c.count = Len(c.sent) + 1 + 0
    BY <1>7, <2>1
  <2> QED
    BY <1>3, <1>7, <1>8, <1>10, <2>2, Zenon DEF Sending, Counted
<1>13. Register(i2c, c)
  <2>1. c.txdr # Junk
    BY <1>7 DEF Empty, Junk
  <2> QED
    BY <1>5, <1>7, <1>10, <2>1 DEF Register
<1>14. Sending(i2c, c, m)
  BY <1>3, <1>7, <1>8, <1>11, <1>12, <1>13 DEF Sending
<1>15. SignalsOpen(c)
  BY <1>4, <1>5, <1>7 DEF SignalsOpen
<1>16. GoesWell(i2c, c, m)
  BY <1>2, <1>14 DEF GoesWell
<1> QED
  BY <1>0, <1>1, <1>6, <1>7, <1>15, <1>16, GoodStep DEF m

\* The slave takes the byte in the shift register, or refuses it.
LEMMA SlaveTakesByteKeeps ==
  ASSUME DriverInv(i2c, bus, trans), i2c.state # "stop", SlaveTakesByte
  PROVE  DriverInv(i2c, bus', trans)
<1> DEFINE m == trans[i2c.current].message
           s == Append(bus.sent, bus.shift)
           c == [bus EXCEPT !.shift = Empty, !.left = bus.left - 1, !.sent = s]
           r == [bus EXCEPT !.phase = "stopping", !.outcome = "data_nack",
                            !.flags = bus.flags \cup {"NACKF"}, !.shift = Empty]
<1>0. bus \in Peripherals /\ bus.phase = "data" /\ bus.shift # Empty
  BY DEF DriverInv, Types, SlaveTakesByte
<1>1. IsBusy(i2c) /\ bus.outcome = "open" /\ SignalsOpen(bus) /\ GoesWell(i2c, bus, m)
  BY <1>0, OnTheWire
<1>2. i2c.state = "transmit"
  BY <1>0, <1>1 DEF GoesWell, Receiving
<1>3. Sending(i2c, bus, m)
  BY <1>1, <1>2 DEF GoesWell
<1>4. OnBus(IF c.left = 0 THEN Transferred(c) ELSE c) \/ OnBus(r)
  <2>1. [[bus EXCEPT !.shift = Empty, !.left = @ - 1]
           EXCEPT !.sent = Append(@, bus.shift)] = c
    BY <1>0 DEF Peripherals
  <2>2. [Refused("data_nack") EXCEPT !.shift = Empty] = r
    BY <1>0 DEF Refused, Peripherals
  <2> HIDE DEF c, r
  <2> QED
    BY <2>1, <2>2 DEF SlaveTakesByte
<1>5. bus.left \in Int /\ bus.left > 0 /\ bus.flags \subseteq {"TXIS"}
      /\ bus.sent \in Seq(Nat) /\ bus.shift \in Nat
  BY <1>0, <1>1 DEF SignalsOpen, Peripherals
<1>6. s \in Seq(Nat) /\ Len(s) = Len(bus.sent) + 1 /\ s[Len(bus.sent) + 1] = bus.shift
      /\ \A k \in 1..Len(bus.sent) : s[k] = bus.sent[k]
  BY <1>5
<1> HIDE DEF m, s
<1>7. c \in Peripherals
  <2>1. bus.left - 1 \in Int /\ Empty \in Nat
    BY <1>5 DEF Empty
  <2> QED
    BY <1>0, <1>6, <2>1, Zenon DEF Peripherals
<1>8. /\ c.shift = Empty /\ c.left = bus.left - 1 /\ c.sent = s /\ c.txdr = bus.txdr
      /\ c.flags = bus.flags /\ c.phase = "data" /\ c.outcome = "open" /\ c.got = bus.got
  BY <1>0, <1>1 DEF Peripherals
<1>9. c.reload = bus.reload /\ c.autoend = bus.autoend /\ c.read = bus.read
  BY <1>0 DEF Peripherals
<1> HIDE DEF c
<1>10. CASE OnBus(IF c.left = 0 THEN Transferred(c) ELSE c)
  <2>1. /\ One(c.shift) = 0 /\ One(bus.shift) = 1 /\ One(c.txdr) = One(bus.txdr)
        /\ Real(c.txdr) = Real(bus.txdr)
        /\ One(bus.txdr) \in {0, 1} /\ Real(bus.txdr) \in {0, 1}
    BY <1>0, <1>8 DEF One, Real
  <2>2. InHand(bus) = 1 + Real(bus.txdr) /\ InHand(c) = Real(bus.txdr)
    BY <2>1 DEF InHand
  <2>3. Len(bus.sent) \in Nat /\ Len(c.sent) = Len(bus.sent) + 1
    BY <1>5, <1>6, <1>8
  <2>4. Len(c.sent) + InHand(c) = Len(bus.sent) + InHand(bus)
    BY <2>1, <2>2, <2>3
  <2>5. From(c.sent, 0)
    <3> SUFFICES ASSUME NEW k \in 1..Len(s) PROVE s[k] = 0 + k + 1
      BY <1>8 DEF From
    <3>1. CASE k = Len(bus.sent) + 1
      <4>1. bus.shift = Len(bus.sent) + 2
        BY <1>0, <1>3 DEF Sending, Placed
      <4> QED
        BY <1>6, <2>3, <3>1, <4>1
    <3>2. CASE k # Len(bus.sent) + 1
      <4>1. k \in 1..Len(bus.sent)
        BY <1>6, <2>3, <3>2
      <4>2. bus.sent[k] = 0 + k + 1
        BY <1>3, <4>1 DEF Sending, Placed, From
      <4> QED
        BY <1>6, <4>1, <4>2
    <3> QED
      BY <3>1, <3>2
  <2>6. Placed(i2c, c, m)
    <3>1. Real(c.txdr) = 1 => c.txdr = Len(c.sent) + One(c.shift) + 2
      <4>1. Real(bus.txdr) = 1 => bus.txdr = Len(bus.sent) + One(bus.shift) + 2
        BY <1>3 DEF Sending, Placed
      <4> QED
        BY <1>8, <2>1, <2>3, <4>1
    <3> QED
      BY <1>3, <1>8, <2>4, <2>5, <3>1 DEF Sending, Placed
  <2>7. i2c.tx \in Seq(Nat) /\ Len(i2c.tx) \in Nat
    BY DEF DriverInv, Types, Drivers
  <2>8. Counted(i2c, c)
    <3>1. i2c.count = Len(bus.sent) + One(bus.shift) + One(bus.txdr)
      BY <1>3 DEF Sending, Counted
    <3>2. i2c.count = Len(c.sent) + One(c.shift) + One(c.txdr)
      BY <2>1, <2>3, <3>1
    <3>3. InHand(bus) <= bus.left /\ bus.left <= InHand(bus) + Len(i2c.tx)
      BY <1>3 DEF Sending, Counted
    <3>4. InHand(c) <= c.left /\ c.left <= InHand(c) + Len(i2c.tx)
      BY <1>5, <1>8, <2>1, <2>2, <2>7, <3>3
    <3>5. c.left < InHand(c) + Len(i2c.tx) <=> bus.left < InHand(bus) + Len(i2c.tx)
      BY <1>5, <1>8, <2>1, <2>2, <2>7
    <3>6. bus.reload = TRUE <=> i2c.tx2 # <<>> \/ bus.left < InHand(bus) + Len(i2c.tx)
      BY <1>3 DEF Sending, Counted
    <3>7. c.reload = TRUE <=> i2c.tx2 # <<>> \/ c.left < InHand(c) + Len(i2c.tx)
      BY <1>9, <3>5, <3>6, Zenon
    <3>8. c.autoend = TRUE <=> c.reload = FALSE /\ i2c.rx = 0 /\ i2c.restart = FALSE
      BY <1>3, <1>9, Zenon DEF Sending, Counted
    <3> QED
      BY <3>2, <3>4, <3>7, <3>8, Zenon DEF Counted
  <2>9. bus.txdr # Junk
    BY <1>3, <1>5 DEF Sending, Register
  <2>10. Register(i2c, c)
    <3>1. "TXIS" \in bus.flags => bus.txdr = Empty /\ bus.left > 1
      BY <1>3, <2>1 DEF Sending, Register
    <3> QED
      BY <1>5, <1>8, <2>1, <2>9, <3>1 DEF Register
  <2>11. Sending(i2c, c, m)
    BY <1>3, <1>8, <1>9, <2>6, <2>8, <2>10 DEF Sending
  <2>12. GoesWell(i2c, c, m)
    BY <1>2, <2>11 DEF GoesWell
  <2>13. CASE c.left = 0
    <3>1. c.flags = {}
      BY <1>3, <1>5, <1>8, <2>1, <2>13 DEF Sending, Register
    <3>2. /\ Transferred(c) \in Peripherals /\ Transferred(c).outcome = "open"
          /\ SignalsOpen(Transferred(c)) /\ GoesWell(i2c, Transferred(c), m)
      BY <1>7, <1>8, <2>12, <2>13, <3>1, TransferredFacts
    <3>3. bus' = Transferred(c)
      BY <1>10, <2>13, OnBusKeeps
    <3> QED
      BY <1>1, <3>2, <3>3, GoodStep DEF m
  <2>14. CASE c.left # 0
    <3>1. bus' = c
      BY <1>10, <2>14, OnBusKeeps
    <3>2. SignalsOpen(c)
      BY <1>5, <1>8, <2>14 DEF SignalsOpen
    <3> QED
      BY <1>1, <1>7, <1>8, <2>12, <3>1, <3>2, GoodStep DEF m
  <2> QED
    BY <2>13, <2>14
<1>11. CASE OnBus(r)
  <2>1. r \in Peripherals
    BY <1>0 DEF Peripherals, Phases, Outcomes, Flags, Empty
  <2>2. r.phase = "stopping" /\ r.outcome = "data_nack" /\ r.txdr = bus.txdr
        /\ r.flags = bus.flags \cup {"NACKF"}
    BY <1>0 DEF Peripherals
  <2>3. bus' = r
    BY <1>11, OnBusKeeps
  <2> HIDE DEF r
  <2> QED
    BY <1>0, <1>2, <2>1, <2>2, <2>3, RefusedFacts
<1> QED
  BY <1>4, <1>10, <1>11

\* The slave gives a byte.
LEMMA SlaveGivesByteKeeps ==
  ASSUME DriverInv(i2c, bus, trans), i2c.state # "stop", SlaveGivesByte
  PROVE  DriverInv(i2c, bus', trans)
<1> DEFINE m == trans[i2c.current].message
           c == [bus EXCEPT !.left = bus.left - 1, !.got = bus.got + 1]
<1>0. bus \in Peripherals /\ bus.phase = "data" /\ bus.read
  BY DEF DriverInv, Types, SlaveGivesByte
<1>1. IsBusy(i2c) /\ bus.outcome = "open" /\ SignalsOpen(bus) /\ GoesWell(i2c, bus, m)
  BY <1>0, OnTheWire
<1>2. i2c.state # "transmit"
  <2>1. bus.read # FALSE
    BY <1>0, Zenon
  <2> QED
    BY <1>1, <2>1 DEF GoesWell, Sending
<1>3. Receiving(i2c, bus, m)
  BY <1>1, <1>2 DEF GoesWell
<1>4. OnBus(IF c.left = 0 THEN Transferred(c) ELSE c)
  <2>1. [bus EXCEPT !.left = @ - 1, !.got = @ + 1] = c
    BY <1>0 DEF Peripherals
  <2> HIDE DEF c
  <2> QED
    BY <2>1 DEF SlaveGivesByte
<1>5. bus.left \in Int /\ bus.left > 0 /\ bus.flags = {} /\ bus.got \in Int /\ i2c.rx \in Int
  <2>1. bus.flags \subseteq {"TXIS"} /\ "TXIS" \notin bus.flags /\ bus.left > 0
    BY <1>0, <1>1, <1>3 DEF SignalsOpen, Receiving
  <2>2. bus.left \in Int /\ bus.got \in Int
    BY <1>0 DEF Peripherals
  <2>3. i2c.rx \in Int
    BY DEF DriverInv, Types, Drivers
  <2> QED
    BY <2>1, <2>2, <2>3
<1> HIDE DEF m
<1>7. c \in Peripherals
  <2>1. bus.left - 1 \in Int /\ bus.got + 1 \in Int
    BY <1>5
  <2> QED
    BY <1>0, <2>1, Zenon DEF Peripherals
<1>8. /\ c.shift = bus.shift /\ c.left = bus.left - 1 /\ c.sent = bus.sent
      /\ c.txdr = bus.txdr /\ c.flags = {} /\ c.phase = "data" /\ c.outcome = "open"
      /\ c.got = bus.got + 1
  BY <1>0, <1>1, <1>5 DEF Peripherals
<1>9. c.reload = bus.reload /\ c.autoend = bus.autoend /\ c.read = bus.read
  BY <1>0 DEF Peripherals
<1> HIDE DEF c
<1>10. Receiving(i2c, c, m)
  <2>1. bus.got + bus.left + i2c.rx = m.rx
    BY <1>3 DEF Receiving
  <2>2. c.got + c.left + i2c.rx = m.rx /\ c.left >= 0
    BY <1>5, <1>8, <2>1
  <2> QED
    BY <1>3, <1>8, <1>9, <2>2 DEF Receiving
<1>11. GoesWell(i2c, c, m)
  BY <1>2, <1>10 DEF GoesWell
<1>12. c.shift = Empty
  BY <1>3, <1>8 DEF Receiving
<1>13. CASE c.left = 0
  <2>1. /\ Transferred(c) \in Peripherals /\ Transferred(c).outcome = "open"
        /\ SignalsOpen(Transferred(c)) /\ GoesWell(i2c, Transferred(c), m)
    BY <1>7, <1>8, <1>11, <1>12, <1>13, TransferredFacts
  <2>2. bus' = Transferred(c)
    BY <1>4, <1>13, OnBusKeeps
  <2> QED
    BY <1>1, <2>1, <2>2, GoodStep DEF m
<1>14. CASE c.left # 0
  <2>1. bus' = c
    BY <1>4, <1>14, OnBusKeeps
  <2>2. SignalsOpen(c)
    BY <1>5, <1>8, <1>14 DEF SignalsOpen
  <2> QED
    BY <1>1, <1>7, <1>8, <1>11, <2>1, <2>2, GoodStep DEF m
<1> QED
  BY <1>13, <1>14

\* The STOP is on the wire.
LEMMA StopSentKeeps ==
  ASSUME DriverInv(i2c, bus, trans), i2c.state # "stop", StopSent
  PROVE  DriverInv(i2c, bus', trans)
<1> DEFINE m == trans[i2c.current].message
           c == [bus EXCEPT !.phase = "idle", !.flags = bus.flags \cup {"STOPF"}]
<1>0. bus \in Peripherals /\ bus.phase = "stopping" /\ bus' = c
  <2>1. bus \in Peripherals
    BY DEF DriverInv, Types
  <2>2. [bus EXCEPT !.phase = "idle", !.flags = @ \cup {"STOPF"}] = c
    BY <2>1 DEF Peripherals
  <2> HIDE DEF c
  <2> QED
    BY <2>1, <2>2, OnBusKeeps DEF StopSent
<1>1. c \in Peripherals
  BY <1>0 DEF Peripherals, Phases, Flags
<1>2. c.phase = "idle" /\ c.flags = bus.flags \cup {"STOPF"} /\ c.outcome = bus.outcome
      /\ SameData(bus, c)
  BY <1>0 DEF Peripherals, SameData
<1> HIDE DEF m, c
<1>3. i2c.state \in States /\ bus.outcome \in Outcomes
  BY DEF DriverInv, Types, Drivers, Peripherals
<1>4. i2c.state \in {"transmit", "receive", "nack"}
  BY <1>0, <1>3 DEF States, DriverInv, RestInv
<1>5. IsActive(i2c)
  BY <1>4 DEF IsActive
<1>6. CASE IsBusy(i2c) /\ bus.outcome = "open"
  <2>1. SignalsOpen(bus) /\ GoesWell(i2c, bus, m)
    BY <1>6 DEF DriverInv, TransferInv, GoesWell, m
  <2>2. bus.flags = {} /\ bus.left = 0 /\ bus.shift = Empty /\ bus.reload = FALSE
        /\ bus.autoend = TRUE
    BY <1>0, <2>1 DEF SignalsOpen
  <2>3. c.flags = {"STOPF"} /\ c.left = 0 /\ c.shift = Empty /\ c.reload = FALSE
        /\ c.autoend = TRUE
    BY <1>2, <2>2 DEF SameData
  <2>4. SignalsOpen(c)
    BY <1>2, <2>3 DEF SignalsOpen
  <2>5. GoesWell(i2c, c, m)
    BY <1>2, <2>1, <2>3, SameTransfer
  <2> QED
    BY <1>0, <1>1, <1>2, <1>6, <2>4, <2>5, GoodStep DEF m
<1>7. CASE IsBusy(i2c) /\ bus.outcome \in {"address_nack", "data_nack"}
  <2>1. Refusal(i2c, bus)
    BY <1>7 DEF DriverInv, TransferInv
  <2>2. StopFollows(c)
    BY <1>2, <2>1 DEF Refusal, StopFollows
  <2>3. Refusal(i2c, c)
    BY <1>2, <2>1, <2>2 DEF Refusal, SameData
  <2>4. i2c.state # "nack" /\ c.outcome # "open" /\ c.outcome # "arbitration_lost"
    BY <1>2, <1>7 DEF IsBusy
  <2>5. TransferInv(i2c, c, trans)
    BY <2>3, <2>4 DEF TransferInv
  <2> QED
    BY <1>0, <1>1, <1>5, <2>5, WireStep
<1>8. CASE i2c.state = "nack"
  <2>1. StopFollows(bus) /\ i2c.count >= 0
        /\ bus.outcome = IF i2c.count = 0 THEN "address_nack" ELSE "data_nack"
    BY <1>8 DEF DriverInv, TransferInv
  <2>2. StopFollows(c)
    BY <1>2, <2>1 DEF StopFollows
  <2>3. TransferInv(i2c, c, trans)
    BY <1>2, <1>8, <2>1, <2>2 DEF TransferInv, IsBusy
  <2> QED
    BY <1>0, <1>1, <1>5, <2>3, WireStep
<1>9. ~(IsBusy(i2c) /\ bus.outcome = "arbitration_lost")
  BY <1>0 DEF DriverInv, TransferInv
<1> QED
  BY <1>3, <1>4, <1>6, <1>7, <1>8, <1>9 DEF Outcomes, IsBusy

\* Another master wins the bus.
LEMMA ArbitrationLostKeeps ==
  ASSUME DriverInv(i2c, bus, trans), i2c.state # "stop", ArbitrationLost
  PROVE  DriverInv(i2c, bus', trans)
<1> DEFINE c == [bus EXCEPT !.phase = "idle", !.shift = Empty,
                            !.outcome = "arbitration_lost", !.flags = {"ARLO"}]
<1>0. bus \in Peripherals /\ bus.phase \in {"address", "data"} /\ bus' = c
  BY OnBusKeeps DEF DriverInv, Types, ArbitrationLost
<1>1. IsBusy(i2c)
  BY <1>0, OnTheWire
<1>2. c \in Peripherals
  BY <1>0 DEF Peripherals, Phases, Flags, Outcomes, Empty
<1>3. c.phase = "idle" /\ c.flags = {"ARLO"} /\ c.outcome = "arbitration_lost"
  BY <1>0 DEF Peripherals
<1> HIDE DEF c
<1>4. IsActive(i2c) /\ i2c.state # "nack"
  BY <1>1 DEF IsBusy, IsActive
<1>5. TransferInv(i2c, c, trans)
  BY <1>3, <1>4 DEF TransferInv
<1> QED
  BY <1>0, <1>2, <1>4, <1>5, WireStep

\* No step of the wire disturbs the driver.
LEMMA BusKeeps ==
  ASSUME DriverInv(i2c, bus, trans), i2c.state # "stop", Bus
  PROVE  DriverInv(i2c, bus', trans)
  BY SlaveAnswersKeeps, ShiftByteKeeps, SlaveTakesByteKeeps, SlaveGivesByteKeeps,
     StopSentKeeps, ArbitrationLostKeeps DEF Bus

-----------------------------------------------------------------------------
(* The interrupt. *)

Cleared(b) == [b EXCEPT !.flags = b.flags \ {"ARLO"}]

\* The peripheral without the flag of a lost arbitration.
LEMMA ClearedFacts ==
  ASSUME NEW b \in Peripherals
  PROVE  /\ [b EXCEPT !.flags = @ \ {"ARLO"}] = Cleared(b)
         /\ Cleared(b) \in Peripherals
         /\ Cleared(b).phase = b.phase /\ Cleared(b).flags = b.flags \ {"ARLO"}
         /\ Cleared(b).outcome = b.outcome
         /\ "ARLO" \notin b.flags => Cleared(b) = b
<1>1. [b EXCEPT !.flags = @ \ {"ARLO"}] = Cleared(b)
  BY DEF Cleared
<1>2. Cleared(b) \in Peripherals
  BY DEF Cleared, Peripherals
<1>3. Cleared(b).phase = b.phase /\ Cleared(b).flags = b.flags \ {"ARLO"}
      /\ Cleared(b).outcome = b.outcome
  BY DEF Cleared, Peripherals
<1>4. ASSUME "ARLO" \notin b.flags PROVE Cleared(b) = b
  <2>1. b.flags \ {"ARLO"} = b.flags
    BY <1>4
  <2>2. [b EXCEPT !.flags = b.flags] = b
    BY DEF Peripherals
  <2> QED
    BY <2>1, <2>2, Zenon DEF Cleared
<1> QED
  BY <1>1, <1>2, <1>3, <1>4

\* The tail of an entry keeps the driver in order.
LEMMA LeaveKeeps ==
  ASSUME NEW i, NEW b \in Peripherals, Leave(i, b), DriverInv(i, Cleared(b), trans'),
         \A c \in Client : trans'[c].status = "busy" => trans[c] = trans'[c]
  PROVE  DriverInv(i2c', bus', trans') /\ i2c'.state # "stop" /\ irq' = FALSE
<1> DEFINE d == Dispatch(i, Cleared(b))
<1>1. i2c' = d.i /\ bus' = d.b /\ irq' = FALSE
  BY ClearedFacts, Zenon DEF Leave
<1>2. DriverInv(d.i, d.b, trans') /\ d.i.state # "stop"
  BY DispatchKeeps, Zenon
<1> HIDE DEF d
<1> QED
  BY <1>1, <1>2

\* A driver that is busy stays with its transaction.
LEMMA LeaveActive ==
  ASSUME NEW i \in Drivers, NEW b \in Peripherals, Leave(i, b), IsActive(i)
  PROVE  i2c' = i
<1> DEFINE d == Dispatch(i, Cleared(b))
<1>1. i2c' = d.i /\ Cleared(b) \in Peripherals
  BY ClearedFacts, Zenon DEF Leave
<1>2. d.i = i
  BY <1>1, DispatchCases, Zenon
<1> HIDE DEF d
<1> QED
  BY <1>1, <1>2

StaysOn == IsActive(i2c) /\ IsActive(i2c') /\ SameClients(i2c, i2c')

\* An entry within a transfer that goes well, and goes on well.
LEMMA BusyStep ==
  ASSUME NEW i, NEW b, NEW tr, DriverInv(i, b, tr), IsBusy(i),
         NEW j \in Drivers, NEW c \in Peripherals, SameClients(i, j), IsBusy(j),
         j.rx >= 0, j.count >= 0, c.outcome = "open", SignalsOpen(c),
         GoesWell(j, c, tr[j.current].message)
  PROVE  DriverInv(j, c, tr) /\ Cleared(c) = c
<1>1. IsActive(i) /\ IsActive(j) /\ j.state \notin {"ready", "stop", "restart", "nack"}
      /\ i.state \notin {"ready", "stop", "restart"}
  BY DEF IsBusy, IsActive
<1>2. Types(j, c, tr)
  BY DEF DriverInv, Types
<1>3. RestInv(j, c)
  BY <1>1 DEF DriverInv, RestInv, SameClients
<1>4. CurrentInv(j, tr)
  BY <1>1 DEF DriverInv, CurrentInv, SameClients
<1>5. QueueInv(j, tr)
  BY <1>1 DEF DriverInv, QueueInv, SameClients
<1>6. TransferInv(j, c, tr)
  BY <1>1 DEF TransferInv, GoesWell
<1>7. "ARLO" \notin c.flags
  BY DEF SignalsOpen, Peripherals, Phases
<1> QED
  BY <1>2, <1>3, <1>4, <1>5, <1>6, <1>7, ClearedFacts DEF DriverInv

\* As above, to the end of the entry: a driver that is busy stays with it.
LEMMA BusyLeave ==
  ASSUME DriverInv(i2c, bus, trans), IsBusy(i2c),
         NEW j \in Drivers, NEW c \in Peripherals, SameClients(i2c, j), IsBusy(j),
         j.rx >= 0, j.count >= 0, c.outcome = "open", SignalsOpen(c),
         GoesWell(j, c, trans[j.current].message), Leave(j, c), Continues
  PROVE  DriverInv(i2c', bus', trans') /\ i2c'.state # "stop" /\ StaysOn
<1>1. DriverInv(j, c, trans) /\ Cleared(c) = c
  BY BusyStep
<1>2. trans' = trans
  BY DEF Continues
<1>3. IsActive(j) /\ IsActive(i2c)
  BY DEF IsBusy, IsActive
<1>4. StaysOn
  BY <1>1, <1>3, LeaveActive DEF StaysOn
<1> QED
  BY <1>1, <1>2, <1>4, LeaveKeeps

\* An entry that finds neither a lost arbitration nor a NACK: all goes well.
LEMMA RegularFacts ==
  ASSUME DriverInv(i2c, bus, trans), Regular
  PROVE  /\ IsBusy(i2c) /\ bus.outcome = "open" /\ SignalsOpen(bus)
         /\ GoesWell(i2c, bus, trans[i2c.current].message)
         /\ i2c \in Drivers /\ bus \in Peripherals /\ i2c.rx >= 0 /\ i2c.count >= 0
         /\ i2c.current \in Client /\ trans[i2c.current] \in Transactions
         /\ trans[i2c.current].message \in Messages
<1>1. i2c \in Drivers /\ bus \in Peripherals /\ trans \in [Client -> Transactions]
  BY DEF DriverInv, Types
<1>2. IsBusy(i2c) /\ "ARLO" \notin bus.flags /\ "NACKF" \notin bus.flags
  BY DEF Regular, Busy, IsBusy
<1>3. bus.outcome \in Outcomes
  BY <1>1 DEF Peripherals
<1>4. bus.outcome = "open"
  BY <1>2, <1>3 DEF Outcomes, DriverInv, TransferInv, Refusal
<1>5. SignalsOpen(bus) /\ GoesWell(i2c, bus, trans[i2c.current].message)
  BY <1>2, <1>4 DEF DriverInv, TransferInv, GoesWell
<1>6. i2c.current \in Client
  BY <1>2 DEF IsBusy, IsActive, DriverInv, CurrentInv
<1>7. i2c.rx >= 0 /\ i2c.count >= 0
  BY DEF DriverInv, RestInv
<1>8. trans[i2c.current] \in Transactions
  BY <1>1, <1>6
<1> QED
  BY <1>1, <1>2, <1>4, <1>5, <1>6, <1>7, <1>8 DEF Transactions

\* NBYTES is down to 0 and no more will be programmed: all is written.
LEMMA WrittenFacts ==
  ASSUME NEW i \in Drivers, NEW b \in Peripherals, NEW m \in Messages, GoesWell(i, b, m),
         b.left = 0, b.shift = Empty, b.reload = FALSE
  PROVE  /\ From(b.sent, 0) /\ Len(b.sent) = Total(m)
         /\ i.state = "transmit" => b.got = 0 /\ i.rx = m.rx
         /\ i.state # "transmit" => b.got = m.rx
<1>1. CASE i.state = "transmit"
  <2>1. Sending(i, b, m)
    BY <1>1 DEF GoesWell
  <2>2. /\ i.tx \in Seq(Nat) /\ i.tx2 \in Seq(Nat) /\ Len(i.tx) \in Nat
        /\ Len(i.tx2) \in Nat
    BY DEF Drivers
  <2>3. b.sent \in Seq(Nat) /\ Len(b.sent) \in Nat
    BY DEF Peripherals
  <2>4. One(b.shift) = 0 /\ Real(b.txdr) \in {0, 1} /\ InHand(b) = Real(b.txdr)
    BY DEF One, Real, InHand
  <2>5. InHand(b) <= 0
    BY <2>1 DEF Sending, Counted
  <2>6. InHand(b) = 0
    BY <2>4, <2>5
  <2>7. ~(i.tx2 # <<>> \/ b.left < InHand(b) + Len(i.tx))
    BY <2>1 DEF Sending, Counted
  <2>8. i.tx2 = <<>> /\ Len(i.tx) = 0 /\ Len(i.tx2) = 0
    BY <2>2, <2>6, <2>7
  <2>9. Len(b.sent) + InHand(b) + Len(i.tx) + Len(i.tx2) = Total(m)
    BY <2>1 DEF Sending, Placed
  <2>10. Len(b.sent) = Total(m)
    BY <2>3, <2>6, <2>8, <2>9
  <2> QED
    BY <1>1, <2>1, <2>10 DEF Sending, Placed
<1>2. CASE i.state # "transmit"
  <2>1. Receiving(i, b, m)
    BY <1>2 DEF GoesWell
  <2>2. b.got \in Int /\ i.rx \in Int
    BY DEF Drivers, Peripherals
  <2>3. ~(i.rx > 0) /\ i.rx >= 0 /\ b.got + b.left + i.rx = m.rx
    BY <2>1 DEF Receiving
  <2>4. b.got = m.rx
    BY <2>2, <2>3
  <2> QED
    BY <1>2, <2>1, <2>4 DEF Receiving
<1> QED
  BY <1>1, <1>2

\* TXDR is empty, and the next byte is loaded.
LEMMA IrqByteKeeps ==
  ASSUME DriverInv(i2c, bus, trans), IrqByte
  PROVE  DriverInv(i2c', bus', trans') /\ i2c'.state # "stop" /\ StaysOn
<1> DEFINE m == trans[i2c.current].message
           j == LoadByte(i2c, bus).i
           c == LoadByte(i2c, bus).b
<1>1. /\ IsBusy(i2c) /\ bus.outcome = "open" /\ SignalsOpen(bus) /\ GoesWell(i2c, bus, m)
      /\ i2c \in Drivers /\ bus \in Peripherals /\ i2c.rx >= 0 /\ i2c.count >= 0
      /\ m \in Messages
  BY RegularFacts DEF IrqByte
<1>2. i2c.state = "transmit" /\ "TXIS" \in bus.flags /\ Continues /\ Leave(j, c)
  BY DEF IrqByte
<1>3. /\ j \in Drivers /\ c \in Peripherals /\ SameClients(i2c, j) /\ j.state = i2c.state
      /\ j.tx = Rest(i2c.tx) /\ j.count = i2c.count + 1 /\ j.tx2 = i2c.tx2 /\ j.rx = i2c.rx
  BY <1>1, LoadByteFacts, Zenon
<1>4. c.txdr = Loaded(i2c.tx) /\ c.flags = bus.flags \ {"TXIS"}
      /\ SameWire(bus, c) /\ SameCount(bus, c)
  BY <1>1, LoadByteFacts, Zenon
<1>5. /\ i2c.tx # <<>> => /\ Loaded(i2c.tx) = i2c.tx[1] /\ Len(Rest(i2c.tx)) = Len(i2c.tx) - 1
                          /\ \A k \in 1..Len(i2c.tx) - 1 : Rest(i2c.tx)[k] = i2c.tx[k + 1]
  BY <1>1, LoadByteFacts
<1> HIDE DEF m, j, c
<1>6. Sending(i2c, bus, m)
  BY <1>1, <1>2 DEF GoesWell
<1>7. bus.txdr = Empty /\ bus.left > One(bus.shift)
  BY <1>2, <1>6 DEF Sending, Register
<1>8. One(bus.shift) \in {0, 1} /\ One(bus.txdr) = 0 /\ Real(bus.txdr) = 0
      /\ InHand(bus) = One(bus.shift)
  BY <1>7 DEF One, Real, InHand
<1>s. /\ i2c.tx \in Seq(Nat) /\ Len(i2c.tx) \in Nat /\ bus.left \in Int
      /\ bus.sent \in Seq(Nat) /\ Len(bus.sent) \in Nat
  <2>1. i2c.tx \in Seq(Nat) /\ Len(i2c.tx) \in Nat
    BY <1>1 DEF Drivers
  <2>2. bus.left \in Int /\ bus.sent \in Seq(Nat) /\ Len(bus.sent) \in Nat
    BY <1>1 DEF Peripherals
  <2> QED
    BY <2>1, <2>2
<1>9. i2c.tx # <<>> /\ Len(i2c.tx) > 0
  <2>1. bus.left <= InHand(bus) + Len(i2c.tx)
    BY <1>6 DEF Sending, Counted
  <2>2. Len(i2c.tx) > 0
    BY <1>7, <1>8, <1>s, <2>1
  <2> QED
    BY <1>s, <2>2
<1>10. /\ j.restart = i2c.restart /\ c.sent = bus.sent /\ c.shift = bus.shift
       /\ c.got = bus.got /\ c.outcome = bus.outcome /\ c.phase = bus.phase
       /\ c.left = bus.left /\ c.reload = bus.reload /\ c.autoend = bus.autoend
       /\ c.read = bus.read
  BY <1>3, <1>4 DEF SameClients, SameWire, SameCount
<1>11. Len(c.sent) = Len(bus.sent) /\ One(c.shift) = One(bus.shift)
       /\ Len(j.tx) = Len(i2c.tx) - 1 /\ Len(j.tx2) = Len(i2c.tx2) /\ c.txdr = i2c.tx[1]
       /\ Len(j.tx) \in Nat
  BY <1>3, <1>4, <1>5, <1>9, <1>10, <1>s
<1>12. c.txdr = Len(bus.sent) + One(bus.shift) + 2
  <2>1. From(i2c.tx, Len(bus.sent) + InHand(bus)) /\ 1 \in 1..Len(i2c.tx)
    BY <1>6, <1>9, <1>s DEF Sending, Placed
  <2>2. i2c.tx[1] = Len(bus.sent) + InHand(bus) + 1 + 1
    BY <2>1 DEF From
  <2> QED
    BY <1>8, <1>11, <1>s, <2>2
<1>13. Real(c.txdr) = 1 /\ One(c.txdr) = 1 /\ InHand(c) = InHand(bus) + 1
       /\ c.txdr # Empty /\ c.txdr # Junk
  <2>1. c.txdr # Empty /\ c.txdr # Junk
    BY <1>8, <1>12, <1>s DEF Empty, Junk
  <2> QED
    BY <1>8, <1>11, <2>1 DEF One, Real, InHand
<1> DEFINE n == Len(bus.sent) + InHand(bus)
<1>14. n \in Int /\ Len(c.sent) + InHand(c) = n + 1
  BY <1>8, <1>11, <1>13, <1>s
<1>15. Placed(j, c, m)
  <2>1. From(j.tx, n + 1)
    <3> HIDE DEF n
    <3> SUFFICES ASSUME NEW k \in 1..Len(j.tx) PROVE j.tx[k] = n + 1 + k + 1
      BY DEF From
    <3>0. k \in Int /\ k + 1 \in 1..Len(i2c.tx) /\ k \in 1..Len(i2c.tx) - 1
      BY <1>11, <1>s
    <3>1. j.tx[k] = i2c.tx[k + 1]
      BY <1>3, <1>5, <1>9, <3>0
    <3>2. i2c.tx[k + 1] = n + (k + 1) + 1
      BY <1>6, <3>0 DEF From, Sending, Placed, n
    <3> QED
      BY <1>14, <3>0, <3>1, <3>2, NextNumber, Zenon
  <2>2. n + 1 + Len(j.tx) = n + Len(i2c.tx)
    <3> HIDE DEF n
    <3>1. Len(i2c.tx) \in Int
      BY <1>s
    <3> QED
      BY <1>11, <1>14, <3>1, OneLess, Zenon
  <2>3. From(i2c.tx2, n + Len(i2c.tx)) /\ n + Len(i2c.tx) + Len(i2c.tx2) = Total(m)
        /\ From(bus.sent, 0) /\ (bus.shift # Empty => bus.shift = Len(bus.sent) + 2)
    BY <1>6 DEF Sending, Placed
  <2> HIDE DEF n
  <2>4. From(j.tx, Len(c.sent) + InHand(c))
    BY <1>14, <2>1
  <2>5. From(j.tx2, Len(c.sent) + InHand(c) + Len(j.tx))
        /\ Len(c.sent) + InHand(c) + Len(j.tx) + Len(j.tx2) = Total(m)
    BY <1>3, <1>11, <1>14, <2>2, <2>3, Zenon
  <2>6. c.txdr = Len(c.sent) + One(c.shift) + 2
    BY <1>11, <1>12, Zenon
  <2>7. From(c.sent, 0) /\ (c.shift # Empty => c.shift = Len(c.sent) + 2)
    BY <1>10, <2>3
  <2> QED
    BY <2>4, <2>5, <2>6, <2>7 DEF Placed
<1>16. Counted(j, c)
  <2>1. i2c.count = Len(bus.sent) + One(bus.shift) + 0
    BY <1>6, <1>8 DEF Sending, Counted
  <2>2. j.count = Len(c.sent) + One(c.shift) + One(c.txdr)
    BY <1>3, <1>8, <1>11, <1>13, <1>s, <2>1
  <2>3. bus.left <= InHand(bus) + Len(i2c.tx)
    BY <1>6 DEF Sending, Counted
  <2>4. InHand(c) <= c.left /\ c.left <= InHand(c) + Len(j.tx)
    BY <1>7, <1>8, <1>10, <1>11, <1>13, <1>s, <2>3
  <2>5. c.left < InHand(c) + Len(j.tx) <=> bus.left < InHand(bus) + Len(i2c.tx)
    BY <1>8, <1>10, <1>11, <1>13, <1>s
  <2>6. c.reload = TRUE <=> j.tx2 # <<>> \/ c.left < InHand(c) + Len(j.tx)
    BY <1>3, <1>6, <1>10, <2>5, Zenon DEF Sending, Counted
  <2>7. c.autoend = TRUE <=> c.reload = FALSE /\ j.rx = 0 /\ j.restart = FALSE
    BY <1>3, <1>6, <1>10, Zenon DEF Sending, Counted
  <2> QED
    BY <2>2, <2>4, <2>6, <2>7, Zenon DEF Counted
<1>17. Register(j, c)
  <2>1. c.phase # "address"
    BY <1>6, <1>7, <1>10 DEF Sending, Register
  <2> QED
    BY <1>4, <1>13, <2>1 DEF Register
<1>18. Sending(j, c, m)
  BY <1>3, <1>6, <1>10, <1>15, <1>16, <1>17 DEF Sending
<1>19. GoesWell(j, c, m)
  BY <1>2, <1>3, <1>18 DEF GoesWell
<1>20. SignalsOpen(c)
  BY <1>1, <1>2, <1>4, <1>10 DEF SignalsOpen
<1>21. j.current = i2c.current /\ IsBusy(j) /\ j.rx >= 0 /\ j.count >= 0 /\ c.outcome = "open"
  <2>1. i2c.count \in Int
    BY <1>1 DEF Drivers
  <2> QED
    BY <1>1, <1>2, <1>3, <1>10, <2>1 DEF SameClients, IsBusy
<1> QED
  BY <1>1, <1>2, <1>3, <1>19, <1>20, <1>21, BusyLeave DEF m

\* The bytes programmed are sent, and more of the message is written.
LEMMA ReloadWrite ==
  ASSUME DriverInv(i2c, bus, trans), IrqReload, i2c.state = "transmit"
  PROVE  DriverInv(i2c', bus', trans') /\ i2c'.state # "stop" /\ StaysOn
<1> DEFINE m  == trans[i2c.current].message
           i1 == IF i2c.tx = <<>> THEN [i2c EXCEPT !.tx = i2c.tx2, !.tx2 = <<>>] ELSE i2c
           b0 == ProgramWrite(i1, bus)
           b1 == [b0 EXCEPT !.phase = "data"]
           j  == LoadByte(i1, b1).i
           c  == LoadByte(i1, b1).b
<1>1. /\ IsBusy(i2c) /\ bus.outcome = "open" /\ SignalsOpen(bus) /\ GoesWell(i2c, bus, m)
      /\ i2c \in Drivers /\ bus \in Peripherals /\ i2c.rx >= 0 /\ i2c.count >= 0
      /\ m \in Messages
  BY RegularFacts DEF IrqReload
<1>2. "TCR" \in bus.flags /\ Continues /\ Leave(j, c)
  BY DEF IrqReload
<1> HIDE DEF m, j, c
<1>3. Sending(i2c, bus, m)
  BY <1>1 DEF GoesWell
<1>4. bus.flags = {"TCR"} /\ bus.reload = TRUE /\ bus.left = 0 /\ bus.shift = Empty
  <2>1. bus.phase \in Phases
    BY <1>1 DEF Peripherals
  <2>2. bus.phase = "held"
    BY <1>1, <1>2, <2>1 DEF SignalsOpen, Phases
  <2> QED
    BY <1>1, <1>2, <2>2 DEF SignalsOpen
<1>s. /\ i2c.tx \in Seq(Nat) /\ Len(i2c.tx) \in Nat /\ i2c.tx2 \in Seq(Nat)
      /\ Len(i2c.tx2) \in Nat /\ bus.sent \in Seq(Nat) /\ Len(bus.sent) \in Nat
  <2>1. /\ i2c.tx \in Seq(Nat) /\ Len(i2c.tx) \in Nat /\ i2c.tx2 \in Seq(Nat)
        /\ Len(i2c.tx2) \in Nat
    BY <1>1 DEF Drivers
  <2>2. bus.sent \in Seq(Nat) /\ Len(bus.sent) \in Nat
    BY <1>1 DEF Peripherals
  <2> QED
    BY <2>1, <2>2
<1>5. One(bus.shift) = 0 /\ Real(bus.txdr) \in {0, 1} /\ InHand(bus) = Real(bus.txdr)
  BY <1>4 DEF One, Real, InHand
<1>6. InHand(bus) = 0
  <2>1. InHand(bus) <= 0
    BY <1>3, <1>4 DEF Sending, Counted
  <2> QED
    BY <1>5, <2>1
<1>7. i2c.tx2 # <<>> \/ Len(i2c.tx) > 0
  <2>1. i2c.tx2 # <<>> \/ bus.left < InHand(bus) + Len(i2c.tx)
    BY <1>3, <1>4 DEF Sending, Counted
  <2> QED
    BY <1>4, <1>6, <1>s, <2>1
<1>8. bus.txdr = Empty
  <2>1. bus.txdr # Junk
    BY <1>3, <1>7 DEF Sending, Register
  <2> QED
    BY <1>5, <1>6, <2>1 DEF Real
<1>9. i2c.count = Len(bus.sent)
  <2>1. One(bus.txdr) = 0
    BY <1>8 DEF One
  <2>2. i2c.count = Len(bus.sent) + One(bus.shift) + One(bus.txdr)
    BY <1>3 DEF Sending, Counted
  <2> QED
    BY <1>5, <1>s, <2>1, <2>2
<1>10. /\ From(bus.sent, 0) /\ From(i2c.tx, Len(bus.sent))
       /\ From(i2c.tx2, Len(bus.sent) + Len(i2c.tx))
       /\ Len(bus.sent) + Len(i2c.tx) + Len(i2c.tx2) = Total(m)
  <2>1. /\ From(bus.sent, 0) /\ From(i2c.tx, Len(bus.sent) + InHand(bus))
        /\ From(i2c.tx2, Len(bus.sent) + InHand(bus) + Len(i2c.tx))
        /\ Len(bus.sent) + InHand(bus) + Len(i2c.tx) + Len(i2c.tx2) = Total(m)
    BY <1>3 DEF Sending, Placed
  <2>2. Len(bus.sent) + InHand(bus) = Len(bus.sent)
    BY <1>6, <1>s
  <2> QED
    BY <2>1, <2>2, Zenon
<1>11. /\ i1 \in Drivers /\ SameClients(i2c, i1) /\ i1.state = i2c.state
       /\ i1.count = i2c.count /\ i1.rx = i2c.rx
  <2>1. CASE i2c.tx = <<>>
    <3>1. i1 = [i2c EXCEPT !.tx = i2c.tx2, !.tx2 = <<>>]
      BY <2>1
    <3>2. <<>> \in Seq(Nat)
      OBVIOUS
    <3>3. i1 \in Drivers
      BY <1>1, <1>s, <3>1, <3>2, Zenon DEF Drivers
    <3>4. SameClients(i2c, i1) /\ i1.state = i2c.state
          /\ i1.count = i2c.count /\ i1.rx = i2c.rx
      BY <1>1, <3>1 DEF Drivers, SameClients
    <3> QED
      BY <3>3, <3>4
  <2>2. CASE i2c.tx # <<>>
    BY <1>1, <2>2 DEF SameClients
  <2> QED
    BY <2>1, <2>2
<1>12. /\ Len(i1.tx) > 0 /\ i1.tx \in Seq(Nat)
       /\ From(i1.tx, Len(bus.sent)) /\ From(i1.tx2, Len(bus.sent) + Len(i1.tx))
       /\ Len(bus.sent) + Len(i1.tx) + Len(i1.tx2) = Total(m)
  <2>1. CASE i2c.tx = <<>>
    <3>1. i1.tx = i2c.tx2 /\ i1.tx2 = <<>>
      BY <1>1, <2>1 DEF Drivers
    <3> HIDE DEF i1
    <3>2. Len(i2c.tx) = 0 /\ i2c.tx2 # <<>>
      BY <1>7, <2>1
    <3>3. Len(i2c.tx2) > 0
      BY <1>s, <3>2
    <3>4. Len(bus.sent) + Len(i2c.tx) = Len(bus.sent)
      BY <1>s, <3>2
    <3>5. From(i2c.tx2, Len(bus.sent)) /\ Len(bus.sent) + Len(i2c.tx2) = Total(m)
      BY <1>10, <3>4, Zenon
    <3>6. Len(i1.tx2) = 0 /\ From(i1.tx2, Len(bus.sent) + Len(i1.tx))
      BY <3>1 DEF From
    <3>7. Len(bus.sent) + Len(i1.tx) + Len(i1.tx2) = Total(m)
      <4>1. Total(m) \in Int
        BY <1>1, BytesFacts
      <4>2. Len(bus.sent) + Len(i1.tx) = Total(m)
        BY <3>1, <3>5, Zenon
      <4>3. Total(m) + Len(i1.tx2) = Total(m)
        BY <3>6, <4>1, NoMore, Zenon
      <4> QED
        BY <4>2, <4>3, Zenon
    <3>8. Len(i1.tx) > 0 /\ i1.tx \in Seq(Nat)
      BY <1>s, <3>1, <3>3
    <3>9. From(i1.tx, Len(bus.sent))
      BY <3>1, <3>5, Zenon
    <3> QED
      BY <3>6, <3>7, <3>8, <3>9
  <2>2. CASE i2c.tx # <<>>
    <3>1. i1 = i2c
      BY <2>2
    <3>2. Len(i2c.tx) > 0
      BY <1>s, <2>2
    <3> HIDE DEF i1
    <3> QED
      BY <1>10, <1>s, <3>1, <3>2
  <2> QED
    BY <2>1, <2>2
<1> HIDE DEF i1
<1>13. b0 \in Peripherals /\ b0.left = Least(Len(i1.tx), NBYTES_MAX)
  BY <1>1, <1>11, ProgramWriteFacts, Zenon
<1>14. b0.reload = TRUE <=> i1.tx2 # <<>> \/ Len(i1.tx) > NBYTES_MAX
  BY <1>1, <1>11, ProgramWriteFacts, Zenon
<1>15. b0.autoend = TRUE <=> b0.reload = FALSE /\ i1.rx = 0 /\ i1.restart = FALSE
  BY <1>1, <1>11, ProgramWriteFacts, Zenon
<1>16. b0 = [bus EXCEPT !.left = b0.left, !.reload = b0.reload, !.autoend = b0.autoend,
                        !.flags = bus.flags \ {"TC", "TCR"}]
  BY <1>1, <1>11, ProgramWriteFacts, Zenon
<1> HIDE DEF b0
<1>17. /\ b0.sent = bus.sent /\ b0.shift = Empty /\ b0.got = bus.got /\ b0.flags = {}
       /\ b0.read = bus.read /\ b0.outcome = "open"
  BY <1>1, <1>4, <1>16 DEF Peripherals
<1>18. b1 \in Peripherals
  BY <1>13 DEF Peripherals, Phases
<1>19. /\ b1.sent = bus.sent /\ b1.shift = Empty /\ b1.got = bus.got /\ b1.flags = {}
       /\ b1.read = bus.read /\ b1.outcome = "open" /\ b1.phase = "data"
  BY <1>13, <1>17 DEF Peripherals
<1>20. b1.left = b0.left /\ b1.reload = b0.reload /\ b1.autoend = b0.autoend
  BY <1>13 DEF Peripherals
<1> HIDE DEF b1
<1>21. Sending(j, c, m)
  <2>1. Buffered(i1, b1, m)
    <3>1. i1.tx # <<>>
      BY <1>12
    <3> QED
      BY <1>9, <1>10, <1>11, <1>12, <1>19, <3>1 DEF Buffered
  <2>2. Programmed(i1, b1)
    BY <1>13, <1>14, <1>15, <1>20, Zenon DEF Programmed
  <2>3. ToBeRead(i1, b1, m)
    BY <1>3, <1>11, <1>19 DEF ToBeRead, Sending
  <2> QED
    BY <1>1, <1>11, <1>18, <2>1, <2>2, <2>3, FirstByte, Zenon DEF j, c
<1>22. /\ j \in Drivers /\ c \in Peripherals /\ SameClients(i1, j) /\ j.state = i1.state
       /\ j.count = i1.count + 1 /\ j.rx = i1.rx
       /\ c.flags = b1.flags \ {"TXIS"} /\ SameWire(b1, c) /\ SameCount(b1, c)
  BY <1>11, <1>18, LoadByteFacts, Zenon DEF j, c
<1>23. SignalsOpen(c) /\ c.outcome = "open"
  <2>1. b0.left > 0
    BY <1>12, <1>13, LeastFacts
  <2>2. c.phase = "data" /\ c.flags = {} /\ c.left > 0
    BY <1>19, <1>20, <1>22, <2>1 DEF SameWire, SameCount
  <2> QED
    BY <1>19, <1>22, <2>2 DEF SignalsOpen, SameWire
<1>24. GoesWell(j, c, m) /\ IsBusy(j) /\ SameClients(i2c, j) /\ j.current = i2c.current
  BY <1>11, <1>21, <1>22 DEF GoesWell, IsBusy, SameClients
<1>25. j.rx >= 0 /\ j.count >= 0
  BY <1>1, <1>9, <1>11, <1>22, <1>s
<1> QED
  BY <1>1, <1>2, <1>22, <1>23, <1>24, <1>25, BusyLeave DEF m

\* The bytes programmed are read, and more of the message is asked for.
LEMMA ReloadRead ==
  ASSUME DriverInv(i2c, bus, trans), IrqReload, i2c.state # "transmit"
  PROVE  DriverInv(i2c', bus', trans') /\ i2c'.state # "stop" /\ StaysOn
<1> DEFINE m  == trans[i2c.current].message
           n  == Least(i2c.rx, NBYTES_MAX)
           j  == [i2c EXCEPT !.rx = i2c.rx - n]
           b0 == ProgramRead(i2c, bus)
           c  == [b0 EXCEPT !.phase = "data"]
<1>1. /\ IsBusy(i2c) /\ bus.outcome = "open" /\ SignalsOpen(bus) /\ GoesWell(i2c, bus, m)
      /\ i2c \in Drivers /\ bus \in Peripherals /\ i2c.rx >= 0 /\ i2c.count >= 0
      /\ m \in Messages
  BY RegularFacts DEF IrqReload
<1>2. "TCR" \in bus.flags /\ Continues /\ Leave(j, c)
  <2>1. [i2c EXCEPT !.rx = @ - Least(@, NBYTES_MAX)] = j
    BY <1>1 DEF Drivers
  <2> HIDE DEF j, c
  <2> QED
    BY <2>1 DEF IrqReload, c, b0
<1> HIDE DEF m
<1>3. Receiving(i2c, bus, m)
  BY <1>1 DEF GoesWell
<1>4. bus.flags = {"TCR"} /\ bus.reload = TRUE /\ bus.left = 0
  <2>1. bus.phase \in Phases
    BY <1>1 DEF Peripherals
  <2>2. bus.phase = "held"
    BY <1>1, <1>2, <2>1 DEF SignalsOpen, Phases
  <2> QED
    BY <1>1, <1>2, <2>2 DEF SignalsOpen
<1>5. i2c.rx \in Nat /\ i2c.rx > 0
  BY <1>1, <1>3, <1>4 DEF Receiving, Drivers
<1>6. n \in Nat /\ n > 0 /\ i2c.rx - n \in Nat /\ (i2c.rx > NBYTES_MAX <=> i2c.rx - n > 0)
  BY <1>5, LeastFacts, SizeAssumption
<1>7. b0 \in Peripherals /\ b0.left = n
  BY <1>1, ProgramReadFacts, Zenon
<1>8. b0.reload = TRUE <=> i2c.rx > NBYTES_MAX
  BY <1>1, ProgramReadFacts, Zenon
<1>9. b0.autoend = TRUE <=> b0.reload = FALSE /\ i2c.restart = FALSE
  BY <1>1, ProgramReadFacts, Zenon
<1>10. b0 = [bus EXCEPT !.left = b0.left, !.reload = b0.reload, !.autoend = b0.autoend,
                        !.flags = bus.flags \ {"TC", "TCR"}]
  BY <1>1, ProgramReadFacts, Zenon
<1> HIDE DEF n, b0
<1>11. j \in Drivers
  <2>1. i2c.rx - n \in Int
    BY <1>6
  <2> QED
    BY <1>1, <2>1, Zenon DEF Drivers
<1>12. j.state = i2c.state /\ j.rx = i2c.rx - n /\ j.count = i2c.count /\ SameClients(i2c, j)
  BY <1>1 DEF Drivers, SameClients
<1>13. /\ b0.sent = bus.sent /\ b0.shift = bus.shift /\ b0.got = bus.got /\ b0.flags = {}
       /\ b0.read = bus.read /\ b0.outcome = "open" /\ b0.txdr = bus.txdr
  BY <1>1, <1>4, <1>10 DEF Peripherals
<1>14. c \in Peripherals
  BY <1>7 DEF Peripherals, Phases
<1>15. /\ c.sent = bus.sent /\ c.shift = bus.shift /\ c.got = bus.got /\ c.flags = {}
       /\ c.read = bus.read /\ c.outcome = "open" /\ c.txdr = bus.txdr /\ c.phase = "data"
  BY <1>7, <1>13 DEF Peripherals
<1>16. c.left = b0.left /\ c.reload = b0.reload /\ c.autoend = b0.autoend
  BY <1>7 DEF Peripherals
<1> HIDE DEF j, c
<1>17. Receiving(j, c, m)
  <2>1. bus.got + 0 + i2c.rx = m.rx /\ bus.got \in Int
    BY <1>1, <1>3, <1>4 DEF Receiving, Peripherals
  <2>2. bus.got + n + (i2c.rx - n) = m.rx
    BY <1>5, <1>6, <2>1
  <2>3. c.got + c.left + j.rx = m.rx
    BY <1>7, <1>12, <1>15, <1>16, <2>2, Zenon
  <2>4. c.left >= 0 /\ j.rx >= 0
    BY <1>6, <1>7, <1>12, <1>16
  <2>5. c.reload = TRUE <=> j.rx > 0
    BY <1>6, <1>8, <1>12, <1>16
  <2>6. c.autoend = TRUE <=> c.reload = FALSE /\ j.restart = FALSE
    BY <1>9, <1>12, <1>16 DEF SameClients
  <2> QED
    BY <1>3, <1>12, <1>15, <2>3, <2>4, <2>5, <2>6 DEF Receiving
<1>18. SignalsOpen(c)
  BY <1>6, <1>7, <1>15, <1>16 DEF SignalsOpen
<1>19. GoesWell(j, c, m) /\ IsBusy(j) /\ j.current = i2c.current
  BY <1>1, <1>12, <1>17 DEF GoesWell, IsBusy, SameClients
<1>20. j.rx >= 0 /\ j.count >= 0
  BY <1>1, <1>6, <1>12
<1> QED
  BY <1>1, <1>2, <1>11, <1>12, <1>14, <1>15, <1>18, <1>19, <1>20, BusyLeave DEF m

\* What was to be written is written, and the driver turns to reading.
LEMMA IrqTurnKeeps ==
  ASSUME DriverInv(i2c, bus, trans), IrqTurn
  PROVE  DriverInv(i2c', bus', trans') /\ i2c'.state # "stop" /\ StaysOn
<1> DEFINE m  == trans[i2c.current].message
           i1 == [i2c EXCEPT !.state = EndState]
           b1 == Ended(bus)
           j  == Receive(i1, b1).i
           c  == Receive(i1, b1).b
<1>1. /\ IsBusy(i2c) /\ bus.outcome = "open" /\ SignalsOpen(bus) /\ GoesWell(i2c, bus, m)
      /\ i2c \in Drivers /\ bus \in Peripherals /\ m \in Messages
  BY RegularFacts DEF IrqTurn
<1>2. /\ i2c.state = "transmit" /\ bus.flags \cap {"TC", "STOPF"} # {}
      /\ Continues /\ Leave(j, c)
  BY DEF IrqTurn
<1> HIDE DEF m, j, c
<1>3. bus.left = 0 /\ bus.shift = Empty /\ bus.reload = FALSE
  <2>1. bus.phase \in Phases
    BY <1>1 DEF Peripherals
  <2>2. bus.phase \in {"held", "idle"}
    BY <1>1, <1>2, <2>1 DEF SignalsOpen, Phases
  <2> QED
    BY <1>1, <1>2, <2>2 DEF SignalsOpen
<1>4. From(bus.sent, 0) /\ Len(bus.sent) = Total(m) /\ bus.got = 0 /\ i2c.rx = m.rx
  BY <1>1, <1>2, <1>3, WrittenFacts
<1>5. i1 \in Drivers
  <2>1. EndState \in States
    BY DEF EndState, States
  <2> QED
    BY <1>1, <2>1, Zenon DEF Drivers
<1>6. i1.rx = i2c.rx /\ SameClients(i2c, i1)
  BY <1>1 DEF Drivers, SameClients
<1>7. b1 \in Peripherals /\ b1.sent = bus.sent /\ b1.got = bus.got /\ b1.outcome = "open"
  <2>1. FALSE \in Truth
    BY DEF Truth
  <2>2. b1 = [bus EXCEPT !.enabled = FALSE, !.flags = bus.flags \ {"STOPF"}]
    BY <1>1 DEF Ended, Peripherals
  <2>3. bus.flags \ {"STOPF"} \in SUBSET Flags
    BY <1>1 DEF Peripherals
  <2> HIDE DEF b1
  <2>4. b1 \in Peripherals
    BY <1>1, <2>1, <2>2, <2>3, Zenon DEF Peripherals
  <2>5. b1.sent = bus.sent /\ b1.got = bus.got /\ b1.outcome = "open"
    BY <1>1, <2>2 DEF Peripherals
  <2> QED
    BY <2>4, <2>5
<1> HIDE DEF i1, b1
<1>8. i1.rx = m.rx /\ From(b1.sent, 0) /\ Len(b1.sent) = Total(m) /\ b1.got = 0
  BY <1>4, <1>6, <1>7
<1>9. /\ j \in Drivers /\ c \in Peripherals /\ SameClients(i1, j) /\ j.state = "receive"
      /\ c.outcome = b1.outcome /\ j.rx >= 0 /\ j.count >= 0 /\ SignalsOpen(c)
      /\ Receiving(j, c, m)
  BY <1>1, <1>5, <1>7, <1>8, ReceiveFacts, Zenon DEF j, c
<1>10. GoesWell(j, c, m) /\ IsBusy(j) /\ SameClients(i2c, j) /\ j.current = i2c.current
       /\ c.outcome = "open"
  BY <1>6, <1>7, <1>9 DEF GoesWell, IsBusy, SameClients
<1> QED
  BY <1>1, <1>2, <1>9, <1>10, BusyLeave DEF m

\* A status is given to the transaction on the bus, and to no other.
LEMMA EndsFacts ==
  ASSUME DriverInv(i2c, bus, trans), IsActive(i2c), NEW status \in Results \ {"busy"},
         Ends(status)
  PROVE  /\ i2c.current \in Client /\ trans[i2c.current].status = "busy"
         /\ trans' \in [Client -> Transactions]
         /\ trans'[i2c.current].status = status
         /\ trans'[i2c.current].restart = trans[i2c.current].restart
         /\ trans'[i2c.current].address = trans[i2c.current].address
         /\ \A c \in Client : c # i2c.current => trans'[c] = trans[c]
         /\ \A c \in Client : trans'[c].status = "busy" =>
                c # i2c.current /\ trans[c] = trans'[c]
<1> DEFINE t == i2c.current
           r == [trans[t] EXCEPT !.status = status]
<1>1. t \in Client /\ trans[t].status = "busy" /\ trans \in [Client -> Transactions]
  BY DEF DriverInv, CurrentInv, Types
<1>2. trans' = [trans EXCEPT ![t] = r]
  BY DEF Ends
<1>3. trans[t] \in Transactions
  BY <1>1
<1>4. r \in Transactions /\ r.status = status /\ r.restart = trans[t].restart
      /\ r.address = trans[t].address
  BY <1>3 DEF Transactions
<1> HIDE DEF t, r
<1>5. trans' \in [Client -> Transactions] /\ trans'[t] = r
      /\ \A c \in Client : c # t => trans'[c] = trans[c]
  BY <1>1, <1>2, <1>4
<1>6. \A c \in Client : trans'[c].status = "busy" => c # t /\ trans[c] = trans'[c]
  BY <1>4, <1>5
<1> QED
  BY <1>1, <1>4, <1>5, <1>6 DEF t

\* Between transactions, after one that ended.
LEMMA EndedKeeps ==
  ASSUME DriverInv(i2c, bus, trans), IsActive(i2c), NEW status \in Results \ {"busy"},
         Ends(status), NEW i \in Drivers, NEW c \in Peripherals,
         i.state \in {"stop", "restart"}, i.queue = i2c.queue, i.continue = i2c.continue,
         RestInv(i, Cleared(c)), Leave(i, c)
  PROVE  DriverInv(i2c', bus', trans') /\ i2c'.state # "stop"
<1>1. /\ trans' \in [Client -> Transactions]
      /\ \A k \in Client : k # i2c.current => trans'[k] = trans[k]
      /\ \A k \in Client : trans'[k].status = "busy" => trans[k] = trans'[k]
  BY EndsFacts
<1>2. ~IsActive(i) /\ ~IsBusy(i) /\ i.state # "nack"
  BY DEF IsActive, IsBusy
<1>3. Cleared(c) \in Peripherals
  BY ClearedFacts
<1>4. QueueInv(i, trans')
  <2>1. i2c.queue \in Seq(Client) /\ i2c.continue \in Client \cup {None}
    BY DEF DriverInv, Types, Drivers
  <2>2. QueueInv(i2c, trans)
    BY DEF DriverInv
  <2>3. \A k \in 1..Len(i2c.queue) :
           i2c.queue[k] \in Client /\ i2c.queue[k] # i2c.current
    BY <2>1, <2>2 DEF QueueInv
  <2>4. \A k \in 1..Len(i2c.queue) : trans'[i2c.queue[k]].status = "busy"
    BY <1>1, <2>2, <2>3 DEF QueueInv
  <2>5. i2c.continue # None => trans'[i2c.continue].status = "busy"
    BY <1>1, <2>1, <2>2 DEF QueueInv
  <2> QED
    BY <1>2, <2>2, <2>4, <2>5 DEF QueueInv
<1>5. TransferInv(i, Cleared(c), trans')
  BY <1>2 DEF TransferInv
<1>6. CurrentInv(i, trans')
  BY <1>2 DEF CurrentInv
<1>7. Types(i, Cleared(c), trans')
  BY <1>1, <1>3 DEF Types
<1>8. DriverInv(i, Cleared(c), trans')
  BY <1>4, <1>5, <1>6, <1>7 DEF DriverInv
<1> QED
  BY <1>1, <1>8, LeaveKeeps

\* As above, after a failure: the bus is not kept.
LEMMA FailedKeeps ==
  ASSUME DriverInv(i2c, bus, trans), IsActive(i2c), bus.phase = "idle",
         NEW status \in Results \ {"busy"}, Ends(status),
         NEW i, i = [i2c EXCEPT !.state = "stop", !.restart = FALSE],
         NEW c \in Peripherals, c.phase = "idle", Leave(i, c)
  PROVE  DriverInv(i2c', bus', trans') /\ i2c'.state # "stop"
<1>1. i2c \in Drivers /\ i2c.locks = 1 /\ i2c.rx >= 0 /\ i2c.count >= 0
  BY DEF DriverInv, Types, RestInv, IsActive
<1>2. i \in Drivers
  <2>1. "stop" \in States /\ FALSE \in Truth
    BY DEF States, Truth
  <2> QED
    BY <1>1, <2>1, Zenon DEF Drivers
<1>3. /\ i.state = "stop" /\ i.queue = i2c.queue /\ i.continue = i2c.continue
      /\ i.locks = i2c.locks /\ i.rx = i2c.rx /\ i.count = i2c.count /\ i.restart = FALSE
  BY <1>1 DEF Drivers
<1>4. Cleared(c).phase = "idle"
  BY ClearedFacts
<1>5. RestInv(i, Cleared(c))
  BY <1>1, <1>3, <1>4 DEF RestInv
<1> QED
  BY <1>2, <1>3, <1>5, EndedKeeps

\* The bus was lost to another master.
LEMMA IrqArbitrationKeeps ==
  ASSUME DriverInv(i2c, bus, trans), IrqArbitration
  PROVE  /\ DriverInv(i2c', bus', trans') /\ i2c'.state # "stop"
         /\ IsActive(i2c) /\ bus.outcome = "arbitration_lost"
<1> DEFINE i == [i2c EXCEPT !.state = "stop", !.restart = FALSE]
           c == [bus EXCEPT !.flags = bus.flags \ {"ARLO", "NACKF"}, !.enabled = FALSE]
<1>1. bus \in Peripherals /\ bus.outcome \in Outcomes /\ bus.phase \in Phases
  BY DEF DriverInv, Types, Peripherals
<1>2. IsBusy(i2c) /\ "ARLO" \in bus.flags /\ Ends("arbitration_lost")
  BY DEF IrqArbitration, Busy, IsBusy
<1>3. bus.outcome # "open"
  BY <1>1, <1>2 DEF DriverInv, TransferInv, SignalsOpen, Phases
<1>4. bus.outcome = "arbitration_lost"
  BY <1>1, <1>2, <1>3 DEF Outcomes, DriverInv, TransferInv, Refusal, StopFollows
<1>5. IsActive(i2c) /\ bus.phase = "idle"
  BY <1>2, <1>4 DEF DriverInv, TransferInv, IsBusy, IsActive
<1>6. Leave(i, c)
  <2>1. [bus EXCEPT !.flags = @ \ {"ARLO", "NACKF"}, !.enabled = FALSE] = c
    BY <1>1 DEF Peripherals
  <2> HIDE DEF i, c
  <2> QED
    BY <2>1 DEF IrqArbitration, i
<1>7. c \in Peripherals /\ c.phase = "idle"
  <2>1. FALSE \in Truth /\ bus.flags \ {"ARLO", "NACKF"} \in SUBSET Flags
    BY <1>1 DEF Truth, Peripherals
  <2>2. c \in Peripherals
    BY <1>1, <2>1, Zenon DEF Peripherals
  <2>3. c.phase = "idle"
    BY <1>1, <1>5 DEF Peripherals
  <2> QED
    BY <2>2, <2>3
<1> HIDE DEF i, c
<1>8. "arbitration_lost" \in Results \ {"busy"}
  BY DEF Results
<1> QED
  BY <1>2, <1>4, <1>5, <1>6, <1>7, <1>8, FailedKeeps DEF i

\* The slave refused, and the STOP that follows is on the wire.
LEMMA IrqNackEndsKeeps ==
  ASSUME DriverInv(i2c, bus, trans), IrqNackEnds
  PROVE  /\ DriverInv(i2c', bus', trans') /\ i2c'.state # "stop" /\ IsActive(i2c)
         /\ bus.outcome = IF i2c.count = 0 THEN "address_nack" ELSE "data_nack"
<1> DEFINE i == [i2c EXCEPT !.state = "stop", !.restart = FALSE]
           c == [bus EXCEPT !.flags = bus.flags \ {"STOPF"}]
           s == IF i2c.count = 0 THEN "address_nack" ELSE "data_nack"
<1>1. bus \in Peripherals /\ i2c.state = "nack" /\ "STOPF" \in bus.flags
  BY DEF DriverInv, Types, IrqNackEnds
<1>2. StopFollows(bus) /\ bus.outcome = s
  BY <1>1 DEF DriverInv, TransferInv
<1>3. IsActive(i2c) /\ bus.phase = "idle"
  BY <1>1, <1>2 DEF StopFollows, IsActive
<1>4. Leave(i, c) /\ Ends(s)
  <2>1. [bus EXCEPT !.flags = @ \ {"STOPF"}] = c
    BY <1>1 DEF Peripherals
  <2> HIDE DEF i, c
  <2> QED
    BY <2>1 DEF IrqNackEnds, i
<1>5. c \in Peripherals /\ c.phase = "idle"
  BY <1>1, <1>3 DEF Peripherals
<1>6. s \in Results \ {"busy"}
  BY DEF Results
<1> HIDE DEF i, c, s
<1>7. DriverInv(i2c', bus', trans') /\ i2c'.state # "stop"
  BY <1>3, <1>4, <1>5, <1>6, FailedKeeps DEF i
<1> QED
  BY <1>2, <1>3, <1>7 DEF s

\* The slave refuses: a byte still in TXDR was not sent.
LEMMA IrqNackKeeps ==
  ASSUME DriverInv(i2c, bus, trans), IrqNack
  PROVE  DriverInv(i2c', bus', trans') /\ i2c'.state # "stop" /\ StaysOn
<1> DEFINE n == IF i2c.state = "transmit" /\ bus.txdr # Empty THEN i2c.count - 1 ELSE i2c.count
           i == [i2c EXCEPT !.state = "nack", !.count = n]
           c == [bus EXCEPT !.flags = bus.flags \ {"NACKF"}, !.enabled = FALSE]
<1>1. i2c \in Drivers /\ bus \in Peripherals /\ bus.outcome \in Outcomes
  BY DEF DriverInv, Types, Peripherals
<1>2. /\ IsBusy(i2c) /\ "ARLO" \notin bus.flags /\ "NACKF" \in bus.flags /\ trans' = trans
  BY DEF IrqNack, Busy, IsBusy, Continues
<1>3. Leave(i, c)
  <2>1. [i2c EXCEPT !.state = "nack",
                    !.count = IF i2c.state = "transmit" /\ bus.txdr # Empty
                              THEN @ - 1 ELSE @] = i
    BY <1>1 DEF Drivers
  <2>2. [bus EXCEPT !.flags = @ \ {"NACKF"}, !.enabled = FALSE] = c
    BY <1>1 DEF Peripherals
  <2> HIDE DEF i, c
  <2> QED
    BY <2>1, <2>2 DEF IrqNack
<1>4. bus.outcome # "open"
  <2>1. bus.phase \in Phases
    BY <1>1 DEF Peripherals
  <2> QED
    BY <1>2, <2>1 DEF DriverInv, TransferInv, SignalsOpen, Phases
<1>5. bus.outcome \in {"address_nack", "data_nack"}
  BY <1>1, <1>2, <1>4 DEF Outcomes, DriverInv, TransferInv
<1>6. Refusal(i2c, bus)
  BY <1>2, <1>5 DEF DriverInv, TransferInv
<1>7. i2c.count \in Int /\ i2c.count >= 0
  <2>1. i2c.count >= 0
    BY DEF DriverInv, RestInv
  <2>2. i2c.count \in Int
    BY <1>1 DEF Drivers
  <2> QED
    BY <2>1, <2>2
<1>8. n \in Int /\ n >= 0 /\ bus.outcome = IF n = 0 THEN "address_nack" ELSE "data_nack"
  <2>1. CASE i2c.state = "receive"
    BY <1>6, <2>1 DEF Refusal
  <2>2. CASE i2c.state = "transmit" /\ bus.outcome = "address_nack"
    BY <1>6, <2>2 DEF Refusal
  <2>3. CASE i2c.state = "transmit" /\ bus.outcome = "data_nack"
    <3>1. i2c.count >= 1 + One(bus.txdr)
      BY <1>6, <2>3 DEF Refusal
    <3>2. n >= 1
      BY <1>7, <2>3, <3>1 DEF One
    <3>3. n \in Int
      BY <1>7
    <3> HIDE DEF n
    <3> QED
      BY <2>3, <3>2, <3>3
  <2> QED
    BY <1>2, <1>5, <2>1, <2>2, <2>3 DEF IsBusy
<1> HIDE DEF n
<1>9. i \in Drivers
  <2>1. "nack" \in States
    BY DEF States
  <2> QED
    BY <1>1, <1>8, <2>1, Zenon DEF Drivers
<1>10. /\ i.state = "nack" /\ i.count = n /\ SameClients(i2c, i) /\ i.rx = i2c.rx
  BY <1>1 DEF Drivers, SameClients
<1>11. c \in Peripherals
  <2>1. FALSE \in Truth /\ bus.flags \ {"NACKF"} \in SUBSET Flags
    BY <1>1 DEF Truth, Peripherals
  <2> QED
    BY <1>1, <2>1, Zenon DEF Peripherals
<1>12. c.phase = bus.phase /\ c.flags = bus.flags \ {"NACKF"} /\ c.outcome = bus.outcome
  BY <1>1 DEF Peripherals
<1> HIDE DEF i, c
<1>13. Cleared(c) = c
  BY <1>2, <1>11, <1>12, ClearedFacts
<1>14. IsActive(i2c) /\ IsActive(i) /\ ~IsBusy(i)
  BY <1>2, <1>10 DEF IsBusy, IsActive
<1>15. StopFollows(c)
  BY <1>6, <1>12 DEF Refusal, StopFollows
<1>16. TransferInv(i, c, trans)
  BY <1>8, <1>10, <1>12, <1>14, <1>15 DEF TransferInv
<1>17. RestInv(i, c)
  BY <1>2, <1>8, <1>10 DEF DriverInv, RestInv, SameClients, IsBusy
<1>18. CurrentInv(i, trans)
  BY <1>10, <1>14 DEF DriverInv, CurrentInv, SameClients
<1>19. QueueInv(i, trans)
  BY <1>10, <1>14 DEF DriverInv, QueueInv, SameClients
<1>20. DriverInv(i, c, trans)
  BY <1>9, <1>11, <1>16, <1>17, <1>18, <1>19 DEF DriverInv, Types
<1>21. StaysOn
  BY <1>3, <1>9, <1>10, <1>11, <1>14, LeaveActive DEF StaysOn
<1> QED
  BY <1>2, <1>3, <1>11, <1>13, <1>20, <1>21, LeaveKeeps

\* All is transferred: so say the bytes on the wire, and the bus is free or kept as
\* the client demanded.
LEMMA IrqEndsKeeps ==
  ASSUME DriverInv(i2c, bus, trans), IrqEnds
  PROVE  LET m == trans[i2c.current].message
         IN  /\ DriverInv(i2c', bus', trans') /\ i2c'.state # "stop"
             /\ IsActive(i2c) /\ bus.outcome = "open"
             /\ From(bus.sent, 0) /\ Len(bus.sent) = Total(m) /\ bus.got = m.rx
             /\ bus.phase = IF i2c.restart = TRUE THEN "held" ELSE "idle"
             /\ EndState = IF i2c.restart = TRUE THEN "restart" ELSE "stop"
<1> DEFINE m == trans[i2c.current].message
           i == [i2c EXCEPT !.state = EndState]
           c == Ended(bus)
<1>1. /\ IsBusy(i2c) /\ bus.outcome = "open" /\ SignalsOpen(bus) /\ GoesWell(i2c, bus, m)
      /\ i2c \in Drivers /\ bus \in Peripherals /\ i2c.rx >= 0 /\ i2c.count >= 0
      /\ m \in Messages
  BY RegularFacts DEF IrqEnds
<1>2. /\ i2c.state = "transmit" => i2c.rx = 0
      /\ bus.flags \cap {"TC", "STOPF"} # {} /\ Ends("success") /\ Leave(i, c)
  BY DEF IrqEnds
<1>3. EndState = IF "TC" \in bus.flags THEN "restart" ELSE "stop"
  BY DEF EndState
<1> HIDE DEF m, c
<1>4. \/ /\ bus.phase = "held" /\ bus.flags = {"TC"} /\ bus.left = 0 /\ bus.shift = Empty
         /\ bus.reload = FALSE /\ bus.autoend = FALSE
      \/ /\ bus.phase = "idle" /\ bus.flags = {"STOPF"} /\ bus.left = 0 /\ bus.shift = Empty
         /\ bus.reload = FALSE /\ bus.autoend = TRUE
  <2>1. bus.phase \in Phases
    BY <1>1 DEF Peripherals
  <2>2. bus.phase \in {"held", "idle"}
    BY <1>1, <1>2, <2>1 DEF SignalsOpen, Phases
  <2> QED
    BY <1>1, <1>2, <2>2 DEF SignalsOpen
<1>5. /\ From(bus.sent, 0) /\ Len(bus.sent) = Total(m)
      /\ i2c.state = "transmit" => bus.got = 0 /\ i2c.rx = m.rx
      /\ i2c.state # "transmit" => bus.got = m.rx
  BY <1>1, <1>4, WrittenFacts
<1>6. bus.got = m.rx
  BY <1>2, <1>5
<1>7. bus.autoend = TRUE <=> i2c.restart = FALSE
  BY <1>1, <1>2, <1>4 DEF GoesWell, Sending, Counted, Receiving
<1>8. i2c.restart \in {TRUE, FALSE}
  BY <1>1, Zenon DEF Drivers, Truth
<1>9. /\ bus.phase = IF i2c.restart = TRUE THEN "held" ELSE "idle"
      /\ EndState = IF i2c.restart = TRUE THEN "restart" ELSE "stop"
  BY <1>3, <1>4, <1>7, <1>8
<1>10. IsActive(i2c) /\ i2c.locks = 1
  BY <1>1 DEF IsBusy, IsActive, DriverInv, RestInv
<1>11. i \in Drivers
  <2>1. EndState \in States
    BY <1>9 DEF States
  <2> QED
    BY <1>1, <2>1, Zenon DEF Drivers
<1>12. /\ i.state = EndState /\ i.queue = i2c.queue /\ i.continue = i2c.continue
       /\ i.locks = i2c.locks /\ i.rx = i2c.rx /\ i.count = i2c.count
       /\ i.restart = i2c.restart
  BY <1>1 DEF Drivers
<1>13. c \in Peripherals /\ c.phase = bus.phase /\ c.flags = bus.flags \ {"STOPF"}
  <2>1. FALSE \in Truth
    BY DEF Truth
  <2>2. c = [bus EXCEPT !.enabled = FALSE, !.flags = bus.flags \ {"STOPF"}]
    BY <1>1 DEF Ended, Peripherals, c
  <2>3. bus.flags \ {"STOPF"} \in SUBSET Flags
    BY <1>1 DEF Peripherals
  <2>4. c \in Peripherals
    BY <1>1, <2>1, <2>2, <2>3, Zenon DEF Peripherals
  <2>5. c.phase = bus.phase /\ c.flags = bus.flags \ {"STOPF"}
    BY <1>1, <2>2 DEF Peripherals
  <2> QED
    BY <2>4, <2>5
<1> HIDE DEF i
<1>14. Cleared(c).phase = bus.phase /\ Cleared(c).flags \subseteq bus.flags
  BY <1>13, ClearedFacts
<1>15. RestInv(i, Cleared(c))
  BY <1>1, <1>4, <1>8, <1>9, <1>10, <1>12, <1>14 DEF RestInv
<1>16. "success" \in Results \ {"busy"} /\ i.state \in {"stop", "restart"}
  BY <1>9, <1>12 DEF Results
<1>17. DriverInv(i2c', bus', trans') /\ i2c'.state # "stop"
  BY <1>2, <1>10, <1>11, <1>12, <1>13, <1>15, <1>16, EndedKeeps
<1> QED
  BY <1>1, <1>5, <1>6, <1>9, <1>10, <1>17 DEF m

\* An entry for a transaction that was enqueued.
LEMMA IrqEnqueuedKeeps ==
  ASSUME DriverInv(i2c, bus, trans), i2c.state # "stop", IrqEnqueued
  PROVE  DriverInv(i2c', bus', trans') /\ i2c'.state # "stop" /\ Cleared(bus) = bus
<1>1. i2c.state \in States /\ bus \in Peripherals
  BY DEF DriverInv, Types, Drivers
<1>2. /\ IsBusy(i2c) => bus.flags = {}
      /\ Leave(i2c, bus) /\ trans' = trans
  BY DEF IrqEnqueued, Busy, IsBusy, Continues
<1>3. "ARLO" \notin bus.flags
  BY <1>1, <1>2 DEF States, IsBusy, DriverInv, RestInv, TransferInv, StopFollows
<1>4. Cleared(bus) = bus
  BY <1>1, <1>3, ClearedFacts
<1> QED
  BY <1>1, <1>2, <1>4, LeaveKeeps

\* No entry of the interrupt disturbs the driver.
LEMMA IrqKeeps ==
  ASSUME DriverInv(i2c, bus, trans), i2c.state # "stop", Irq
  PROVE  DriverInv(i2c', bus', trans') /\ i2c'.state # "stop"
  BY IrqArbitrationKeeps, IrqNackKeeps, IrqNackEndsKeeps, IrqByteKeeps, ReloadWrite,
     ReloadRead, IrqTurnKeeps, IrqEndsKeeps, IrqEnqueuedKeeps DEF Irq

-----------------------------------------------------------------------------
(* The clients. *)

\* The driver knows only of transactions that are busy.
LEMMA OthersKeep ==
  ASSUME NEW i, NEW b, NEW tr, DriverInv(i, b, tr), NEW tr2 \in [Client -> Transactions],
         \A k \in Client : tr[k].status = "busy" => tr2[k] = tr[k]
  PROVE  DriverInv(i, b, tr2)
<1>0. i.queue \in Seq(Client) /\ i.continue \in Client \cup {None}
  BY DEF DriverInv, Types, Drivers
<1>1. \A k \in 1..Len(i.queue) : i.queue[k] \in Client
  BY <1>0
<1>2. IsActive(i) => tr2[i.current] = tr[i.current]
  BY DEF DriverInv, CurrentInv
<1>3. IsBusy(i) => IsActive(i)
  BY DEF IsBusy, IsActive
<1>4. TransferInv(i, b, tr2)
  BY <1>2, <1>3 DEF DriverInv, TransferInv
<1>5. CurrentInv(i, tr2)
  BY <1>2 DEF DriverInv, CurrentInv
<1>6. QueueInv(i, tr2)
  BY <1>0, <1>1 DEF DriverInv, QueueInv
<1> QED
  BY <1>4, <1>5, <1>6 DEF DriverInv, Types

\* One more waits.
LEMMA EnqueueKeeps ==
  ASSUME NEW i, NEW b, NEW tr, DriverInv(i, b, tr), NEW c \in Client, NEW j,
         tr[c].status = "busy", i.continue # c, \A k \in 1..Len(i.queue) : i.queue[k] # c,
         IsActive(i) => i.current # c,
         \/ j = [i EXCEPT !.queue = Append(i.queue, c)]
         \/ j = [i EXCEPT !.continue = c] /\ i.continue = None
  PROVE  DriverInv(j, b, tr) /\ j.state = i.state
<1>1. i \in Drivers /\ i.queue \in Seq(Client)
  BY DEF DriverInv, Types, Drivers
<1>2. /\ j \in Drivers /\ j.state = i.state /\ j.current = i.current
      /\ j.address = i.address /\ j.restart = i.restart /\ j.locks = i.locks
      /\ j.tx = i.tx /\ j.tx2 = i.tx2 /\ j.rx = i.rx /\ j.count = i.count
      /\ \/ j.queue = Append(i.queue, c) /\ j.continue = i.continue
         \/ j.queue = i.queue /\ j.continue = c /\ i.continue = None
  <2>1. CASE j = [i EXCEPT !.queue = Append(i.queue, c)]
    <3>1. Append(i.queue, c) \in Seq(Client)
      BY <1>1
    <3>2. j \in Drivers
      BY <1>1, <2>1, <3>1, Zenon DEF Drivers
    <3> QED
      BY <1>1, <2>1, <3>2 DEF Drivers
  <2>2. CASE j = [i EXCEPT !.continue = c] /\ i.continue = None
    <3>1. j \in Drivers
      BY <1>1, <2>2, Zenon DEF Drivers
    <3> QED
      BY <1>1, <2>2, <3>1 DEF Drivers
  <2> QED
    BY <2>1, <2>2
<1>3. (IsBusy(j) <=> IsBusy(i)) /\ (IsActive(j) <=> IsActive(i))
  BY <1>2 DEF IsBusy, IsActive
<1>4. RestInv(j, b)
  BY <1>2 DEF DriverInv, RestInv
<1>5. CurrentInv(j, tr)
  BY <1>2, <1>3 DEF DriverInv, CurrentInv
<1>6. TransferInv(j, b, tr)
  <2>1. \A m : Sending(i, b, m) => Sending(j, b, m)
    BY <1>2, Zenon DEF Sending, Placed, Counted, Register
  <2>2. \A m : Receiving(i, b, m) => Receiving(j, b, m)
    BY <1>2, Zenon DEF Receiving
  <2>3. Refusal(i, b) => Refusal(j, b)
    BY <1>2, Zenon DEF Refusal
  <2> QED
    BY <1>2, <1>3, <2>1, <2>2, <2>3 DEF DriverInv, TransferInv
<1>7. QueueInv(j, tr)
  <2>0. QueueInv(i, tr)
    BY DEF DriverInv
  <2>1. CASE j.queue = Append(i.queue, c) /\ j.continue = i.continue
    <3>1. Len(j.queue) = Len(i.queue) + 1 /\ j.queue[Len(i.queue) + 1] = c
          /\ \A k \in 1..Len(i.queue) : j.queue[k] = i.queue[k]
      BY <1>1, <2>1
    <3>2. \A k \in 1..Len(j.queue) : k \in 1..Len(i.queue) \/ k = Len(i.queue) + 1
      BY <1>1, <3>1
    <3>3. \A k, l \in 1..Len(j.queue) : j.queue[k] = j.queue[l] => k = l
      BY <2>0, <3>1, <3>2 DEF QueueInv
    <3>4. \A k \in 1..Len(j.queue) :
             /\ tr[j.queue[k]].status = "busy" /\ j.queue[k] # j.continue
             /\ IsActive(j) => j.queue[k] # j.current
      BY <1>2, <1>3, <2>0, <2>1, <3>1, <3>2 DEF QueueInv
    <3> QED
      BY <1>2, <1>3, <2>0, <2>1, <3>3, <3>4 DEF QueueInv
  <2>2. CASE j.queue = i.queue /\ j.continue = c
    BY <1>2, <1>3, <2>0, <2>2 DEF QueueInv
  <2> QED
    BY <1>2, <2>1, <2>2
<1> QED
  BY <1>2, <1>4, <1>5, <1>6, <1>7 DEF DriverInv, Types

\* A transaction that is not busy is nowhere in the driver.
LEMMA NotInDriver ==
  ASSUME DriverInv(i2c, bus, trans), NEW c \in Client, trans[c].status # "busy"
  PROVE  /\ i2c.continue # c /\ \A k \in 1..Len(i2c.queue) : i2c.queue[k] # c
         /\ IsActive(i2c) => i2c.current # c
<1>1. c # None
  BY ClientAssumption DEF Client
<1> QED
  BY <1>1 DEF DriverInv, QueueInv, CurrentInv

\* What a client sets in its transaction.
LEMMA SubmitFacts ==
  ASSUME DriverInv(i2c, bus, trans), NEW c \in Client, NEW m \in Messages,
         NEW a \in Address, NEW restart \in BOOLEAN, Submit(c, m, a, restart)
  PROVE  /\ trans' \in [Client -> Transactions] /\ trans[c].status # "busy"
         /\ trans'[c].status = "busy" /\ trans'[c].restart = restart
         /\ \A k \in Client : k # c => trans'[k] = trans[k]
         /\ bus' = bus /\ holding' = holding /\ c \notin calling
<1> DEFINE r == [message |-> m, address |-> a, restart |-> restart, status |-> "busy"]
<1>1. trans \in [Client -> Transactions]
  BY DEF DriverInv, Types
<1>2. trans' = [trans EXCEPT ![c] = r] /\ trans[c].status # "busy"
      /\ bus' = bus /\ holding' = holding /\ c \notin calling
  BY DEF Submit
<1>3. r \in Transactions /\ r.status = "busy" /\ r.restart = restart
  <2>1. restart \in Truth /\ "busy" \in Results
    BY Zenon DEF Truth, Results
  <2> QED
    BY <2>1 DEF Transactions
<1> HIDE DEF r
<1>4. trans' \in [Client -> Transactions] /\ trans'[c] = r
      /\ \A k \in Client : k # c => trans'[k] = trans[k]
  BY <1>1, <1>2, <1>3
<1> QED
  BY <1>2, <1>3, <1>4

\* A call of a client.
LEMMA SubmitKeeps ==
  ASSUME DriverInv(i2c, bus, trans), i2c.state # "stop", NEW c \in Client, NEW m \in Messages,
         NEW a \in Address, NEW restart \in BOOLEAN, Submit(c, m, a, restart)
  PROVE  DriverInv(i2c', bus', trans') /\ i2c'.state = i2c.state
<1>1. /\ trans' \in [Client -> Transactions] /\ trans[c].status # "busy"
      /\ trans'[c].status = "busy" /\ bus' = bus
      /\ \A k \in Client : k # c => trans'[k] = trans[k]
  BY SubmitFacts
<1>2. DriverInv(i2c, bus, trans')
  <2>1. \A k \in Client : trans[k].status = "busy" => trans'[k] = trans[k]
    BY <1>1
  <2> QED
    BY <1>1, <2>1, OthersKeep
<1>3. /\ i2c.continue # c /\ \A k \in 1..Len(i2c.queue) : i2c.queue[k] # c
      /\ IsActive(i2c) => i2c.current # c
  BY <1>1, NotInDriver
<1>4. CASE i2c' = i2c
  BY <1>1, <1>2, <1>4
<1>5. CASE i2c' # i2c
  <2>1. i2c \in Drivers
    BY DEF DriverInv, Types
  <2>2. \/ i2c' = [i2c EXCEPT !.queue = Append(i2c.queue, c)]
        \/ i2c' = [i2c EXCEPT !.continue = c] /\ i2c.continue = None
    <3>1. [i2c EXCEPT !.queue = Append(@, c)] = [i2c EXCEPT !.queue = Append(i2c.queue, c)]
      BY <2>1 DEF Drivers
    <3>2. CASE holding[c] # None
      BY <1>5, <3>2 DEF Submit, Accepts
    <3>3. CASE holding[c] = None
      BY <1>5, <3>1, <3>3 DEF Submit, Accepts
    <3> QED
      BY <3>2, <3>3
  <2>3. DriverInv(i2c', bus, trans') /\ i2c'.state = i2c.state
    BY <1>1, <1>2, <1>3, <2>2, EnqueueKeeps
  <2> QED
    BY <1>1, <2>3
<1> QED
  BY <1>4, <1>5

\* The end of a transaction keeps what clients know of the kept bus in its type.
LEMMA EndsTypes ==
  ASSUME OrderInv, IsActive(i2c), NEW status, Ends(status)
  PROVE  holding' \in [Client -> Address \cup {None}]
<1>1. i2c.current \in Client /\ trans[i2c.current] \in Transactions
      /\ holding \in [Client -> Address \cup {None}]
  BY DEF OrderInv, ClientTypes, DriverInv, CurrentInv, Types
<1>2. trans[i2c.current].address \in Address
  BY <1>1 DEF Transactions
<1> QED
  BY <1>1, <1>2 DEF Ends

\* The initial state.
LEMMA InitOrder ==
  ASSUME Init
  PROVE  OrderInv
<1> DEFINE r == [message |-> CHOOSE m \in Messages : TRUE,
                 address |-> CHOOSE a \in Address : TRUE,
                 restart |-> FALSE, status |-> "success"]
<1>1. FALSE \in Truth /\ "success" \in Results
  BY DEF Truth, Results
<1>2. r \in Transactions
  BY <1>1, SomeAssumption DEF Transactions
<1>3. trans \in [Client -> Transactions]
  BY <1>2 DEF Init
<1>4. i2c \in Drivers
  <2>1. /\ "ready" \in States /\ None \in Client \cup {None} /\ None \in Address \cup {None}
        /\ <<>> \in Seq(Client) /\ <<>> \in Seq(Nat) /\ 0 \in Int
    BY DEF States
  <2> QED
    BY <1>1, <2>1 DEF Init, Drivers
<1>5. bus \in Peripherals
  <2>1. /\ "off" \in Phases /\ "open" \in Outcomes /\ Empty \in Nat /\ 0 \in Int
        /\ <<>> \in Seq(Nat) /\ {} \in SUBSET Flags
    BY DEF Phases, Outcomes, Empty
  <2> QED
    BY <1>1, <2>1 DEF Init, Peripherals
<1>6. /\ i2c.state = "ready" /\ i2c.restart = FALSE /\ i2c.continue = None
      /\ i2c.queue = <<>> /\ i2c.rx = 0 /\ i2c.count = 0 /\ i2c.locks = 0
      /\ bus.phase = "off" /\ bus.flags = {}
  BY DEF Init
<1>7. ~IsActive(i2c) /\ ~IsBusy(i2c) /\ i2c.state # "nack"
  BY <1>6 DEF IsActive, IsBusy
<1>8. RestInv(i2c, bus)
  BY <1>6 DEF RestInv
<1>9. CurrentInv(i2c, trans) /\ TransferInv(i2c, bus, trans)
  BY <1>7 DEF CurrentInv, TransferInv
<1>10. QueueInv(i2c, trans)
  BY <1>6, <1>7 DEF QueueInv
<1>11. ClientTypes
  BY <1>1 DEF Init, ClientTypes
<1> QED
  BY <1>3, <1>4, <1>5, <1>6, <1>8, <1>9, <1>10, <1>11 DEF OrderInv, DriverInv, Types

\* A step of the interrupt.
LEMMA IrqOrder ==
  ASSUME OrderInv, Irq, UNCHANGED <<calling, calls>>
  PROVE  OrderInv'
<1>1. DriverInv(i2c, bus, trans) /\ i2c.state # "stop" /\ ClientTypes
  BY DEF OrderInv
<1>2. DriverInv(i2c', bus', trans') /\ i2c'.state # "stop"
  BY <1>1, IrqKeeps
<1>3. irq' = FALSE
  BY DEF Irq, IrqArbitration, IrqNack, IrqNackEnds, IrqByte, IrqReload, IrqTurn, IrqEnds,
         IrqEnqueued, Leave
<1>4. holding' \in [Client -> Address \cup {None}]
  <2>1. CASE IrqArbitration
    BY <1>1, <2>1, IrqArbitrationKeeps, EndsTypes DEF IrqArbitration
  <2>2. CASE IrqNackEnds
    BY <1>1, <2>2, IrqNackEndsKeeps, EndsTypes DEF IrqNackEnds
  <2>3. CASE IrqEnds
    BY <1>1, <2>3, IrqEndsKeeps, EndsTypes DEF IrqEnds
  <2>4. CASE Continues
    BY <1>1, <2>4 DEF ClientTypes, Continues
  <2>5. IrqArbitration \/ IrqNackEnds \/ IrqEnds \/ Continues
    BY DEF Irq, IrqNack, IrqByte, IrqReload, IrqTurn, IrqEnqueued
  <2> QED
    BY <2>1, <2>2, <2>3, <2>4, <2>5
<1>5. irq' \in Truth
  BY <1>3 DEF Truth
<1>6. ClientTypes'
  BY <1>1, <1>4, <1>5 DEF ClientTypes
<1> QED
  BY <1>2, <1>6 DEF OrderInv

\* A step of the wire.
LEMMA BusOrder ==
  ASSUME OrderInv, Bus
  PROVE  OrderInv'
<1>1. /\ i2c' = i2c /\ trans' = trans /\ irq' = irq /\ holding' = holding
      /\ calling' = calling /\ calls' = calls
  BY DEF Bus, SlaveAnswers, ShiftByte, SlaveTakesByte, SlaveGivesByte, StopSent,
         ArbitrationLost, OnBus
<1>2. DriverInv(i2c, bus', trans)
  BY BusKeeps DEF OrderInv
<1> QED
  BY <1>1, <1>2 DEF OrderInv, ClientTypes

\* A call.
LEMMA SubmitOrder ==
  ASSUME OrderInv, NEW c \in Client, Call(c)
  PROVE  OrderInv'
<1> PICK m \in Messages, a \in Address, restart \in BOOLEAN : Submit(c, m, a, restart)
  BY DEF Call
<1>1. DriverInv(i2c', bus', trans') /\ i2c'.state # "stop"
  BY SubmitKeeps DEF OrderInv
<1>2. holding' = holding /\ calling' \subseteq Client /\ calls' \in Nat
  BY DEF Submit, OrderInv, ClientTypes
<1>3. irq' \in Truth
  <2>1. irq' = TRUE \/ irq' = irq
    BY DEF Submit
  <2>2. TRUE \in Truth
    BY DEF Truth
  <2> QED
    BY <2>1, <2>2 DEF OrderInv, ClientTypes
<1> QED
  BY <1>1, <1>2, <1>3 DEF OrderInv, ClientTypes

\* A call returns.
LEMMA ReturnOrder ==
  ASSUME OrderInv, WireReturn \/ \E c \in Client : AsyncReturn(c)
  PROVE  OrderInv'
<1>1. i2c' = i2c /\ bus' = bus /\ trans' = trans /\ irq' = irq /\ calls' = calls
  BY DEF WireReturn, AsyncReturn
<1>2. holding' \in [Client -> Address \cup {None}] /\ calling' \subseteq Client
  <2>1. Wire \in Client /\ trans[Wire].address \in Address
    BY DEF OrderInv, DriverInv, Types, Client, Transactions
  <2> QED
    BY <2>1 DEF WireReturn, AsyncReturn, OrderInv, ClientTypes
<1> QED
  BY <1>1, <1>2 DEF OrderInv, ClientTypes

\* The driver and the peripheral agree in every reachable state.
THEOREM Order == Spec => []OrderInv
<1>1. Init => OrderInv
  BY InitOrder
<1>2. OrderInv /\ [Next]_vars => OrderInv'
  <2> SUFFICES ASSUME OrderInv, [Next]_vars PROVE OrderInv'
    OBVIOUS
  <2>1. CASE Irq /\ UNCHANGED <<calling, calls>>
    BY <2>1, IrqOrder
  <2>2. CASE Bus
    BY <2>2, BusOrder
  <2>3. CASE WireReturn
    BY <2>3, ReturnOrder
  <2>4. ASSUME NEW c \in Client, Call(c) PROVE OrderInv'
    BY <2>4, SubmitOrder
  <2>5. ASSUME NEW c \in Client, AsyncReturn(c) PROVE OrderInv'
    BY <2>5, ReturnOrder
  <2>6. CASE UNCHANGED vars
    BY <2>6 DEF OrderInv, ClientTypes, vars
  <2> QED
    BY <2>1, <2>2, <2>3, <2>4, <2>5, <2>6 DEF Next
<1> QED
  BY <1>1, <1>2, PTL DEF Spec

\* Every variable keeps its type, and no byte is taken from behind a buffer but the
\* one of an empty write.
THEOREM TypeCorrect == Spec => []TypeOK
<1>1. OrderInv => TypeOK
  <2> SUFFICES ASSUME OrderInv PROVE TypeOK
    OBVIOUS
  <2>0. DriverInv(i2c, bus, trans) /\ i2c.state # "stop" /\ ClientTypes
    BY DEF OrderInv
  <2>1. i2c \in Drivers /\ bus \in Peripherals /\ trans \in [Client -> Transactions]
    BY <2>0 DEF DriverInv, Types
  <2>2. \A c \in Client :
           /\ trans[c].message \in Messages /\ trans[c].address \in Address
           /\ trans[c].restart \in BOOLEAN
           /\ trans[c].status \in {"busy", "success", "address_nack", "data_nack",
                                   "arbitration_lost"}
    <3> TAKE c \in Client
    <3>1. trans[c] \in Transactions
      BY <2>1
    <3>2. trans[c].restart \in BOOLEAN
      BY <3>1, Zenon DEF Transactions, Truth
    <3>3. trans[c].message \in Messages /\ trans[c].address \in Address
          /\ trans[c].status \in {"busy", "success", "address_nack", "data_nack",
                                  "arbitration_lost"}
      BY <3>1 DEF Transactions, Results
    <3> QED
      BY <3>2, <3>3, Zenon
  <2>3. /\ i2c.state \in States /\ i2c.current \in Client \cup {None}
        /\ i2c.continue \in Client \cup {None}
        /\ \A k \in DOMAIN i2c.queue : i2c.queue[k] \in Client
    BY <2>1 DEF Drivers
  <2>4. i2c.restart \in BOOLEAN
    BY <2>1, Zenon DEF Drivers, Truth
  <2>5. i2c.rx \in Nat /\ i2c.count \in Nat /\ i2c.locks \in Nat
    <3>1. i2c.rx \in Int /\ i2c.count \in Int
      BY <2>1 DEF Drivers
    <3>2. i2c.rx >= 0 /\ i2c.count >= 0 /\ i2c.locks \in {0, 1}
      BY <2>0 DEF DriverInv, RestInv
    <3> QED
      BY <3>1, <3>2
  <2>6. bus.phase \in {"off", "idle", "address", "data", "held", "stopping"}
    BY <2>1 DEF Peripherals, Phases
  <2>7. Junk \in {bus.txdr, bus.shift} => bus.left = 0 \/ bus.phase # "data"
    <3> SUFFICES ASSUME bus.phase = "data", bus.left # 0
                 PROVE  bus.txdr # Junk /\ bus.shift # Junk
      OBVIOUS
    <3>1. IsBusy(i2c) /\ GoesWell(i2c, bus, trans[i2c.current].message)
      BY <2>0, OnTheWire
    <3>2. CASE i2c.state = "transmit"
      <4>1. Len(bus.sent) \in Nat
        BY <2>1 DEF Peripherals
      <4>2. bus.txdr # Junk /\ (bus.shift # Empty => bus.shift = Len(bus.sent) + 2)
        BY <3>1, <3>2 DEF GoesWell, Sending, Placed, Register
      <4> QED
        BY <4>1, <4>2 DEF Empty, Junk
    <3>3. CASE i2c.state # "transmit"
      BY <3>1, <3>3 DEF GoesWell, Receiving, Empty, Junk
    <3> QED
      BY <3>2, <3>3
  <2> QED
    BY <2>0, <2>2, <2>3, <2>4, <2>5, <2>6, <2>7 DEF TypeOK, ClientTypes
<1> QED
  BY <1>1, Order, PTL

-----------------------------------------------------------------------------
(* The status. *)

\* The bytes numbered from the first on, as many as the message has, are the message.
LEMMA WholeMessage ==
  ASSUME NEW m \in Messages, NEW s \in Seq(Nat), From(s, 0), Len(s) = Total(m)
  PROVE  s = Bytes1(m) \o Bytes2(m)
<1> DEFINE x == Bytes1(m)
           y == Bytes2(m)
<1>1. /\ x \in Seq(Nat) /\ y \in Seq(Nat) /\ Total(m) = Len(x) + Len(y)
      /\ From(x, 0) /\ From(y, Len(x))
  BY BytesFacts
<1> HIDE DEF x, y
<1>2. x \o y \in Seq(Nat) /\ Len(x \o y) = Len(s)
  BY <1>1
<1>3. ASSUME NEW k \in 1..Len(s) PROVE s[k] = (x \o y)[k]
  <2>1. s[k] = k + 1
    BY DEF From
  <2>2. CASE k <= Len(x)
    <3>1. x[k] = k + 1
      BY <1>1, <2>2 DEF From
    <3>2. (x \o y)[k] = x[k]
      BY <1>1, <2>2
    <3> QED
      BY <2>1, <3>1, <3>2
  <2>3. CASE k > Len(x)
    <3>1. k - Len(x) \in 1..Len(y)
      BY <1>1, <2>3
    <3>2. y[k - Len(x)] = Len(x) + (k - Len(x)) + 1
      BY <1>1, <3>1 DEF From
    <3>3. (x \o y)[k] = y[k - Len(x)]
      BY <1>1, <2>3, <3>1
    <3>4. Len(x) + (k - Len(x)) + 1 = k + 1
      BY <1>1
    <3> QED
      BY <2>1, <3>2, <3>3, <3>4
  <2> QED
    BY <1>1, <2>2, <2>3
<1>4. s = x \o y
  <2> DEFINE z == x \o y
  <2>1. z \in Seq(Nat) /\ Len(z) = Len(s) /\ \A k \in 1..Len(s) : s[k] = z[k]
    BY <1>2, <1>3
  <2> HIDE DEF z
  <2>2. s = z
    BY <2>1
  <2> QED
    BY <2>2 DEF z
<1> QED
  BY <1>4, Zenon DEF x, y

\* Success: the wire carried the message.
LEMMA SuccessIsTrue ==
  ASSUME DriverInv(i2c, bus, trans), IrqEnds
  PROVE  StatusTellsTruth
<1> DEFINE t == i2c.current
           m == trans[t].message
<1>1. /\ IsActive(i2c) /\ bus.outcome = "open"
      /\ From(bus.sent, 0) /\ Len(bus.sent) = Total(m) /\ bus.got = m.rx
      /\ bus.phase = IF i2c.restart = TRUE THEN "held" ELSE "idle"
  BY IrqEndsKeeps
<1>2. "success" \in Results \ {"busy"} /\ Ends("success")
  BY DEF Results, IrqEnds
<1>3. /\ t \in Client /\ trans'[t].status = "success"
      /\ \A c \in Client : c # t => trans'[c] = trans[c]
  BY <1>1, <1>2, EndsFacts
<1>4. IsBusy(i2c) /\ m \in Messages /\ bus \in Peripherals /\ trans[t] \in Transactions
  BY RegularFacts DEF IrqEnds
<1>5. i2c.restart = trans[t].restart
  BY <1>1, <1>4 DEF DriverInv, CurrentInv
<1>6. trans[t].restart = TRUE <=> trans[t].restart
  <2>1. trans[t].restart \in BOOLEAN
    BY <1>4, Zenon DEF Transactions, Truth
  <2> QED
    BY <2>1, Zenon
<1>7. bus.sent = Bytes1(m) \o Bytes2(m)
  <2>1. bus.sent \in Seq(Nat)
    BY <1>4 DEF Peripherals
  <2> QED
    BY <1>1, <1>4, <2>1, WholeMessage
<1>8. bus.phase = IF trans[t].restart THEN "held" ELSE "idle"
  BY <1>1, <1>5, <1>6, Zenon
<1> SUFFICES ASSUME NEW c \in Client, trans[c].status = "busy", trans'[c].status # "busy"
             PROVE  /\ i2c.current = c
                    /\ IF trans'[c].status = "success"
                       THEN LET m1 == trans[c].message
                            IN  /\ bus.outcome = "open"
                                /\ bus.sent = Bytes1(m1) \o Bytes2(m1) /\ bus.got = m1.rx
                                /\ bus.phase = IF trans[c].restart THEN "held" ELSE "idle"
                       ELSE bus.outcome = trans'[c].status
  BY DEF StatusTellsTruth
<1>9. c = t
  BY <1>3
<1> QED
  BY <1>1, <1>3, <1>7, <1>8, <1>9, Zenon

\* Failure: the status is what happened.
LEMMA FailureIsTrue ==
  ASSUME DriverInv(i2c, bus, trans), IsActive(i2c),
         NEW status \in {"address_nack", "data_nack", "arbitration_lost"},
         Ends(status), bus.outcome = status
  PROVE  StatusTellsTruth
<1>1. status \in Results \ {"busy"} /\ status # "success"
  BY DEF Results
<1>2. /\ trans'[i2c.current].status = status
      /\ \A c \in Client : c # i2c.current => trans'[c] = trans[c]
  BY <1>1, EndsFacts
<1> QED
  BY <1>1, <1>2 DEF StatusTellsTruth

\* No transaction ends: nothing is told.
LEMMA NothingTold ==
  ASSUME \A c \in Client : trans[c].status = "busy" => trans'[c].status = "busy"
  PROVE  StatusTellsTruth
  BY DEF StatusTellsTruth

\* The status tells what happened on the wire: SUCCESS that the slave took every byte
\* once and in order, gave all that were asked for, and that the bus is then free or
\* kept as demanded; a NACK is of the address or of data; each status is of the
\* transaction that was on the wire.
THEOREM StatusCorrect == Spec => StatusIsTrue
<1>1. OrderInv /\ [Next]_vars => StatusTellsTruth \/ UNCHANGED vars
  <2> SUFFICES ASSUME OrderInv, Next PROVE StatusTellsTruth
    OBVIOUS
  <2>0. DriverInv(i2c, bus, trans)
    BY DEF OrderInv
  <2>1. CASE IrqEnds
    BY <2>0, <2>1, SuccessIsTrue
  <2>2. CASE IrqArbitration
    BY <2>0, <2>2, IrqArbitrationKeeps, FailureIsTrue DEF IrqArbitration
  <2>3. CASE IrqNackEnds
    <3> DEFINE s == IF i2c.count = 0 THEN "address_nack" ELSE "data_nack"
    <3>1. IsActive(i2c) /\ bus.outcome = s
      BY <2>0, <2>3, IrqNackEndsKeeps
    <3>2. Ends(s) /\ s \in {"address_nack", "data_nack", "arbitration_lost"}
      BY <2>3 DEF IrqNackEnds
    <3> HIDE DEF s
    <3> QED
      BY <2>0, <3>1, <3>2, FailureIsTrue
  <2>4. CASE Continues
    BY <2>4, NothingTold DEF Continues
  <2>5. CASE Bus
    <3>1. trans' = trans
      BY <2>5 DEF Bus, SlaveAnswers, ShiftByte, SlaveTakesByte, SlaveGivesByte, StopSent,
                  ArbitrationLost, OnBus
    <3> QED
      BY <3>1, NothingTold
  <2>6. CASE WireReturn \/ \E c \in Client : AsyncReturn(c)
    BY <2>6, NothingTold DEF WireReturn, AsyncReturn
  <2>7. ASSUME NEW c \in Client, Call(c) PROVE StatusTellsTruth
    <3> PICK m \in Messages, a \in Address, restart \in BOOLEAN : Submit(c, m, a, restart)
      BY <2>7 DEF Call
    <3>1. trans'[c].status = "busy" /\ \A k \in Client : k # c => trans'[k] = trans[k]
      BY <2>0, SubmitFacts
    <3> QED
      BY <3>1, NothingTold
  <2>8. Irq => IrqEnds \/ IrqArbitration \/ IrqNackEnds \/ Continues
    BY DEF Irq, IrqNack, IrqByte, IrqReload, IrqTurn, IrqEnqueued
  <2> QED
    BY <2>1, <2>2, <2>3, <2>4, <2>5, <2>6, <2>7, <2>8 DEF Next
<1>2. OrderInv /\ [Next]_vars => [StatusTellsTruth]_vars
  BY <1>1
<1> QED
  BY <1>2, Order, PTL DEF Spec, StatusIsTrue

-----------------------------------------------------------------------------
(* The kept bus. *)

\* One lock against stop mode, and the peripheral on, exactly while a transaction or a
\* kept bus needs them.
THEOREM OneLock == Spec => []LockedWhileBusy
<1>1. OrderInv => LockedWhileBusy
  <2> SUFFICES ASSUME OrderInv PROVE LockedWhileBusy
    OBVIOUS
  <2>1. RestInv(i2c, bus) /\ i2c.state # "stop" /\ i2c.state \in States
        /\ bus.outcome \in Outcomes
    BY DEF OrderInv, DriverInv, Types, Drivers, Peripherals
  <2>2. ASSUME IsBusy(i2c) PROVE bus.phase # "off"
    BY <2>1, <2>2 DEF Outcomes, OrderInv, DriverInv, TransferInv, SignalsOpen, Refusal,
                      StopFollows
  <2>3. ASSUME i2c.state = "nack" PROVE bus.phase # "off"
    BY <2>3 DEF OrderInv, DriverInv, TransferInv, StopFollows
  <2> QED
    BY <2>1, <2>2, <2>3 DEF States, IsBusy, RestInv, LockedWhileBusy
<1> QED
  BY <1>1, Order, PTL

\* While the bus is kept, an entry of the interrupt leaves the driver as it is.
LEMMA KeptIrq ==
  ASSUME OrderInv, Irq, i2c.state = "restart", i2c.continue = None
  PROVE  i2c' = i2c
<1>1. i2c \in Drivers /\ bus \in Peripherals /\ i2c.restart = TRUE
  BY DEF OrderInv, DriverInv, Types, RestInv
<1>2. ~IsActive(i2c)
  BY DEF IsActive
<1>3. Leave(i2c, bus)
  BY DEF Irq, IrqArbitration, IrqNack, IrqNackEnds, IrqByte, IrqReload, IrqTurn, IrqEnds,
         IrqEnqueued, Regular, Busy
<1>4. Chosen(i2c) = None
  <2>1. i2c.restart
    BY <1>1, Zenon
  <2> QED
    BY <2>1, Zenon DEF Chosen
<1> DEFINE d == Dispatch(i2c, Cleared(bus))
<1>5. i2c' = d.i /\ Cleared(bus) \in Peripherals
  BY <1>1, <1>3, ClearedFacts, Zenon DEF Leave
<1>6. d.i = i2c
  <2>1. i2c.state # "stop"
    OBVIOUS
  <2> QED
    BY <1>1, <1>2, <1>4, <1>5, <2>1, DispatchCases, Zenon
<1> HIDE DEF d
<1> QED
  BY <1>5, <1>6

\* ... and an accepted continuation is begun.
LEMMA KeptBegin ==
  ASSUME OrderInv, Irq, i2c.state = "restart", i2c.continue # None
  PROVE  i2c'.current = i2c.continue
<1>1. i2c \in Drivers /\ bus \in Peripherals /\ trans \in [Client -> Transactions]
  BY DEF OrderInv, DriverInv, Types
<1>2. ~IsActive(i2c)
  BY DEF IsActive
<1>3. Leave(i2c, bus)
  BY DEF Irq, IrqArbitration, IrqNack, IrqNackEnds, IrqByte, IrqReload, IrqTurn, IrqEnds,
         IrqEnqueued, Regular, Busy
<1> DEFINE d == Dispatch(i2c, Cleared(bus))
           t == i2c.continue
           j == Begin(i2c, Cleared(bus), t).i
<1>4. i2c' = d.i /\ Cleared(bus) \in Peripherals
  BY <1>1, <1>3, ClearedFacts, Zenon DEF Leave
<1>5. Chosen(i2c) = t /\ Chosen(i2c) # None
  BY Zenon DEF Chosen
<1>6. t \in Client /\ trans[t] \in Transactions
  <2>1. t \in Client
    BY <1>1 DEF Drivers
  <2> QED
    BY <1>1, <2>1
<1>7. i2c' = j
  BY <1>1, <1>2, <1>4, <1>5, DispatchCases, Zenon
<1> HIDE DEF d, t
<1>8. i2c.continue = None => i2c.queue # <<>>
  OBVIOUS
<1>9. SameClients(Begun(i2c, t), j)
  BY <1>1, <1>4, <1>6, <1>8, BeginFacts, Zenon
<1>10. Begun(i2c, t).current = t
  BY <1>1, <1>6, <1>8, BegunFacts, Zenon
<1> QED
  BY <1>7, <1>9, <1>10 DEF SameClients, t

\* The tail of an entry: a kept bus is given to nothing but a continuation.
LEMMA LeaveKept ==
  ASSUME trans \in [Client -> Transactions], NEW i \in Drivers, NEW b \in Peripherals,
         Leave(i, b), i.state = "restart" => i.restart = TRUE,
         KeepInv(i, trans', holding', calling)
  PROVE  KeepInv(i2c', trans', holding', calling)
<1> DEFINE d == Dispatch(i, Cleared(b))
<1>1. i2c' = d.i /\ Cleared(b) \in Peripherals
  BY ClearedFacts, Zenon DEF Leave
<1> HIDE DEF d
<1>2. CASE IsActive(i) \/ (Chosen(i) = None /\ i.state # "stop")
  <2>1. d.i = i
    BY <1>1, <1>2, DispatchCases, Zenon DEF d
  <2> QED
    BY <1>1, <2>1
<1>3. CASE ~IsActive(i) /\ Chosen(i) = None /\ i.state = "stop"
  <2>1. d.i = [i EXCEPT !.state = "ready", !.locks = i.locks - 1]
    BY <1>1, <1>3, DispatchCases, Zenon DEF d
  <2>2. d.i.state = "ready" /\ d.i.continue = i.continue
    BY <2>1 DEF Drivers
  <2> QED
    BY <1>1, <1>3, <2>2 DEF KeepInv, Awaits
<1>4. CASE ~IsActive(i) /\ Chosen(i) # None
  <2> DEFINE t == Chosen(i)
             j == Begin(i, Cleared(b), t).i
  <2>1. /\ t \in Client
        /\ i.continue = None => i.queue # <<>> /\ i.restart = FALSE
    BY <1>4, ChosenFacts, Zenon
  <2>2. i2c' = j
    BY <1>1, <1>4, DispatchCases, Zenon DEF d
  <2> HIDE DEF t
  <2>3. trans[t] \in Transactions
    BY <2>1
  <2>4. SameClients(Begun(i, t), j) /\ IsBusy(j)
    <3>1. i.continue = None => i.queue # <<>>
      BY <2>1
    <3> QED
      BY <1>1, <2>1, <2>3, <3>1, BeginFacts, Zenon
  <2>5. Begun(i, t).continue = None
    <3>1. i.continue = None => i.queue # <<>>
      BY <2>1
    <3> QED
      BY <2>1, <2>3, <3>1, BegunFacts, Zenon
  <2> HIDE DEF j
  <2>6. j.continue = None /\ j.state # "restart"
    BY <2>4, <2>5 DEF SameClients, IsBusy
  <2>7. i.state = "restart" => i.continue # None
    BY <2>1
  <2>8. \A c \in Client : ~Awaits(i, c)
    BY <2>7 DEF Awaits
  <2>9. Wire \in Client
    BY DEF Client
  <2> QED
    BY <2>2, <2>6, <2>8, <2>9 DEF KeepInv
<1> QED
  BY <1>2, <1>3, <1>4

\* What doneCallback notes of the kept bus.
LEMMA NotedFacts ==
  ASSUME DriverInv(i2c, bus, trans), IsActive(i2c), holding \in [Client -> Address \cup {None}],
         NEW status \in Results \ {"busy"}, Ends(status), Prompt
  PROVE  LET t == i2c.current
             kept == status = "success" /\ trans[t].restart = TRUE
         IN  /\ \A c \in Client : c # t \/ c = Wire => holding'[c] = holding[c]
             /\ holding'[t] \in {holding[t], None, trans[t].address}
             /\ ~kept => holding'[t] \in {holding[t], None}
             /\ kept /\ t # Wire => holding'[t] = trans[t].address /\ t \notin calling
<1> DEFINE t == i2c.current
           kept == status = "success" /\ trans[t].restart = TRUE
<1>1. t \in Client
  BY EndsFacts
<1>2. trans[t] \in Transactions
  BY <1>1 DEF DriverInv, Types
<1>3. trans[t].restart \in BOOLEAN
  BY <1>2, Zenon DEF Transactions, Truth
<1>4. kept <=> status = "success" /\ trans[t].restart
  BY <1>3, Zenon
<1>5. /\ kept => t = Wire \/ t \notin calling
      /\ holding' = IF t = Wire THEN holding
                    ELSE IF status # "success" THEN [holding EXCEPT ![t] = None]
                    ELSE IF trans[t].restart
                         THEN [holding EXCEPT ![t] = trans[t].address]
                         ELSE holding
  BY <1>4, Zenon DEF Ends
<1> HIDE DEF t, kept
<1>6. CASE t = Wire \/ (status = "success" /\ ~kept)
  <2>1. holding' = holding
    BY <1>4, <1>5, <1>6
  <2> QED
    BY <1>5, <1>6, <2>1 DEF t, kept
<1>7. CASE t # Wire /\ status # "success"
  <2>1. holding' = [holding EXCEPT ![t] = None]
    BY <1>5, <1>7
  <2>2. ~kept
    BY <1>7 DEF kept
  <2> QED
    BY <1>1, <1>7, <2>1, <2>2 DEF t, kept
<1>8. CASE t # Wire /\ kept
  <2>1. holding' = [holding EXCEPT ![t] = trans[t].address]
    BY <1>4, <1>5, <1>8
  <2> QED
    BY <1>1, <1>5, <1>8, <2>1 DEF t, kept
<1> QED
  BY <1>6, <1>7, <1>8 DEF kept

\* A transaction ends: with success and a restart, the bus is kept for its client.
LEMMA EndsKept ==
  ASSUME Prompt, KeptInv, IsActive(i2c), NEW status \in Results \ {"busy"}, Ends(status),
         status = "success" => IsBusy(i2c), NEW i,
         i.current = i2c.current, i.address = i2c.address, i.continue = i2c.continue,
         i.state = IF status = "success" /\ i2c.restart = TRUE THEN "restart" ELSE "stop"
  PROVE  KeepInv(i, trans', holding', calling)
<1> DEFINE t == i2c.current
           kept == status = "success" /\ trans[t].restart = TRUE
<1>0. /\ DriverInv(i2c, bus, trans) /\ KeepInv(i2c, trans, holding, calling)
      /\ holding \in [Client -> Address \cup {None}]
  BY DEF KeptInv, OrderInv, ClientTypes
<1>1. /\ t \in Client /\ trans[t].status = "busy" /\ trans'[t].status = status
      /\ trans'[t].restart = trans[t].restart /\ trans'[t].address = trans[t].address
      /\ \A c \in Client : c # t => trans'[c] = trans[c]
  BY <1>0, EndsFacts
<1>2. i2c.state # "restart" /\ i2c.continue = None
  BY <1>0 DEF IsActive, KeepInv
<1>3. trans[t] \in Transactions /\ Wire \in Client
  BY <1>0, <1>1 DEF DriverInv, Types, Client
<1>4. i2c.address = trans[t].address /\ i2c.address \in Address
  BY <1>0, <1>3 DEF DriverInv, CurrentInv, Transactions
<1>5. i.state = "restart" <=> kept
  BY <1>0 DEF DriverInv, CurrentInv
<1>6. /\ \A c \in Client : c # t \/ c = Wire => holding'[c] = holding[c]
      /\ ~kept => holding'[t] \in {holding[t], None}
      /\ kept /\ t # Wire => holding'[t] = trans[t].address /\ t \notin calling
  BY <1>0, NotedFacts
<1> HIDE DEF t, kept
<1>7. i.current = t /\ i.address = trans[t].address /\ i.continue = None
  BY <1>2, <1>4 DEF t
<1>8. /\ \A c \in Client : ~(c \notin calling /\ holding[c] # None)
      /\ ~(Wire \in calling /\ trans[Wire].status = "success" /\ trans[Wire].restart = TRUE)
  BY <1>0, <1>2 DEF KeepInv, Awaits
<1>9. ASSUME NEW c \in Client, c \notin calling, holding'[c] # None PROVE Awaits(i, c)
  <2>1. c = t /\ kept
    BY <1>6, <1>8, <1>9
  <2> QED
    BY <1>5, <1>7, <2>1 DEF Awaits
<1>10. ASSUME Wire \in calling, trans'[Wire].status = "success", trans'[Wire].restart = TRUE
       PROVE  Awaits(i, Wire)
  <2>1. t = Wire
    BY <1>1, <1>3, <1>8, <1>10
  <2>2. kept
    BY <1>1, <1>10, <2>1 DEF kept
  <2> QED
    BY <1>5, <1>7, <2>1, <2>2 DEF Awaits
<1>11. trans'[Wire].status = "busy" => Wire \in calling
  BY <1>0, <1>1, <1>3 DEF KeepInv
<1>12. ASSUME kept PROVE Keeps(i, trans', holding', calling)
  <2>1. CASE t = Wire
    <3>1. Wire \in calling
      BY <1>0, <1>1, <2>1 DEF KeepInv
    <3> QED
      BY <1>1, <1>3, <1>4, <1>7, <1>12, <2>1, <3>1 DEF Keeps, kept
  <2>2. CASE t # Wire
    BY <1>1, <1>4, <1>6, <1>7, <1>12, <2>2 DEF Keeps
  <2> QED
    BY <2>1, <2>2
<1> QED
  BY <1>5, <1>7, <1>9, <1>10, <1>11, <1>12 DEF KeepInv

\* As above, to the end of the entry.
LEMMA EndsLeave ==
  ASSUME Prompt, KeptInv, IsActive(i2c), NEW status \in Results \ {"busy"}, Ends(status),
         status = "success" => IsBusy(i2c), NEW i \in Drivers, NEW c \in Peripherals,
         i.current = i2c.current, i.address = i2c.address, i.continue = i2c.continue,
         i.state = IF status = "success" /\ i2c.restart = TRUE THEN "restart" ELSE "stop",
         status = "success" => i.restart = i2c.restart, Leave(i, c)
  PROVE  KeepInv(i2c', trans', holding', calling)
<1>1. KeepInv(i, trans', holding', calling)
  BY EndsKept
<1>2. i.state = "restart" => i.restart = TRUE
  OBVIOUS
<1>3. trans \in [Client -> Transactions]
  BY DEF KeptInv, OrderInv, DriverInv, Types
<1> QED
  BY <1>1, <1>2, <1>3, LeaveKept

\* As above, after a failure.
LEMMA FailedLeave ==
  ASSUME Prompt, KeptInv, IsActive(i2c), NEW status \in Results \ {"busy", "success"}, Ends(status),
         NEW c \in Peripherals, Leave([i2c EXCEPT !.state = "stop", !.restart = FALSE], c)
  PROVE  KeepInv(i2c', trans', holding', calling)
<1> DEFINE i == [i2c EXCEPT !.state = "stop", !.restart = FALSE]
<1>1. i2c \in Drivers
  BY DEF KeptInv, OrderInv, DriverInv, Types
<1>2. i \in Drivers
  <2>1. "stop" \in States /\ FALSE \in Truth
    BY DEF States, Truth
  <2> QED
    BY <1>1, <2>1, Zenon DEF Drivers
<1>3. /\ i.state = "stop" /\ i.current = i2c.current /\ i.address = i2c.address
      /\ i.continue = i2c.continue
  BY <1>1 DEF Drivers
<1>4. Leave(i, c)
  OBVIOUS
<1> HIDE DEF i
<1> QED
  BY <1>2, <1>3, <1>4, EndsLeave

\* An entry of the interrupt keeps the bus for its client, and tells it.
LEMMA IrqKept ==
  ASSUME Prompt, KeptInv, Irq, UNCHANGED <<calling, calls>>
  PROVE  KeepInv(i2c', trans', holding', calling')
<1>0. /\ DriverInv(i2c, bus, trans) /\ i2c.state # "stop" /\ calling' = calling
      /\ KeepInv(i2c, trans, holding, calling)
      /\ i2c \in Drivers /\ bus \in Peripherals /\ trans \in [Client -> Transactions]
  BY DEF KeptInv, OrderInv, DriverInv, Types
<1>1. CASE IrqByte \/ IrqReload \/ IrqTurn \/ IrqNack
  <2>1. StaysOn
    BY <1>0, <1>1, IrqByteKeeps, ReloadWrite, ReloadRead, IrqTurnKeeps, IrqNackKeeps
  <2>2. trans' = trans /\ holding' = holding
    BY <1>1 DEF IrqByte, IrqReload, IrqTurn, IrqNack, Continues
  <2>3. i2c.state # "restart" /\ i2c'.state # "restart" /\ i2c'.continue = i2c.continue
    BY <2>1 DEF StaysOn, IsActive, SameClients
  <2> QED
    BY <1>0, <2>2, <2>3 DEF KeepInv, Awaits
<1>2. CASE IrqArbitration
  <2> DEFINE c == [bus EXCEPT !.flags = bus.flags \ {"ARLO", "NACKF"}, !.enabled = FALSE]
  <2>1. c \in Peripherals
    <3>1. FALSE \in Truth /\ bus.flags \ {"ARLO", "NACKF"} \in SUBSET Flags
      BY <1>0 DEF Truth, Peripherals
    <3> QED
      BY <1>0, <3>1, Zenon DEF Peripherals
  <2>2. Leave([i2c EXCEPT !.state = "stop", !.restart = FALSE], c)
    <3>1. [bus EXCEPT !.flags = @ \ {"ARLO", "NACKF"}, !.enabled = FALSE] = c
      BY <1>0 DEF Peripherals
    <3> HIDE DEF c
    <3> QED
      BY <1>2, <3>1 DEF IrqArbitration
  <2> HIDE DEF c
  <2>3. IsActive(i2c) /\ Ends("arbitration_lost")
    BY <1>0, <1>2, IrqArbitrationKeeps DEF IrqArbitration
  <2>4. "arbitration_lost" \in Results \ {"busy", "success"}
    BY DEF Results
  <2> QED
    BY <1>0, <2>1, <2>2, <2>3, <2>4, FailedLeave
<1>3. CASE IrqNackEnds
  <2> DEFINE c == [bus EXCEPT !.flags = bus.flags \ {"STOPF"}]
             s == IF i2c.count = 0 THEN "address_nack" ELSE "data_nack"
  <2>1. c \in Peripherals
    BY <1>0 DEF Peripherals
  <2>2. Leave([i2c EXCEPT !.state = "stop", !.restart = FALSE], c)
    <3>1. [bus EXCEPT !.flags = @ \ {"STOPF"}] = c
      BY <1>0 DEF Peripherals
    <3> HIDE DEF c
    <3> QED
      BY <1>3, <3>1 DEF IrqNackEnds
  <2>3. IsActive(i2c) /\ Ends(s)
    BY <1>0, <1>3, IrqNackEndsKeeps DEF IrqNackEnds
  <2>4. s \in Results \ {"busy", "success"}
    BY DEF Results
  <2> HIDE DEF c, s
  <2> QED
    BY <1>0, <2>1, <2>2, <2>3, <2>4, FailedLeave
<1>4. CASE IrqEnds
  <2> DEFINE i == [i2c EXCEPT !.state = EndState]
             c == Ended(bus)
  <2>1. IsActive(i2c) /\ EndState = IF i2c.restart = TRUE THEN "restart" ELSE "stop"
    BY <1>0, <1>4, IrqEndsKeeps
  <2>2. Ends("success") /\ Leave(i, c) /\ IsBusy(i2c)
    BY <1>4 DEF IrqEnds, Regular, Busy, IsBusy
  <2>3. c \in Peripherals
    <3>1. FALSE \in Truth /\ bus.flags \ {"STOPF"} \in SUBSET Flags
      BY <1>0 DEF Truth, Peripherals
    <3>2. c = [bus EXCEPT !.enabled = FALSE, !.flags = bus.flags \ {"STOPF"}]
      BY <1>0 DEF Ended, Peripherals
    <3> QED
      BY <1>0, <3>1, <3>2, Zenon DEF Peripherals
  <2>4. i \in Drivers
    <3>1. EndState \in States
      BY <2>1 DEF States
    <3> QED
      BY <1>0, <3>1, Zenon DEF Drivers
  <2>5. /\ i.state = EndState /\ i.current = i2c.current /\ i.address = i2c.address
        /\ i.continue = i2c.continue /\ i.restart = i2c.restart
    BY <1>0 DEF Drivers
  <2>6. "success" \in Results \ {"busy"}
    BY DEF Results
  <2> HIDE DEF i, c
  <2> QED
    BY <1>0, <2>1, <2>2, <2>3, <2>4, <2>5, <2>6, EndsLeave
<1>5. CASE IrqEnqueued
  <2>1. trans' = trans /\ holding' = holding /\ Leave(i2c, bus)
    BY <1>5 DEF IrqEnqueued, Continues
  <2>2. i2c.state = "restart" => i2c.restart = TRUE
    BY <1>0 DEF DriverInv, RestInv
  <2> QED
    BY <1>0, <2>1, <2>2, LeaveKept
<1> QED
  BY <1>1, <1>2, <1>3, <1>4, <1>5 DEF Irq

\* A call: that of the client that keeps the bus is accepted and continues, any other
\* is queued.
LEMMA SubmitKept ==
  ASSUME KeptInv, NEW c \in Client, Call(c)
  PROVE  KeepInv(i2c', trans', holding', calling')
<1> PICK m \in Messages, a \in Address, restart \in BOOLEAN : Submit(c, m, a, restart)
  BY DEF Call
<1>0. /\ DriverInv(i2c, bus, trans) /\ i2c \in Drivers
      /\ KeepInv(i2c, trans, holding, calling) /\ holding \in [Client -> Address \cup {None}]
  BY DEF KeptInv, OrderInv, DriverInv, Types, ClientTypes
<1>1. /\ trans[c].status # "busy" /\ trans'[c].status = "busy"
      /\ \A k \in Client : k # c => trans'[k] = trans[k]
      /\ holding' = holding /\ c \notin calling
  BY <1>0, SubmitFacts
<1>2. Wire \in Client /\ None \notin Address /\ None \notin Client
  BY ClientAssumption DEF Client
<1>3. holding[c] # None => holding[c] = a
  BY DEF Submit
<1>4. CASE holding[c] # None
  <2>1. i2c.state = "restart" /\ i2c.current = c /\ i2c.continue = None
    BY <1>0, <1>1, <1>4 DEF KeepInv, Awaits
  <2>2. holding[c] = i2c.address /\ i2c.address \in Address
    BY <1>0, <1>1, <1>2, <2>1 DEF KeepInv, Keeps
  <2>3. Accepts(holding[c] # None, a)
    <3>1. i2c.restart = TRUE
      BY <1>0, <2>1 DEF DriverInv, RestInv
    <3>2. i2c.restart
      BY <3>1, Zenon
    <3>3. i2c.address = a
      BY <1>3, <1>4, <2>2
    <3> QED
      BY <2>1, <3>2, <3>3, Zenon DEF Accepts
  <2>4. i2c' = [i2c EXCEPT !.continue = c] /\ calling' = calling \cup {c}
    BY <1>4, <2>3 DEF Submit
  <2>5. i2c'.continue = c /\ i2c'.state = "restart" /\ i2c'.current = c
        /\ i2c'.address = i2c.address
    BY <1>0, <2>1, <2>4 DEF Drivers
  <2>6. Keeps(i2c', trans', holding', calling')
    BY <1>1, <2>2, <2>5 DEF Keeps
  <2>7. ASSUME NEW k \in Client, k \notin calling', holding'[k] # None PROVE FALSE
    BY <1>0, <1>1, <2>1, <2>4, <2>7 DEF KeepInv, Awaits
  <2>8. ~(Wire \in calling' /\ trans'[Wire].status = "success" /\ trans'[Wire].restart = TRUE)
    BY <1>0, <1>1, <1>2, <2>1, <2>4 DEF KeepInv, Awaits
  <2>9. trans'[Wire].status = "busy" => Wire \in calling'
    BY <1>0, <1>1, <1>2, <2>4 DEF KeepInv
  <2> QED
    BY <2>5, <2>6, <2>7, <2>8, <2>9 DEF KeepInv
<1>5. CASE holding[c] = None
  <2>1. i2c' = [i2c EXCEPT !.queue = Append(i2c.queue, c)] /\ calling' = calling \cup {c}
    <3>1. Accepts(holding[c] # None, a)
      BY <1>5, Zenon DEF Accepts
    <3>2. [i2c EXCEPT !.queue = Append(@, c)] = [i2c EXCEPT !.queue = Append(i2c.queue, c)]
      BY <1>0 DEF Drivers
    <3> QED
      BY <1>5, <3>1, <3>2 DEF Submit
  <2>2. i2c'.continue = i2c.continue /\ i2c'.state = i2c.state
        /\ i2c'.current = i2c.current /\ i2c'.address = i2c.address
    BY <1>0, <2>1 DEF Drivers
  <2>3. \A k \in Client : Awaits(i2c, k) => Awaits(i2c', k)
    BY <2>2 DEF Awaits
  <2>4. ASSUME i2c.state = "restart" PROVE Keeps(i2c', trans', holding', calling')
    <3>1. Keeps(i2c, trans, holding, calling)
      BY <1>0, <2>4 DEF KeepInv
    <3>2. i2c.current # c
      BY <1>1, <1>2, <1>5, <3>1 DEF Keeps
    <3>3. trans'[i2c.current] = trans[i2c.current]
          /\ (i2c.current \in calling' <=> i2c.current \in calling)
      BY <1>1, <2>1, <3>1, <3>2 DEF Keeps
    <3>4. i2c.current = Wire => trans'[Wire] = trans[Wire]
                               /\ (Wire \in calling' <=> Wire \in calling)
      BY <3>3
    <3> QED
      BY <1>1, <2>2, <3>1, <3>3, <3>4 DEF Keeps
  <2>5. ASSUME NEW k \in Client, k \notin calling', holding'[k] # None
        PROVE  Awaits(i2c', k)
    BY <1>0, <1>1, <2>1, <2>3, <2>5 DEF KeepInv
  <2>6. ASSUME Wire \in calling', trans'[Wire].status = "success", trans'[Wire].restart = TRUE
        PROVE  Awaits(i2c', Wire)
    BY <1>0, <1>1, <1>2, <2>1, <2>3, <2>6 DEF KeepInv
  <2>7. trans'[Wire].status = "busy" => Wire \in calling'
    BY <1>0, <1>1, <1>2, <2>1 DEF KeepInv
  <2>8. i2c'.continue # None => i2c'.state = "restart"
    BY <1>0, <2>2 DEF KeepInv
  <2> QED
    BY <2>2, <2>4, <2>5, <2>6, <2>7, <2>8 DEF KeepInv
<1> QED
  BY <1>4, <1>5

\* A call returns: the thread notes the address whose bus is kept for it, and another
\* client that none is.
LEMMA ReturnKept ==
  ASSUME KeptInv, WireReturn \/ \E c \in Client : AsyncReturn(c)
  PROVE  KeepInv(i2c', trans', holding', calling')
<1>0. KeepInv(i2c, trans, holding, calling) /\ holding \in [Client -> Address \cup {None}]
  BY DEF KeptInv, OrderInv, ClientTypes
<1>1. i2c' = i2c /\ trans' = trans
  BY DEF WireReturn, AsyncReturn
<1>2. Wire \in Client
  BY DEF Client
<1>3. trans[Wire].restart = TRUE <=> trans[Wire].restart
  <2>1. trans[Wire] \in Transactions
    BY <1>2 DEF KeptInv, OrderInv, DriverInv, Types
  <2>2. trans[Wire].restart \in BOOLEAN
    BY <2>1, Zenon DEF Transactions, Truth
  <2> QED
    BY <2>2, Zenon
<1>4. CASE WireReturn
  <2> DEFINE kept == trans[Wire].status = "success" /\ trans[Wire].restart = TRUE
  <2>1. /\ Wire \in calling /\ trans[Wire].status # "busy" /\ calling' = calling \ {Wire}
        /\ holding' = [holding EXCEPT ![Wire] =
                         IF trans[Wire].status = "success" /\ trans[Wire].restart
                         THEN trans[Wire].address ELSE None]
    BY <1>4 DEF WireReturn
  <2>2. /\ Wire \notin calling'
        /\ \A k \in Client : k # Wire =>
              holding'[k] = holding[k] /\ (k \in calling' <=> k \in calling)
    BY <1>0, <1>2, <2>1
  <2>3. /\ kept => holding'[Wire] = trans[Wire].address
        /\ ~kept => holding'[Wire] = None
    <3>1. holding'[Wire] = IF trans[Wire].status = "success" /\ trans[Wire].restart
                           THEN trans[Wire].address ELSE None
      BY <1>0, <1>2, <2>1
    <3> QED
      BY <1>3, <3>1
  <2>4. kept => Awaits(i2c, Wire)
    BY <1>0, <2>1 DEF KeepInv
  <2>5. ASSUME i2c.state = "restart" PROVE Keeps(i2c, trans, holding', calling')
    <3>1. Keeps(i2c, trans, holding, calling)
      BY <1>0, <2>5 DEF KeepInv
    <3>2. CASE i2c.current = Wire
      <4>1. kept /\ trans[Wire].address = i2c.address /\ i2c.continue = None
        BY <2>1, <3>1, <3>2 DEF Keeps
      <4> HIDE DEF kept
      <4>2. holding'[Wire] = i2c.address
        BY <2>3, <4>1
      <4> QED
        BY <2>2, <3>1, <3>2, <4>1, <4>2 DEF Keeps
    <3>3. CASE i2c.current # Wire
      <4>1. i2c.current \in Client
        BY <3>1 DEF Keeps
      <4>2. holding'[i2c.current] = holding[i2c.current]
            /\ (i2c.current \in calling' <=> i2c.current \in calling)
        BY <2>2, <3>3, <4>1
      <4> QED
        BY <3>1, <3>3, <4>2 DEF Keeps
    <3> QED
      BY <3>2, <3>3
  <2> HIDE DEF kept
  <2>6. ASSUME NEW k \in Client, k \notin calling', holding'[k] # None PROVE Awaits(i2c, k)
    <3>1. CASE k = Wire
      BY <2>3, <2>4, <2>6, <3>1
    <3>2. CASE k # Wire
      BY <1>0, <2>2, <2>6, <3>2 DEF KeepInv
    <3> QED
      BY <3>1, <3>2
  <2> QED
    BY <1>0, <1>1, <2>1, <2>2, <2>5, <2>6 DEF KeepInv
<1>5. ASSUME NEW c \in Client, AsyncReturn(c)
      PROVE  KeepInv(i2c', trans', holding', calling')
  <2>1. /\ c \in calling /\ c # Wire
        /\ holding' = [holding EXCEPT ![c] = None] /\ calling' = calling \ {c}
    BY <1>5 DEF AsyncReturn
  <2>2. /\ holding'[c] = None
        /\ \A k \in Client : k # c =>
              holding'[k] = holding[k] /\ (k \in calling' <=> k \in calling)
    BY <1>0, <2>1
  <2>3. Wire \in calling' <=> Wire \in calling
    BY <1>2, <2>1, <2>2
  <2>4. ASSUME Keeps(i2c, trans, holding, calling)
        PROVE  Keeps(i2c, trans, holding', calling')
    BY <2>1, <2>2, <2>3, <2>4 DEF Keeps
  <2>5. ASSUME NEW k \in Client, k \notin calling', holding'[k] # None PROVE Awaits(i2c, k)
    BY <1>0, <2>2, <2>5 DEF KeepInv
  <2> QED
    BY <1>0, <1>1, <2>3, <2>4, <2>5 DEF KeepInv
<1> QED
  BY <1>4, <1>5

\* KeptInv holds in every state.
LEMMA KeptAlways ==
  ASSUME Prompt
  PROVE  Spec => []KeptInv
<1>1. Init => KeptInv
  <2> SUFFICES ASSUME Init PROVE KeptInv
    OBVIOUS
  <2>1. OrderInv
    BY InitOrder
  <2>2. /\ i2c.state = "ready" /\ i2c.continue = None /\ calling = {}
        /\ \A c \in Client : trans[c].status = "success" /\ holding[c] = None
    BY DEF Init
  <2>3. Wire \in Client
    BY DEF Client
  <2>4. KeepInv(i2c, trans, holding, calling)
    BY <2>2, <2>3 DEF KeepInv
  <2> QED
    BY <2>1, <2>4 DEF KeptInv
<1>2. KeptInv /\ OrderInv' /\ [Next]_vars => KeptInv'
  <2> SUFFICES ASSUME KeptInv, [Next]_vars
               PROVE  KeepInv(i2c', trans', holding', calling')
    BY DEF KeptInv
  <2>1. CASE Irq /\ UNCHANGED <<calling, calls>>
    BY <2>1, IrqKept
  <2>2. CASE Bus \/ UNCHANGED vars
    <3>1. i2c' = i2c /\ trans' = trans /\ holding' = holding /\ calling' = calling
      BY <2>2 DEF Bus, SlaveAnswers, ShiftByte, SlaveTakesByte, SlaveGivesByte, StopSent,
                  ArbitrationLost, OnBus, vars
    <3> QED
      BY <3>1 DEF KeptInv
  <2>3. CASE WireReturn \/ \E c \in Client : AsyncReturn(c)
    BY <2>3, ReturnKept
  <2>4. ASSUME NEW c \in Client, Call(c)
        PROVE  KeepInv(i2c', trans', holding', calling')
    BY <2>4, SubmitKept
  <2> QED
    BY <2>1, <2>2, <2>3, <2>4 DEF Next
<1> QED
  BY <1>1, <1>2, Order, PTL DEF Spec

\* A transaction that ends keeping the bus leaves it to nobody in the same entry.
LEMMA KeepsNowStays ==
  ASSUME KeptInv, [Next]_vars, KeepsNow
  PROVE  i2c'.current = i2c.current
<1> DEFINE t == i2c.current
<1>0. /\ DriverInv(i2c, bus, trans) /\ KeepInv(i2c, trans, holding, calling)
      /\ i2c \in Drivers /\ bus \in Peripherals
  BY DEF KeptInv, OrderInv, DriverInv, Types
<1>1. /\ t \in Client /\ trans[t].status = "busy" /\ trans'[t].status = "success"
      /\ trans[t].restart
  BY <1>0 DEF KeepsNow, Drivers
<1>2. IrqEnds
  <2>1. trans' # trans
    BY <1>1
  <2>2. CASE IrqArbitration
    <3>1. IsActive(i2c) /\ Ends("arbitration_lost") /\ "arbitration_lost" \in Results \ {"busy"}
      BY <1>0, <2>2, IrqArbitrationKeeps DEF IrqArbitration, Results
    <3>2. trans'[t].status = "arbitration_lost"
      BY <1>0, <3>1, EndsFacts
    <3> QED
      BY <1>1, <3>2
  <2>3. CASE IrqNackEnds
    <3> DEFINE s == IF i2c.count = 0 THEN "address_nack" ELSE "data_nack"
    <3>1. IsActive(i2c) /\ Ends(s) /\ s \in Results \ {"busy"} /\ s # "success"
      BY <1>0, <2>3, IrqNackEndsKeeps DEF IrqNackEnds, Results
    <3> HIDE DEF s
    <3>2. trans'[t].status = s
      BY <1>0, <3>1, EndsFacts
    <3> QED
      BY <1>1, <3>1, <3>2
  <2>4. ~Continues
    BY <2>1 DEF Continues
  <2>5. ~(Bus \/ WireReturn \/ (\E c \in Client : AsyncReturn(c)) \/ UNCHANGED vars)
    BY <2>1 DEF Bus, SlaveAnswers, ShiftByte, SlaveTakesByte, SlaveGivesByte, StopSent,
                ArbitrationLost, OnBus, WireReturn, AsyncReturn, vars
  <2>6. ASSUME NEW c \in Client, Call(c) PROVE FALSE
    <3> PICK m \in Messages, a \in Address, restart \in BOOLEAN : Submit(c, m, a, restart)
      BY <2>6 DEF Call
    <3>1. trans'[c].status = "busy" /\ \A k \in Client : k # c => trans'[k] = trans[k]
      BY <1>0, SubmitFacts
    <3> QED
      BY <1>1, <3>1
  <2>7. Irq => IrqEnds \/ IrqArbitration \/ IrqNackEnds \/ Continues
    BY DEF Irq, IrqNack, IrqByte, IrqReload, IrqTurn, IrqEnqueued
  <2> QED
    BY <2>2, <2>3, <2>4, <2>5, <2>6, <2>7 DEF Next
<1> DEFINE i == [i2c EXCEPT !.state = EndState]
<1>3. IsActive(i2c) /\ EndState = IF i2c.restart = TRUE THEN "restart" ELSE "stop"
  BY <1>0, <1>2, IrqEndsKeeps
<1>4. IsBusy(i2c) /\ Leave(i, Ended(bus))
  BY <1>2 DEF IrqEnds, Regular, Busy, IsBusy
<1>5. i2c.restart = TRUE /\ i2c.continue = None
  <2>1. trans[t].restart = TRUE
    <3>1. trans[t] \in Transactions
      BY <1>0, <1>1 DEF DriverInv, Types
    <3>2. trans[t].restart \in BOOLEAN
      BY <3>1, Zenon DEF Transactions, Truth
    <3> QED
      BY <1>1, <3>2, Zenon
  <2> QED
    BY <1>0, <1>3, <1>4, <2>1 DEF DriverInv, CurrentInv, KeepInv, IsActive
<1>6. /\ i \in Drivers /\ i.state = "restart" /\ i.restart = TRUE /\ i.continue = None
      /\ i.current = t
  <2>1. EndState = "restart" /\ EndState \in States
    BY <1>3, <1>5 DEF States
  <2> QED
    BY <1>0, <1>5, <2>1 DEF Drivers
<1>7. Ended(bus) \in Peripherals
  <2>1. FALSE \in Truth /\ bus.flags \ {"STOPF"} \in SUBSET Flags
    BY <1>0 DEF Truth, Peripherals
  <2>2. Ended(bus) = [bus EXCEPT !.enabled = FALSE, !.flags = bus.flags \ {"STOPF"}]
    BY <1>0 DEF Ended, Peripherals
  <2> QED
    BY <1>0, <2>1, <2>2, Zenon DEF Peripherals
<1> HIDE DEF i, t
<1>8. Chosen(i) = None /\ ~IsActive(i) /\ i.state # "stop"
  <2>1. i.restart
    BY <1>6, Zenon
  <2>2. Chosen(i) = None
    BY <1>6, <2>1, Zenon DEF Chosen
  <2> QED
    BY <1>6, <2>2 DEF IsActive
<1> DEFINE d == Dispatch(i, Cleared(Ended(bus)))
<1>9. i2c' = d.i /\ Cleared(Ended(bus)) \in Peripherals
  BY <1>4, <1>6, <1>7, ClearedFacts, Zenon DEF Leave
<1>10. d.i = i
  BY <1>6, <1>8, <1>9, DispatchCases, Zenon
<1> HIDE DEF d
<1> QED
  BY <1>6, <1>9, <1>10 DEF t

\* Where no asynchronous call is held up, the next transaction on a kept bus is of the
\* client that kept it, whoever else asks at the same address meanwhile.
THEOREM NobodyComesBetween ==
  ASSUME Prompt
  PROVE  Spec => [][NobodyBetween]_vars
<1>1. KeptInv /\ [Next]_vars => [NobodyBetween]_vars
  <2> SUFFICES ASSUME KeptInv, [Next]_vars, Kept, IsBusy(i2c')
               PROVE  i2c'.current = i2c.current
    BY KeepsNowStays DEF NobodyBetween, IsBusy
  <2>0. OrderInv /\ i2c.state = "restart" /\ DriverInv(i2c, bus, trans)
    BY DEF Kept, KeptInv, OrderInv
  <2>1. CASE Irq /\ i2c.continue = None
    BY <2>0, <2>1, KeptIrq
  <2>2. CASE Irq /\ i2c.continue # None
    <3>1. i2c'.current = i2c.continue
      BY <2>0, <2>2, KeptBegin
    <3>2. i2c.continue = i2c.current
      BY <2>0, <2>2 DEF KeptInv, KeepInv, Keeps
    <3> QED
      BY <3>1, <3>2
  <2>3. CASE i2c' = i2c
    BY <2>3
  <2>4. ASSUME NEW c \in Client, Call(c) PROVE FALSE
    <3> PICK m \in Messages, a \in Address, restart \in BOOLEAN : Submit(c, m, a, restart)
      BY <2>4 DEF Call
    <3>1. i2c'.state = i2c.state
      BY <2>0, SubmitKeeps
    <3> QED
      BY <2>0, <3>1 DEF IsBusy
  <2>5. \/ Irq \/ i2c' = i2c \/ \E c \in Client : Call(c)
    BY DEF Next, Bus, SlaveAnswers, ShiftByte, SlaveTakesByte, SlaveGivesByte, StopSent,
           ArbitrationLost, OnBus, WireReturn, AsyncReturn, vars
  <2> QED
    BY <2>1, <2>2, <2>3, <2>4, <2>5
<1> QED
  BY <1>1, KeptAlways, PTL DEF Spec

\* Where no asynchronous call is held up, a kept bus is held, only the client that kept
\* it continues it, and that client knows that it is to give it back.
THEOREM KeptCorrect ==
  ASSUME Prompt
  PROVE  Spec => KeptForItsClient
<1>1. KeptInv => KeeperKnows
  <2> SUFFICES ASSUME KeptInv, i2c.state = "restart", i2c.continue = None
               PROVE  \/ holding[i2c.current] = i2c.address
                      \/ /\ i2c.current = Wire /\ Wire \in calling
                         /\ trans[i2c.current].status = "success"
    BY DEF KeeperKnows, Kept
  <2>1. Keeps(i2c, trans, holding, calling)
    BY DEF KeptInv, KeepInv
  <2>2. None \notin Client
    BY ClientAssumption DEF Client
  <2> QED
    BY <2>1, <2>2 DEF Keeps
<1>2. KeptInv => ContinuesItsOwn /\ (Kept => bus.phase = "held")
  <2> SUFFICES ASSUME KeptInv PROVE ContinuesItsOwn /\ (Kept => bus.phase = "held")
    OBVIOUS
  <2>1. RestInv(i2c, bus) /\ KeepInv(i2c, trans, holding, calling)
    BY DEF KeptInv, OrderInv, DriverInv
  <2>2. i2c.state = "restart" => i2c.restart /\ bus.phase = "held"
    <3>1. i2c.state = "restart" => i2c.restart = TRUE /\ bus.phase = "held"
      BY <2>1 DEF RestInv
    <3> QED
      BY <3>1, Zenon
  <2>3. i2c.continue # None => i2c.state = "restart" /\ i2c.continue = i2c.current
    BY <2>1 DEF KeepInv, Keeps
  <2> QED
    BY <2>2, <2>3 DEF ContinuesItsOwn, Kept
<1>3. KeptInv /\ LockedWhileBusy => HeldIffNeeded
  BY <1>1, <1>2 DEF HeldIffNeeded
<1> QED
  BY <1>3, KeptAlways, OneLock, NobodyComesBetween, PTL DEF KeptForItsClient
=============================================================================
