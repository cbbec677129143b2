---------------------------- MODULE I2cMaster ----------------------------
(***************************************************************************)
(* The I2C driver in master mode (stm32l0_i2c.c) and its clients: the      *)
(* blocking TwoWire of the thread and the asynchronous TwoWireTransactions *)
(* (Wire.cpp).  A transaction writes, writes two buffers, reads, or writes *)
(* and then reads; it ends with a STOP, or keeps the bus (RESTART) for the *)
(* next transaction of its client (CONTINUE).                              *)
(*                                                                         *)
(* One entry of the interrupt is one step.  The list of transactions is a  *)
(* sequence, oldest first: its compare-and-swap loops are those of the     *)
(* EEPROM driver (Eeprom.tla).  The bus takes one step per byte.           *)
(***************************************************************************)
EXTENDS Naturals, Sequences

CONSTANTS
    Wire,           \* the transaction on the stack of a blocking call
    Async,          \* the TwoWireTransaction objects
    None,           \* no transaction, no address
    Address,        \* addresses of slaves
    Messages,       \* what is transferred: [tx: sizes of the buffers written,
                    \*                       rx: bytes read]
    NBYTES_MAX,     \* I2C_CR2_NBYTES_MAX (255)
    Prompt,         \* no asynchronous call is held up, between the enqueue and
                    \* its return, for as long as its transaction takes
    MaxCalls        \* calls of the clients (a bound of the model)

ASSUME ClientAssumption == Wire \notin Async /\ None \notin Async \cup {Wire} \cup Address
ASSUME SizeAssumption   == NBYTES_MAX \in Nat \ {0} /\ MaxCalls \in Nat
ASSUME SomeAssumption   == Messages # {} /\ Address # {} /\ Prompt \in BOOLEAN
ASSUME MessageAssumption == \A m \in Messages :
    /\ m.rx \in Nat /\ m.tx \in Seq(Nat) /\ Len(m.tx) \in 0 .. 2
    /\ m.tx = <<>> => m.rx > 0
    /\ Len(m.tx) = 2 => m.tx[1] > 0 /\ m.tx[2] > 0 /\ m.rx = 0

VARIABLES
    trans,      \* the transactions: message, address, flags and status
    i2c,        \* the driver's stm32l0_i2c_t
    bus,        \* the peripheral, the wire and the addressed slave
    irq,        \* the interrupt is pended by software
    holding,    \* _xf_address: where the client may continue
    calling,    \* clients inside a call
    calls       \* calls made

vars == <<trans, i2c, bus, irq, holding, calling, calls>>

Client == Async \cup {Wire}
Empty == 0                              \* nothing in the data register
Junk  == 1                              \* the byte after the buffer

\* The bytes of the first and of the second buffer a message writes, each one
\* different, and none of them Empty or Junk.
Bytes1(m) == [k \in 1 .. (IF m.tx = <<>> THEN 0 ELSE m.tx[1]) |-> k + 1]
Bytes2(m) == [k \in 1 .. (IF Len(m.tx) = 2 THEN m.tx[2] ELSE 0) |-> m.tx[1] + k + 1]

Least(m, n) == IF m < n THEN m ELSE n
Loaded(s)   == IF s = <<>> THEN Junk ELSE Head(s)
Rest(s)     == IF s = <<>> THEN <<>> ELSE Tail(s)

-----------------------------------------------------------------------------
(* The driver *)

\* CR2 with START, or a new NBYTES: `left` bytes, then RELOAD, AUTOEND or neither.
Program(b, count, reload, autoend) ==
    [b EXCEPT !.left = count, !.reload = reload, !.autoend = autoend,
              !.flags = @ \ {"TC", "TCR"}]

Start(b, read) ==
    [b EXCEPT !.phase = "address", !.read = read, !.flags = {}, !.enabled = TRUE,
              !.txdr = Empty, !.shift = Empty]

\* The first or next bytes of a write: the last ones end with a STOP, unless
\* bytes are read next or the bus is kept.
ProgramWrite(i, b) ==
    LET more == i.tx2 # <<>> \/ Len(i.tx) > NBYTES_MAX
    IN  Program(b, Least(Len(i.tx), NBYTES_MAX), more, ~more /\ i.rx = 0 /\ ~i.restart)

ProgramRead(i, b) ==
    LET more == i.rx > NBYTES_MAX
    IN  Program(b, Least(i.rx, NBYTES_MAX), more, ~more /\ ~i.restart)

\* The next byte goes into TXDR.
LoadByte(i, b) ==
    [i |-> [i EXCEPT !.tx = Rest(@), !.count = @ + 1],
     b |-> [b EXCEPT !.txdr = Loaded(i.tx), !.flags = @ \ {"TXIS"}]]

Transmit(i, b) ==
    LoadByte([i EXCEPT !.state = "transmit", !.count = 0],
             ProgramWrite(i, Start(b, FALSE)))

Receive(i, b) ==
    [i |-> [i EXCEPT !.state = "receive", !.count = 0,
                     !.rx = @ - Least(@, NBYTES_MAX)],
     b |-> ProgramRead(i, Start(b, TRUE))]

\* The transaction to run next: the one that continues, or the oldest unless
\* the bus is kept.
Chosen(i) ==
    IF i.continue # None THEN i.continue
    ELSE IF ~i.restart /\ i.queue # <<>> THEN Head(i.queue)
    ELSE None

\* The stop lock is taken when a transaction finds the bus off.
Locks(i) == IF i.state = "ready" THEN i.locks + 1 ELSE i.locks

Begin(i, b, t) ==
    LET m  == trans[t].message
        i1 == [i EXCEPT
                 !.continue = None,
                 !.queue    = IF i.continue # None THEN @ ELSE Tail(@),
                 !.locks    = Locks(i),
                 !.current  = t,
                 !.address  = trans[t].address,
                 !.restart  = trans[t].restart,
                 !.tx = Bytes1(m), !.tx2 = Bytes2(m), !.rx = m.rx]
        b1 == [b EXCEPT !.sent = <<>>, !.got = 0, !.outcome = "open"]
    IN  IF m.tx # <<>> THEN Transmit(i1, b1) ELSE Receive(i1, b1)

\* Between transactions: run the next, or give the bus and the stop lock back.
Dispatch(i, b) ==
    IF i.state \notin {"ready", "stop", "restart"} THEN [i |-> i, b |-> b]
    ELSE IF Chosen(i) # None THEN Begin(i, b, Chosen(i))
    ELSE IF i.state = "stop"
         THEN [i |-> [i EXCEPT !.state = "ready", !.locks = @ - 1],
               b |-> [b EXCEPT !.phase = "off", !.flags = {}]]
         ELSE [i |-> i, b |-> b]

Pending == \/ irq
           \/ bus.flags \cap {"ARLO", "STOPF"} # {}
           \/ bus.enabled /\ bus.flags # {}

\* The interrupt left the driver at i and the peripheral at b: the tail of
\* every entry.
Leave(i, b) ==
    LET d == Dispatch(i, [b EXCEPT !.flags = @ \ {"ARLO"}])
    IN  i2c' = d.i /\ bus' = d.b /\ irq' = FALSE

\* The status of the current transaction is known; an asynchronous client's
\* doneCallback runs here and keeps the address for its next call (it also notes
\* _xf_status, and queues the sketch's callback, which the model has as a client
\* that may call again).
Ends(status) ==
    LET t == i2c.current
    IN  /\ Prompt /\ status = "success" /\ trans[t].restart => t = Wire \/ t \notin calling
        /\ trans' = [trans EXCEPT ![t].status = status]
        /\ holding' = IF t = Wire THEN holding
                      ELSE IF status # "success" THEN [holding EXCEPT ![t] = None]
                      ELSE IF trans[t].restart
                           THEN [holding EXCEPT ![t] = trans[t].address]
                           ELSE holding

Continues == UNCHANGED <<trans, holding>>

-----------------------------------------------------------------------------
(* stm32l0_i2c_interrupt, a branch per action *)

Busy == i2c.state \in {"transmit", "receive"}

IrqArbitration ==
    /\ Pending /\ Busy /\ "ARLO" \in bus.flags
    /\ Ends("arbitration_lost")
    /\ Leave([i2c EXCEPT !.state = "stop", !.restart = FALSE],
             [bus EXCEPT !.flags = @ \ {"ARLO", "NACKF"}, !.enabled = FALSE])

\* Mutant for StatusIsTrue: the byte still in TXDR counts as sent.
IrqNackCountsAll ==
    /\ Pending /\ Busy /\ "ARLO" \notin bus.flags /\ "NACKF" \in bus.flags
    /\ Continues
    /\ Leave([i2c EXCEPT !.state = "nack"],
             [bus EXCEPT !.flags = @ \ {"NACKF"}, !.enabled = FALSE])

\* A byte still in TXDR was not sent.
IrqNack ==
    /\ Pending /\ Busy /\ "ARLO" \notin bus.flags /\ "NACKF" \in bus.flags
    /\ Continues
    /\ Leave([i2c EXCEPT !.state = "nack",
                         !.count = IF i2c.state = "transmit" /\ bus.txdr # Empty
                                   THEN @ - 1 ELSE @],
             [bus EXCEPT !.flags = @ \ {"NACKF"}, !.enabled = FALSE])

\* Mutant for EverythingEnds: the transaction that failed still keeps the bus.
IrqNackEndsKeeping ==
    /\ Pending /\ i2c.state = "nack" /\ "STOPF" \in bus.flags
    /\ Ends(IF i2c.count = 0 THEN "address_nack" ELSE "data_nack")
    /\ Leave([i2c EXCEPT !.state = "stop"], [bus EXCEPT !.flags = @ \ {"STOPF"}])

IrqNackEnds ==
    /\ Pending /\ i2c.state = "nack" /\ "STOPF" \in bus.flags
    /\ Ends(IF i2c.count = 0 THEN "address_nack" ELSE "data_nack")
    /\ Leave([i2c EXCEPT !.state = "stop", !.restart = FALSE],
             [bus EXCEPT !.flags = @ \ {"STOPF"}])

Regular == Pending /\ Busy /\ bus.flags \cap {"ARLO", "NACKF"} = {}

\* TXDR is empty: the next byte.
IrqByte ==
    /\ Regular /\ i2c.state = "transmit" /\ "TXIS" \in bus.flags
    /\ Continues
    /\ LET d == LoadByte(i2c, bus) IN Leave(d.i, d.b)

\* Mutant for TypeOK: the second buffer is never taken up.
IrqReloadSameBuffer ==
    /\ Regular /\ "TCR" \in bus.flags
    /\ Continues
    /\ IF i2c.state = "transmit"
       THEN LET d == LoadByte(i2c, [ProgramWrite([i2c EXCEPT !.tx = i2c.tx2], bus)
                                      EXCEPT !.phase = "data"])
            IN  Leave(d.i, d.b)
       ELSE Leave([i2c EXCEPT !.rx = @ - Least(@, NBYTES_MAX)],
                  [ProgramRead(i2c, bus) EXCEPT !.phase = "data"])

\* All bytes programmed are sent: the second buffer, or more of this one.
IrqReload ==
    /\ Regular /\ "TCR" \in bus.flags
    /\ Continues
    /\ IF i2c.state = "transmit"
       THEN LET i1 == IF i2c.tx = <<>>
                      THEN [i2c EXCEPT !.tx = i2c.tx2, !.tx2 = <<>>] ELSE i2c
                d  == LoadByte(i1, [ProgramWrite(i1, bus) EXCEPT !.phase = "data"])
            IN  Leave(d.i, d.b)
       ELSE Leave([i2c EXCEPT !.rx = @ - Least(@, NBYTES_MAX)],
                  [ProgramRead(i2c, bus) EXCEPT !.phase = "data"])

Ended(b) == [b EXCEPT !.enabled = FALSE, !.flags = @ \ {"STOPF"}]
EndState == IF "TC" \in bus.flags THEN "restart" ELSE "stop"

\* What was to be written is written, and bytes are read next.
IrqTurn ==
    /\ Regular /\ i2c.state = "transmit" /\ i2c.rx > 0
    /\ bus.flags \cap {"TC", "STOPF"} # {}
    /\ Continues
    /\ LET d == Receive([i2c EXCEPT !.state = EndState], Ended(bus)) IN Leave(d.i, d.b)

\* All is transferred.
IrqEnds ==
    /\ Regular /\ bus.flags \cap {"TC", "STOPF"} # {}
    /\ i2c.state = "transmit" => i2c.rx = 0
    /\ Ends("success")
    /\ Leave([i2c EXCEPT !.state = EndState], Ended(bus))

\* Pended by an enqueue: between transactions the next one starts, within one
\* nothing happens.
IrqEnqueued ==
    /\ irq /\ Continues
    /\ Busy => bus.flags = {}
    /\ i2c.state = "nack" => "STOPF" \notin bus.flags
    /\ Leave(i2c, bus)

Irq == \/ IrqArbitration \/ IrqNack \/ IrqNackEnds
       \/ IrqByte \/ IrqReload \/ IrqTurn \/ IrqEnds \/ IrqEnqueued

-----------------------------------------------------------------------------
(* The wire and the slave it addresses *)

OnBus(b) == bus' = b /\ UNCHANGED <<trans, i2c, irq, holding, calling, calls>>

Transferred(b) ==
    IF b.reload       THEN [b EXCEPT !.phase = "held", !.flags = @ \cup {"TCR"}]
    ELSE IF b.autoend THEN [b EXCEPT !.phase = "stopping"]
    ELSE                   [b EXCEPT !.phase = "held", !.flags = @ \cup {"TC"}]

Refused(why) == [bus EXCEPT !.phase = "stopping", !.outcome = why,
                            !.flags = @ \cup {"NACKF"}]

SlaveAnswers ==
    /\ bus.phase = "address"
    /\ \/ OnBus(IF bus.left = 0 THEN Transferred(bus) ELSE [bus EXCEPT !.phase = "data"])
       \/ OnBus(Refused("address_nack"))

ShiftByte ==
    /\ bus.phase = "data" /\ ~bus.read /\ bus.shift = Empty /\ bus.txdr # Empty
    /\ OnBus([bus EXCEPT !.shift = bus.txdr, !.txdr = Empty,
                         !.flags = IF bus.left > 1 THEN @ \cup {"TXIS"} ELSE @])

SlaveTakesByte ==
    /\ bus.shift # Empty /\ bus.phase = "data"
    /\ LET b == [bus EXCEPT !.shift = Empty, !.left = @ - 1]
       IN  \/ LET b1 == [b EXCEPT !.sent = Append(@, bus.shift)]
              IN  OnBus(IF b1.left = 0 THEN Transferred(b1) ELSE b1)
           \/ OnBus([Refused("data_nack") EXCEPT !.shift = Empty])

\* The interrupt, or the DMA channel, takes the byte from RXDR.
SlaveGivesByte ==
    /\ bus.phase = "data" /\ bus.read
    /\ LET b == [bus EXCEPT !.left = @ - 1, !.got = @ + 1]
       IN  OnBus(IF b.left = 0 THEN Transferred(b) ELSE b)

StopSent ==
    /\ bus.phase = "stopping"
    /\ OnBus([bus EXCEPT !.phase = "idle", !.flags = @ \cup {"STOPF"}])

\* Another master wins the bus while this one sends.
ArbitrationLost ==
    /\ bus.phase = "address" \/ (bus.phase = "data" /\ bus.shift # Empty)
    /\ OnBus([bus EXCEPT !.phase = "idle", !.shift = Empty, !.outcome = "arbitration_lost",
                         !.flags = {"ARLO"}])

Bus == \/ SlaveAnswers \/ ShiftByte \/ SlaveTakesByte \/ SlaveGivesByte
       \/ StopSent \/ ArbitrationLost

-----------------------------------------------------------------------------
(* The clients *)

\* stm32l0_i2c_enqueue: CONTINUE needs the bus kept, at this address, and no
\* other continuation.
Accepts(continue, a) ==
    continue => i2c.restart /\ i2c.address = a /\ i2c.continue = None

\* sendTransmission and requestFrom, up to the wait (TwoWire) or to the store
\* of _xf_address (TwoWireTransaction).  A client that kept the bus and calls
\* another slave gets an error at once; here it calls its own, at last with a
\* STOP.
Submit(c, m, a, restart) ==
    LET continue == holding[c] # None
    IN  /\ c \notin calling
        /\ trans[c].status # "busy"
        /\ calls < MaxCalls \/ (continue /\ ~restart)
        /\ continue => holding[c] = a
        /\ calls' = IF calls < MaxCalls THEN calls + 1 ELSE calls
        /\ trans' = [trans EXCEPT ![c] = [message |-> m, address |-> a,
                                          restart |-> restart, status |-> "busy"]]
        /\ IF Accepts(continue, a)
           THEN /\ i2c' = IF continue THEN [i2c EXCEPT !.continue = c]
                          ELSE [i2c EXCEPT !.queue = Append(@, c)]
                /\ irq' = TRUE
                /\ calling' = calling \cup {c}
           ELSE UNCHANGED <<i2c, irq, calling>>
        /\ UNCHANGED <<bus, holding>>

Call(c) == \E m \in Messages, a \in Address, restart \in BOOLEAN : Submit(c, m, a, restart)

\* Mutant for KeptForItsClient: the address of a bus given back is not forgotten.
AsyncReturnKeepsAddress(c) ==
    /\ c \in calling \ {Wire}
    /\ calling' = calling \ {c}
    /\ UNCHANGED <<trans, holding, i2c, bus, irq, calls>>

\* TwoWireTransaction: `_xf_address = 0` after the enqueue, as doneCallback may
\* already have been here.
AsyncReturn(c) ==
    /\ c \in calling \ {Wire}
    /\ holding' = [holding EXCEPT ![c] = None]
    /\ calling' = calling \ {c}
    /\ UNCHANGED <<trans, i2c, bus, irq, calls>>

\* TwoWire: the status is no longer BUSY, and a transmission without STOP that
\* succeeded is remembered.
WireReturn ==
    /\ Wire \in calling /\ trans[Wire].status # "busy"
    /\ holding' = [holding EXCEPT ![Wire] =
                     IF trans[Wire].status = "success" /\ trans[Wire].restart
                     THEN trans[Wire].address ELSE None]
    /\ calling' = calling \ {Wire}
    /\ UNCHANGED <<trans, i2c, bus, irq, calls>>

-----------------------------------------------------------------------------
Init ==
    /\ trans = [c \in Client |-> [message |-> CHOOSE m \in Messages : TRUE,
                                  address |-> CHOOSE a \in Address : TRUE,
                                  restart |-> FALSE, status |-> "success"]]
    /\ i2c = [state |-> "ready", current |-> None, address |-> None, restart |-> FALSE,
              continue |-> None, queue |-> <<>>, tx |-> <<>>, tx2 |-> <<>>,
              rx |-> 0, count |-> 0, locks |-> 0]
    /\ bus = [phase |-> "off", read |-> FALSE, left |-> 0, reload |-> FALSE,
              autoend |-> FALSE, txdr |-> Empty, shift |-> Empty, flags |-> {},
              enabled |-> FALSE, sent |-> <<>>, got |-> 0, outcome |-> "open"]
    /\ irq = FALSE /\ calls = 0
    /\ holding = [c \in Client |-> None] /\ calling = {}

Next == \/ Irq /\ UNCHANGED <<calling, calls>>
        \/ Bus
        \/ WireReturn
        \/ \E c \in Client : Call(c) \/ AsyncReturn(c)

Spec == Init /\ [][Next]_vars

\* A client that keeps the bus calls again, and at last with a STOP.
LetsGo(c) == \E m \in Messages : holding[c] # None /\ Submit(c, m, holding[c], FALSE)

\* Interrupts are taken, slaves and the bus make progress, calls return.
Fairness ==
    /\ WF_vars(Irq /\ UNCHANGED <<calling, calls>>) /\ WF_vars(Bus) /\ WF_vars(WireReturn)
    /\ \A c \in Client : WF_vars(AsyncReturn(c)) /\ WF_vars(LetsGo(c))

LiveSpec == Spec /\ Fairness

-----------------------------------------------------------------------------
(* Properties *)

States == {"ready", "stop", "restart", "nack", "transmit", "receive"}

\* Every variable keeps its type, and no byte is taken from behind a buffer
\* but the one of an empty write.
TypeOK ==
    /\ \A c \in Client :
          /\ trans[c].message \in Messages /\ trans[c].address \in Address
          /\ trans[c].restart \in BOOLEAN
          /\ trans[c].status \in {"busy", "success", "address_nack", "data_nack",
                                  "arbitration_lost"}
    /\ i2c.state \in States /\ i2c.current \in Client \cup {None}
    /\ i2c.continue \in Client \cup {None} /\ i2c.restart \in BOOLEAN
    /\ \A k \in DOMAIN i2c.queue : i2c.queue[k] \in Client
    /\ i2c.rx \in Nat /\ i2c.count \in Nat /\ i2c.locks \in Nat
    /\ bus.phase \in {"off", "idle", "address", "data", "held", "stopping"}
    /\ Junk \in {bus.txdr, bus.shift} => bus.left = 0 \/ bus.phase # "data"
    /\ holding \in [Client -> Address \cup {None}] /\ calling \subseteq Client

\* The system may not enter stop mode, and the peripheral is on, exactly while a
\* transaction or a kept bus needs them: one lock, on every way through chained
\* transactions, errors and restarts.
LockedWhileBusy == /\ i2c.locks = IF i2c.state = "ready" THEN 0 ELSE 1
                   /\ bus.phase = "off" <=> i2c.state = "ready"

\* The status tells what happened on the wire: SUCCESS that the slave took every
\* byte once and in order, gave all that were asked for, and that the bus is then
\* free or kept as demanded; a NACK is of the address or of data; each status is
\* of the transaction that was on the wire.
StatusTellsTruth ==
    \A c \in Client : trans[c].status = "busy" /\ trans'[c].status # "busy" =>
       /\ i2c.current = c
       /\ IF trans'[c].status = "success"
          THEN LET m == trans[c].message
               IN  /\ bus.outcome = "open"
                   /\ bus.sent = Bytes1(m) \o Bytes2(m) /\ bus.got = m.rx
                   /\ bus.phase = IF trans[c].restart THEN "held" ELSE "idle"
          ELSE bus.outcome = trans'[c].status

StatusIsTrue == [][StatusTellsTruth]_vars

\* A transaction kept the bus, and its client has not used it since.
Kept == i2c.state = "restart" /\ i2c.restart

\* While the bus is kept for a client, that client knows it, or is about to: its
\* next call will continue.
KeeperKnows ==
    Kept /\ i2c.continue = None =>
       LET c == i2c.current
       IN  \/ holding[c] = i2c.address
           \/ c = Wire /\ Wire \in calling /\ trans[c].status = "success"

\* The driver knows clients by the address only: the continuation it accepted is
\* nevertheless that of the client the bus is kept for.
ContinuesItsOwn == i2c.continue # None => Kept /\ i2c.continue = i2c.current

\* The bus is on and locked exactly as long as somebody needs it, whoever it is kept
\* for will give it back, and nobody else will.
HeldIffNeeded ==
    LockedWhileBusy /\ (Kept => bus.phase = "held") /\ KeeperKnows /\ ContinuesItsOwn

\* The current transaction ends in this step, and keeps the bus.
KeepsNow ==
    LET c == i2c.current
    IN  c # None /\ trans[c].status = "busy" /\ trans'[c].status = "success" /\ trans[c].restart

\* On a kept bus the next transaction is of the client that kept it: a register read
\* is not torn.
NobodyBetween ==
    (Kept \/ KeepsNow) /\ i2c'.state \in {"transmit", "receive"} => i2c'.current = i2c.current

\* A kept bus is held, continued and given back by the client that kept it, also
\* while several clients keep it in turn at the same address. (The bus is off and
\* kept for nobody at first.)
KeptForItsClient == [][HeldIffNeeded' /\ NobodyBetween]_vars

\* Every transaction ends and every call returns, whatever the slaves refuse and
\* other masters take, also behind a client that keeps the bus for a while.
EverythingEnds ==
    \A c \in Client : (trans[c].status = "busy" \/ c \in calling)
                        ~> (trans[c].status # "busy" /\ c \notin calling)
=============================================================================
