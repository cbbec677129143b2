----------------------------- MODULE SerialTx -----------------------------
(***************************************************************************)
(* The transmit side of Serial: Uart.cpp and CDC.cpp.  write copies into a *)
(* ring that the driver drains in packets; the asynchronous write hands    *)
(* its own buffer to the driver once the ring is empty and queues a        *)
(* callback when the buffer is sent.  The two files are the same code but  *)
(* for one test in write, which CDC.cpp does not make (Cdc).               *)
(*                                                                         *)
(* One thread writes; the driver's interrupt preempts it anywhere, sends   *)
(* bytes and runs _doneCallback.  A byte is its number in the order in     *)
(* which the program wrote it.                                             *)
(***************************************************************************)
EXTENDS Integers, Sequences, SequencesExt

CONSTANTS
    Size,         \* UART_TX_BUFFER_SIZE, CDC_TX_BUFFER_SIZE
    Packet,       \* UART_TX_PACKET_SIZE, CDC_TX_PACKET_SIZE
    Cdc,          \* CDC.cpp and its driver, or else Uart.cpp
    Prompt,       \* the thread is never held up, between its test and its use of
                  \* tx_busy, for as long as the driver takes to send everything
                  \* on a link that does not fail
    Failures,     \* may the driver refuse a transfer, or give one up?  The answers
                  \* that are considered
    MaxWrite,     \* bytes per write
    MaxBytes      \* bound on the bytes written

ASSUME SerialTxAssumption ==
    /\ Size \in Nat \ {0} /\ Packet \in Nat \ {0} /\ MaxWrite \in Nat \ {0} /\ MaxBytes \in Nat
    /\ {Cdc, Prompt} \cup Failures \subseteq BOOLEAN

VARIABLES
    tx_data, tx_read, tx_write, tx_count, tx_size, tx_busy,
    tx_data2,   \* the buffer of the asynchronous write, <<>> for NULL
    tx_size2,
    completion, \* _completionCallback is set
    nonblocking,
    mayFail,    \* the link of this behaviour may fail
    flight,     \* the driver's transfer: what is left of it, and where from
    pc,         \* where the thread is
    todo,       \* bytes of its buffer that write has still to copy
    room,       \* the locals tx_count and tx_write of write
    slot,
    issued,     \* bytes written so far
    wire,       \* history: bytes sent, if transfers do not fail
    promised,   \* history: asynchronous writes that returned true
    called      \* history: callbacks queued

ring   == <<tx_data, tx_read, tx_write, tx_count, tx_size>>
async  == <<tx_data2, tx_size2, completion>>
locals == <<todo, room, slot>>
hist   == <<issued, wire, promised, called>>
vars   == <<ring, tx_busy, async, nonblocking, mayFail, flight, pc, locals, hist>>

NoFlight == [from |-> "none", at |-> 0, left |-> 0]
Stale    == 0   \* what the ring holds before it is first filled

TypeOK ==
    /\ tx_data \in [0..Size-1 -> 0..MaxBytes]
    /\ tx_read \in 0..Size-1 /\ tx_write \in 0..Size-1
    /\ tx_count \in 0..Size /\ tx_size \in 0..Packet
    /\ tx_busy \in BOOLEAN /\ completion \in BOOLEAN /\ nonblocking \in BOOLEAN
    /\ tx_size2 \in 0..MaxWrite /\ Len(tx_data2) <= MaxWrite
    /\ flight \in [from : {"none", "ring", "async"}, at : Nat, left : Nat]
    /\ pc \in {"idle", "waitAsync", "loop", "full", "drain", "copy", "publish", "kick",
               "commit", "start", "flush"}
    /\ todo \in 0..MaxWrite /\ room \in 0..Size /\ slot \in 0..Size-1
    /\ issued \in 0..MaxBytes /\ Len(wire) <= 2 * MaxBytes + 1

Init ==
    /\ tx_data = [s \in 0..Size-1 |-> Stale]
    /\ tx_read = 0 /\ tx_write = 0 /\ tx_count = 0 /\ tx_size = 0 /\ tx_busy = FALSE
    /\ tx_data2 = <<>> /\ tx_size2 = 0 /\ completion = FALSE
    /\ nonblocking = FALSE /\ mayFail \in Failures
    /\ flight = NoFlight
    /\ pc = "idle" /\ todo = 0 /\ room = 0 /\ slot = 0
    /\ issued = 0 /\ wire = <<>> /\ promised = 0 /\ called = 0

-----------------------------------------------------------------------------
(* Starting a transfer. *)

Least(S) == CHOOSE n \in S : \A m \in S : n <= m

\* Mutant: the position is not masked.
AdvanceUnmasked(at, n) == at + n

\* Size is a power of two, and the code masks with Size - 1.
Advance(at, n) == (at + n) % Size

\* The next packet of the ring.
PacketOf(rd, count) == Least({count, Size - rd, Packet})

\* The driver of the UART decrements the length before it tests it: a transfer of
\* no bytes goes on past the end of memory (here, past the bound on bytes).
Length(n) == IF n = 0 /\ ~Cdc THEN MaxBytes + 1 ELSE n

\* A transfer of the ring that holds count bytes from rd: started, or refused,
\* which empties the ring.
StartRing(rd, count) ==
    \/ /\ tx_size' = PacketOf(rd, count) /\ tx_busy' = TRUE
       /\ tx_read' = rd /\ tx_count' = count
       /\ flight' = [from |-> "ring", at |-> rd, left |-> Length(PacketOf(rd, count))]
    \/ /\ mayFail
       /\ tx_size' = 0 /\ tx_busy' = FALSE /\ flight' = NoFlight
       /\ tx_read' = tx_write /\ tx_count' = 0

\* A transfer of the buffer of the asynchronous write.  The driver of the UART
\* keeps the address, and takes NULL for no transfer at all.
StartAsync ==
    /\ tx_busy' = TRUE
    /\ flight' = IF ~Cdc /\ tx_data2 = <<>> THEN NoFlight
                 ELSE [from |-> "async", at |-> 0, left |-> tx_size2]

\* The asynchronous write is over: its callback is queued, if it has one.
EndAsync ==
    /\ tx_size2' = 0 /\ tx_data2' = <<>> /\ completion' = FALSE
    /\ called' = IF completion THEN called + 1 ELSE called

-----------------------------------------------------------------------------
(* The driver: it sends the bytes of a transfer one by one, then calls back. *)

SendByte ==
    /\ flight.left > 0
    /\ LET byte == CASE flight.from = "ring" /\ flight.at < Size -> tx_data[flight.at]
                     [] flight.from = "async" /\ tx_data2 # <<>> -> tx_data2[flight.at + 1]
                     [] OTHER -> Stale
       IN  wire' = IF mayFail THEN wire ELSE Append(wire, byte)
    /\ flight' = [flight EXCEPT !.at = @ + 1, !.left = @ - 1]
    /\ UNCHANGED <<ring, tx_busy, async, pc, locals, issued, promised, called>>

\* A transfer is complete, or given up because the link is gone.
Over == flight.from # "none" /\ (flight.left = 0 \/ mayFail)

\* Under Prompt the driver does not fall idle there, but for a transfer that is
\* refused or given up: that takes one entry of the interrupt.
InTime == Prompt => mayFail \/ tx_busy' \/ pc \notin {"full", "start"}

\* Mutant: the ring's next packet waits for the next write.
DoneNoNextPacket ==
    /\ Over /\ tx_size # 0
    /\ tx_read' = Advance(tx_read, tx_size)
    /\ tx_count' = tx_count - tx_size
    /\ tx_size' = 0 /\ tx_busy' = FALSE /\ flight' = NoFlight
    /\ UNCHANGED <<tx_data, tx_write, async, pc, locals, hist>>

\* _doneCallback after a packet of the ring, when the ring holds more.
DoneMore ==
    /\ Over /\ tx_size # 0 /\ tx_count # tx_size
    /\ StartRing(Advance(tx_read, tx_size), tx_count - tx_size)
    /\ InTime
    /\ IF ~tx_busy' /\ tx_size2 # 0 THEN EndAsync ELSE UNCHANGED <<async, called>>
    /\ UNCHANGED <<tx_data, tx_write, pc, locals, issued, wire, promised>>

\* ... when it was the last packet.
DoneLast ==
    /\ Over /\ tx_size # 0 /\ tx_count = tx_size
    /\ tx_read' = Advance(tx_read, tx_size) /\ tx_count' = 0 /\ tx_size' = 0
    /\ \/ /\ tx_size2 = 0
          /\ tx_busy' = FALSE /\ flight' = NoFlight
          /\ UNCHANGED <<async, called>>
       \/ /\ tx_size2 # 0 /\ StartAsync
          /\ UNCHANGED <<async, called>>
       \/ /\ tx_size2 # 0 /\ mayFail
          /\ tx_busy' = FALSE /\ flight' = NoFlight
          /\ EndAsync
    /\ InTime
    /\ UNCHANGED <<tx_data, tx_write, pc, locals, issued, wire, promised>>

\* _doneCallback when no packet of the ring was under way.
DoneAsync ==
    /\ Over /\ tx_size = 0
    /\ tx_busy' = FALSE /\ flight' = NoFlight
    /\ InTime
    /\ EndAsync
    /\ UNCHANGED <<ring, pc, locals, issued, wire, promised>>

Driver == SendByte \/ DoneMore \/ DoneLast \/ DoneAsync

-----------------------------------------------------------------------------
(* write(buffer, size). *)

Goto(p) == pc' = p

WriteBegin(n) ==
    /\ pc = "idle" /\ issued + n <= MaxBytes
    /\ ~(nonblocking /\ tx_size2 # 0)
    /\ todo' = n
    /\ Goto(IF tx_size2 # 0 THEN "waitAsync" ELSE "loop")
    /\ UNCHANGED <<ring, tx_busy, async, flight, room, slot, hist>>

WriteWaitAsync ==
    /\ pc = "waitAsync" /\ tx_size2 = 0
    /\ Goto("loop")
    /\ UNCHANGED <<ring, tx_busy, async, flight, locals, hist>>

WriteLoop ==
    /\ pc = "loop"
    /\ room' = Size - tx_count
    /\ slot' = tx_write
    /\ Goto(IF todo = 0 \/ (room' = 0 /\ nonblocking) THEN "kick"
            ELSE IF room' = 0 THEN "full" ELSE "copy")
    /\ UNCHANGED <<ring, tx_busy, async, flight, todo, hist>>

\* The ring is full: a transfer is under way, or has to be started here.
WriteFull ==
    /\ pc = "full"
    /\ Goto("drain")
    /\ IF tx_busy THEN UNCHANGED <<tx_read, tx_count, tx_size, tx_busy, flight>>
       ELSE StartRing(tx_read, tx_count)
    /\ UNCHANGED <<tx_data, tx_write, async, locals, hist>>

WriteDrain ==
    /\ pc = "drain" /\ tx_count # Size
    /\ room' = Size - tx_count
    /\ slot' = tx_write
    /\ Goto("copy")
    /\ UNCHANGED <<ring, tx_busy, async, flight, todo, hist>>

Chunk == Least({room, Size - slot, todo})

\* memcpy, and _tx_write; _tx_count follows in a step of its own.
WriteCopy ==
    /\ pc = "copy"
    /\ tx_data' = [s \in 0..Size-1 |->
          IF s \in slot..slot+Chunk-1 THEN issued + 1 + s - slot ELSE tx_data[s]]
    /\ tx_write' = Advance(slot, Chunk)
    /\ issued' = issued + Chunk
    /\ Goto("publish")
    /\ UNCHANGED <<tx_read, tx_count, tx_size, tx_busy, async, flight, locals,
                   wire, promised, called>>

\* Mutant: the counter is written back from the value read before the copy.
WritePublishStale ==
    /\ pc = "publish"
    /\ tx_count' = (Size - room) + Chunk
    /\ todo' = todo - Chunk
    /\ Goto("loop")
    /\ UNCHANGED <<tx_data, tx_read, tx_write, tx_size, tx_busy, async, flight, room, slot, hist>>

\* armv6m_atomic_add.
WritePublish ==
    /\ pc = "publish"
    /\ tx_count' = tx_count + Chunk
    /\ todo' = todo - Chunk
    /\ Goto("loop")
    /\ UNCHANGED <<tx_data, tx_read, tx_write, tx_size, tx_busy, async, flight, room, slot, hist>>

\* Mutant: a transfer is started even when there is nothing left to send.
WriteKickUntested ==
    /\ pc = "kick"
    /\ Goto("idle")
    /\ IF tx_busy THEN UNCHANGED <<tx_read, tx_count, tx_size, tx_busy, flight>>
       ELSE StartRing(tx_read, tx_count)
    /\ UNCHANGED <<tx_data, tx_write, async, locals, hist>>

\* When the transfer under way ended without seeing the new bytes.  CDC.cpp
\* starts a transfer of no bytes when there is nothing left to send.
WriteKick ==
    /\ pc = "kick"
    /\ Goto("idle")
    /\ IF tx_busy \/ (~Cdc /\ tx_count = 0)
       THEN UNCHANGED <<tx_read, tx_count, tx_size, tx_busy, flight>>
       ELSE StartRing(tx_read, tx_count)
    /\ UNCHANGED <<tx_data, tx_write, async, locals, hist>>

-----------------------------------------------------------------------------
(* write(buffer, size, callback). *)

AsyncBegin(n) ==
    /\ pc = "idle" /\ issued + n <= MaxBytes
    /\ tx_size2 = 0
    /\ completion' = TRUE
    /\ tx_data2' = [i \in 1..n |-> issued + i]
    /\ issued' = issued + n
    /\ todo' = n
    /\ Goto("commit")
    /\ UNCHANGED <<ring, tx_busy, tx_size2, flight, room, slot, wire, promised, called>>

AsyncCommit ==
    /\ pc = "commit"
    /\ tx_size2' = todo
    /\ todo' = 0
    /\ Goto("start")
    /\ UNCHANGED <<ring, tx_busy, tx_data2, completion, flight, room, slot, hist>>

\* The interrupt may have taken the buffer, and even sent it, by now.
AsyncStart ==
    /\ pc = "start"
    /\ Goto("idle")
    /\ \/ /\ tx_busy
          /\ promised' = promised + 1
          /\ UNCHANGED <<tx_busy, async, flight>>
       \/ /\ ~tx_busy
          /\ StartAsync /\ promised' = promised + 1
          /\ UNCHANGED async
       \/ /\ ~tx_busy /\ mayFail
          /\ tx_size2' = 0 /\ tx_data2' = <<>> /\ completion' = FALSE
          /\ UNCHANGED <<tx_busy, flight, promised>>
    /\ UNCHANGED <<ring, locals, issued, wire, called>>

\* flush.
FlushBegin ==
    /\ pc = "idle"
    /\ Goto("flush")
    /\ UNCHANGED <<ring, tx_busy, async, flight, locals, hist>>

FlushEnd ==
    /\ pc = "flush" /\ ~tx_busy
    /\ Goto("idle")
    /\ UNCHANGED <<ring, tx_busy, async, flight, locals, hist>>

-----------------------------------------------------------------------------
Thread ==
    \/ WriteWaitAsync \/ WriteLoop \/ WriteFull \/ WriteDrain
    \/ WriteCopy \/ WritePublish \/ WriteKick
    \/ AsyncCommit \/ AsyncStart \/ FlushEnd

Step ==
    \/ \E n \in 1..MaxWrite : WriteBegin(n) \/ AsyncBegin(n)
    \/ FlushBegin \/ Thread \/ Driver

\* setNonBlocking, between writes.
SetNonBlocking ==
    /\ pc = "idle"
    /\ nonblocking' = ~nonblocking
    /\ UNCHANGED <<ring, tx_busy, async, flight, pc, locals, hist>>

Next ==
    /\ \/ SetNonBlocking
       \/ Step /\ UNCHANGED nonblocking
    /\ UNCHANGED mayFail

Spec == Init /\ [][Next]_vars

\* The driver finishes its transfers, and the thread runs whenever it can.
LiveSpec == Spec /\ WF_vars(Driver /\ UNCHANGED <<nonblocking, mayFail>>)
                 /\ WF_vars(Thread /\ UNCHANGED <<nonblocking, mayFail>>)

-----------------------------------------------------------------------------
(* Properties. *)

\* What is sent is what was written, each byte once and in order, across both
\* kinds of write and every preemption of write by _doneCallback that Prompt admits,
\* if no transfer fails.  (One that is refused between _tx_write and _tx_count of write leaves the
\* ring empty but for a count of bytes sent long ago.)
WireInOrder == ~mayFail =>
    Len(wire) <= issued /\ \A i \in 1..Len(wire) : wire[i] = i

CalledAfterData ==
    called' # called /\ ~mayFail =>
        wire # <<>> /\ tx_data2 # <<>> /\ Last(wire) = Last(tx_data2)

\* The callback of an asynchronous write is queued when its last byte is sent, if
\* no transfer fails.
CallbackAfterData == [][CalledAfterData]_vars

\* A failing link has taken the buffer, or a packet before it, from an asynchronous
\* write that is yet to test tx_busy: write will hand NULL to the driver.
Forgotten == mayFail /\ pc = "start" /\ ~tx_busy /\ tx_data2 = <<>>

\* write and flush return, and every asynchronous write that returned true gets
\* its callback: no byte is left in the buffers with nobody to send it, on links
\* that fail as well unless one fails in that place.
CallsComplete == []~Forgotten => /\ pc # "idle" ~> pc = "idle"
                                 /\ promised # called ~> promised = called
=============================================================================
