--------------------------- MODULE SerialTxProofs ---------------------------
(***************************************************************************)
(* Theorems about SerialTx, for every size of the ring and of a packet,    *)
(* every length of a write and every number of bytes, where the driver is  *)
(* the UART's and the thread is not held up (Uart).                        *)
(*                                                                         *)
(* Every byte has one place: sent, in the ring, or in the buffer of the    *)
(* asynchronous write.  As bytes are numbered in the order in which they   *)
(* are written, it is enough to say how many are sent, that the ring holds *)
(* the numbers that follow and the buffer the last ones (OrderInv).        *)
(***************************************************************************)
EXTENDS SerialTx, TLAPS

\* The case the theorems are about.
Uart == ~Cdc /\ Prompt

\* The slot k places behind `from`.
Behind(from, k) == IF from + k < Size THEN from + k ELSE from + k - Size

\* Bytes in the ring: counted, or copied and to be counted next.
Held == tx_count + (IF pc = "publish" THEN Chunk ELSE 0)

\* Bytes that left the ring with a packet that is over.
Base == issued - Len(tx_data2) - Held

Flights == [from : {"none", "ring", "async"}, at : Nat, left : Nat]

Pcs == {"idle", "waitAsync", "loop", "full", "drain", "copy", "publish", "kick",
        "commit", "start", "flush"}

RingTypes ==
    /\ tx_data \in [0..Size-1 -> 0..MaxBytes]
    /\ tx_read \in 0..Size-1 /\ tx_write \in 0..Size-1
    /\ tx_count \in 0..Size /\ tx_size \in 0..Packet

AsyncTypes ==
    /\ tx_data2 \in Seq(Nat) /\ Len(tx_data2) <= MaxWrite
    /\ tx_size2 \in 0..MaxWrite

LocalTypes ==
    /\ pc \in Pcs /\ todo \in 0..MaxWrite /\ room \in 0..Size /\ slot \in 0..Size-1
    /\ issued \in 0..MaxBytes

FlagTypes ==
    /\ tx_busy \in BOOLEAN /\ completion \in BOOLEAN /\ nonblocking \in BOOLEAN
    /\ mayFail \in BOOLEAN

TypeInv ==
    /\ RingTypes /\ AsyncTypes /\ LocalTypes /\ FlagTypes
    /\ flight \in Flights /\ wire \in Seq(Nat)

\* The counters and the locals of write fit each other, also where transfers fail.
CountInv ==
    /\ tx_size <= tx_count
    /\ pc \in {"copy", "publish"} => room > 0 /\ tx_count <= Size - room
    /\ pc \in {"full", "drain", "copy", "publish", "commit"} => todo > 0
    /\ pc \in {"waitAsync", "loop", "full", "drain", "copy"} => issued + todo <= MaxBytes
    /\ pc = "publish" => issued + todo - Chunk <= MaxBytes
    /\ mayFail => wire = <<>>

\* The ring holds the numbers behind Base.
RingInv ==
    /\ Base >= 0 /\ Held <= Size
    /\ tx_write = Behind(tx_read, Held)
    /\ pc = "copy" => slot = tx_write
    /\ \A k \in 0..Size-1 : k < Held => tx_data[Behind(tx_read, k)] = Base + 1 + k

\* The buffer of the asynchronous write holds the last numbers, and the thread does
\* not fill the ring while there is one.
AsyncInv ==
    /\ \A i \in 1..Len(tx_data2) : tx_data2[i] = issued - Len(tx_data2) + i
    /\ tx_data2 # <<>> => pc \in {"idle", "waitAsync", "commit", "start", "flush"}
    /\ tx_data2 # <<>> /\ pc # "commit" => tx_size2 = Len(tx_data2)
    /\ tx_data2 = <<>> \/ pc = "commit" => tx_size2 = 0
    /\ pc = "commit" => todo = Len(tx_data2)
    /\ pc = "start" => tx_size2 # 0

\* The driver is at the first number that is not sent, and is idle only when
\* nothing is left or the thread is about to start it.
FlightInv ==
    /\ tx_busy <=> flight.from # "none"
    /\ flight.from = "none" =>
          /\ tx_size = 0 /\ Len(wire) = Base /\ flight.left = 0
          /\ pc \in {"idle", "waitAsync", "commit", "start", "flush"} => tx_count = 0
          /\ tx_size2 # 0 => pc = "start"
          /\ pc = "full" => tx_count = Size
    /\ flight.from = "ring" =>
          /\ tx_size > 0 /\ tx_read + tx_size <= Size
          /\ flight.at + flight.left = tx_read + tx_size /\ flight.at >= tx_read
          /\ Len(wire) = Base + flight.at - tx_read
    /\ flight.from = "async" =>
          /\ tx_size2 # 0 /\ tx_count = 0
          /\ flight.at + flight.left = tx_size2
          /\ Len(wire) = issued - tx_size2 + flight.at

WireInv == \A i \in 1..Len(wire) : wire[i] = i

OrderInv == RingInv /\ AsyncInv /\ FlightInv /\ WireInv

IInv == TypeInv /\ CountInv /\ (~mayFail => OrderInv)

ConstantsOK ==
    /\ Size \in Nat /\ Size > 0 /\ Packet \in Nat /\ Packet > 0
    /\ MaxWrite \in Nat /\ MaxWrite > 0 /\ MaxBytes \in Nat

-----------------------------------------------------------------------------
(* Operators. *)

\* The assumptions, under the name the proofs use.
LEMMA ConstantsAreOK == ConstantsOK /\ Failures \subseteq BOOLEAN
  BY SerialTxAssumption DEF ConstantsOK

\* The least of three numbers.
LEMMA LeastOfThree ==
  ASSUME NEW a \in Int, NEW b \in Int, NEW c \in Int
  PROVE  /\ Least({a, b, c}) \in {a, b, c}
         /\ Least({a, b, c}) <= a /\ Least({a, b, c}) <= b /\ Least({a, b, c}) <= c
<1>1. \E n \in {a, b, c} : \A m \in {a, b, c} : n <= m
  <2>1. CASE a <= b /\ a <= c
    BY <2>1
  <2>2. CASE b <= a /\ b <= c
    BY <2>2
  <2>3. CASE c <= a /\ c <= b
    BY <2>3
  <2> QED
    BY <2>1, <2>2, <2>3
<1> QED
  BY <1>1 DEF Least

\* A packet is not longer than what the ring holds, up to its end.
LEMMA Packets ==
  ASSUME NEW rd \in 0..Size-1, NEW count \in Nat
  PROVE  /\ PacketOf(rd, count) \in 0..Packet
         /\ PacketOf(rd, count) <= count
         /\ rd + PacketOf(rd, count) <= Size
         /\ count > 0 => PacketOf(rd, count) > 0
<1> DEFINE end == Size - rd
           n   == Least({count, end, Packet})
<1>1. end \in Int /\ end > 0 /\ count \in Int /\ Packet \in Int
  BY ConstantsAreOK DEF ConstantsOK
<1>2. PacketOf(rd, count) = n
  BY DEF PacketOf
<1> HIDE DEF end
<1>3. n \in {count, end, Packet} /\ n <= count /\ n <= end /\ n <= Packet
  BY <1>1, LeastOfThree
<1> HIDE DEF n
<1> QED
  BY <1>1, <1>2, <1>3, ConstantsAreOK DEF ConstantsOK, end

\* A chunk fits into the room, up to the end of the ring.
LEMMA Chunks ==
  ASSUME LocalTypes
  PROVE  /\ Chunk \in Nat /\ Chunk <= room /\ slot + Chunk <= Size /\ Chunk <= todo
         /\ room > 0 /\ todo > 0 => Chunk > 0
<1> DEFINE end == Size - slot
           n   == Least({room, end, todo})
<1>1. /\ room \in Nat /\ todo \in Nat /\ slot \in Nat
      /\ room \in Int /\ todo \in Int /\ end \in Int /\ end > 0
  BY ConstantsAreOK DEF ConstantsOK, LocalTypes
<1>2. Chunk = n
  BY DEF Chunk
<1> HIDE DEF end
<1>3. n \in {room, end, todo} /\ n <= room /\ n <= end /\ n <= todo
  BY <1>1, LeastOfThree
<1> HIDE DEF n
<1> QED
  BY <1>1, <1>2, <1>3, ConstantsAreOK DEF ConstantsOK, end

\* Advancing without the remainder.
LEMMA Advances ==
  ASSUME NEW at \in 0..Size-1, NEW n \in 0..Size
  PROVE  Advance(at, n) = Behind(at, n) /\ Behind(at, n) \in 0..Size-1
<1> USE ConstantsAreOK DEF ConstantsOK
<1>1. \A x \in Nat : x < Size => x % Size = x
  OBVIOUS
<1>2. \A x \in Nat : x >= Size /\ x < 2 * Size => x % Size = x - Size
  OBVIOUS
<1> QED
  BY <1>1, <1>2 DEF Advance, Behind

\* What StartRing leaves, started or refused.
LEMMA StartsRing ==
  ASSUME RingTypes, NEW rd \in 0..Size-1, NEW count \in 0..Size, StartRing(rd, count)
  PROVE  /\ tx_read' \in 0..Size-1 /\ tx_count' \in 0..Size /\ tx_size' \in 0..Packet
         /\ tx_size' <= tx_count' /\ tx_count' <= count
         /\ tx_busy' \in BOOLEAN
         /\ flight' \in Flights
<1> USE ConstantsAreOK DEF ConstantsOK
<1> DEFINE n == PacketOf(rd, count)
<1>1. n \in 0..Packet /\ n <= count
  BY Packets
<1>2. StartRing(rd, count)!1 \/ StartRing(rd, count)!2
  BY DEF StartRing
<1> HIDE DEF n
<1>3. Length(n) \in Nat
  BY <1>1 DEF Length
<1>4. CASE StartRing(rd, count)!1
  <2>1. flight' \in Flights
    BY <1>4, <1>3 DEF n, Flights
  <2>2. tx_busy' \in BOOLEAN
    BY <1>4
  <2> QED
    BY <1>4, <1>1, <2>1, <2>2 DEF n
<1>5. CASE StartRing(rd, count)!2
  <2>1. tx_read' \in 0..Size-1 /\ tx_count' = 0 /\ tx_size' = 0
    BY <1>5 DEF RingTypes
  <2>2. flight' = NoFlight /\ tx_busy' \in BOOLEAN
    BY <1>5
  <2>3. flight' \in Flights
    BY <2>2 DEF NoFlight, Flights
  <2>4. tx_count' \in 0..Size /\ tx_size' \in 0..Packet
    BY <2>1
  <2> QED
    BY <2>1, <2>2, <2>3, <2>4
<1> QED
  BY <1>2, <1>4, <1>5

-----------------------------------------------------------------------------
(* The invariant. *)

\* The serial port starts in the invariant.
LEMMA InitInv == Init => IInv
<1> SUFFICES ASSUME Init PROVE IInv
  OBVIOUS
<1> USE ConstantsAreOK DEF ConstantsOK, Init, NoFlight, Stale
<1>1. TypeInv
  BY DEF TypeInv, RingTypes, AsyncTypes, LocalTypes, FlagTypes, Flights, Pcs
<1>2. CountInv
  BY DEF CountInv
<1>3. Held = 0 /\ Base = 0 /\ Behind(0, 0) = 0
  BY DEF Held, Base, Behind
<1>4. RingInv
  BY <1>3 DEF RingInv
<1>5. AsyncInv /\ FlightInv /\ WireInv
  BY <1>3 DEF AsyncInv, FlightInv, WireInv
<1> QED
  BY <1>1, <1>2, <1>4, <1>5 DEF IInv, OrderInv

ThreadStep ==
    \/ \E n \in 1..MaxWrite : WriteBegin(n) \/ AsyncBegin(n)
    \/ FlushBegin \/ WriteWaitAsync \/ WriteLoop \/ WriteFull \/ WriteDrain
    \/ WriteCopy \/ WritePublish \/ WriteKick
    \/ AsyncCommit \/ AsyncStart \/ FlushEnd

DriverStep == SendByte \/ DoneMore \/ DoneLast \/ DoneAsync

\* Every step is one of the thread, one of the driver, or changes no more than the
\* mode.
LEMMA Steps ==
  ASSUME [Next]_vars
  PROVE  /\ ThreadStep \/ DriverStep \/ UNCHANGED <<ring, tx_busy, async, flight, pc, locals, hist>>
         /\ mayFail' = mayFail
  BY DEF Next, Step, Thread, Driver, ThreadStep, DriverStep, SetNonBlocking, vars

\* The mode stays a flag.
LEMMA ModeType == ASSUME FlagTypes, [Next]_vars PROVE nonblocking' \in BOOLEAN
  BY DEF Next, SetNonBlocking, vars, FlagTypes

\* Every step keeps the ring's types.
LEMMA RingTypesKept == ASSUME Uart, IInv, [Next]_vars PROVE RingTypes'
<1> USE ConstantsAreOK DEF ConstantsOK, ring
<1>0. RingTypes /\ tx_size \in 0..Size
  BY DEF IInv, TypeInv, RingTypes, CountInv
<1>1. CASE UNCHANGED ring
  BY <1>1, <1>0 DEF RingTypes
<1>2. CASE DoneMore
  <2> DEFINE rd    == Advance(tx_read, tx_size)
             count == tx_count - tx_size
  <2>1. rd \in 0..Size-1
    BY <1>0, Advances DEF RingTypes
  <2>2. count \in 0..Size
    BY <1>0 DEF IInv, CountInv, RingTypes
  <2>3. StartRing(rd, count)
    BY <1>2 DEF DoneMore
  <2> HIDE DEF rd, count
  <2>4. tx_read' \in 0..Size-1 /\ tx_count' \in 0..Size /\ tx_size' \in 0..Packet
    BY <1>0, <2>1, <2>2, <2>3, StartsRing
  <2> QED
    BY <1>0, <1>2, <2>4 DEF DoneMore, RingTypes
<1>3. CASE DoneLast
  <2>1. Advance(tx_read, tx_size) \in 0..Size-1
    BY <1>0, Advances DEF RingTypes
  <2> QED
    BY <1>0, <1>3, <2>1 DEF DoneLast, RingTypes
<1>4. CASE WriteFull \/ WriteKick
  <2>1. tx_read \in 0..Size-1 /\ tx_count \in 0..Size
    BY <1>0 DEF RingTypes
  <2>2. StartRing(tx_read, tx_count) => RingTypes'
    <3> SUFFICES ASSUME StartRing(tx_read, tx_count) PROVE RingTypes'
      OBVIOUS
    <3>1. tx_read' \in 0..Size-1 /\ tx_count' \in 0..Size /\ tx_size' \in 0..Packet
      BY <1>0, <2>1, StartsRing
    <3> QED
      BY <1>0, <1>4, <3>1 DEF WriteFull, WriteKick, RingTypes
  <2> QED
    BY <1>0, <1>4, <2>2 DEF WriteFull, WriteKick, RingTypes
<1>5. CASE WriteCopy
  <2>1. Chunk \in Nat /\ slot \in 0..Size-1 /\ slot + Chunk <= Size /\ Chunk <= todo
    BY Chunks DEF IInv, TypeInv, LocalTypes
  <2>2. issued \in Nat /\ todo \in Nat /\ issued + todo <= MaxBytes
    BY <1>5 DEF WriteCopy, IInv, TypeInv, CountInv, LocalTypes
  <2> DEFINE c == Chunk
  <2> HIDE DEF c
  <2>3. tx_write' \in 0..Size-1
    <3>1. c \in 0..Size
      BY <2>1 DEF c
    <3> QED
      BY <1>5, <2>1, <3>1, Advances DEF WriteCopy, c
  <2>4. \A s \in 0..Size-1 :
           (IF s \in slot..slot+c-1 THEN issued + 1 + s - slot ELSE tx_data[s]) \in 0..MaxBytes
    BY <1>0, <2>1, <2>2 DEF c, RingTypes
  <2>5. tx_data' = [s \in 0..Size-1 |->
           IF s \in slot..slot+c-1 THEN issued + 1 + s - slot ELSE tx_data[s]]
    BY <1>5 DEF WriteCopy, c
  <2>6. tx_data' \in [0..Size-1 -> 0..MaxBytes]
    BY <2>4, <2>5
  <2> QED
    BY <1>0, <1>5, <2>3, <2>6 DEF WriteCopy, RingTypes
<1>6. CASE WritePublish
  <2>1. Chunk \in Nat /\ Chunk <= room /\ room \in Nat /\ tx_count <= Size - room
    BY <1>6, Chunks DEF WritePublish, IInv, TypeInv, CountInv, LocalTypes
  <2> DEFINE c == Chunk
  <2> HIDE DEF c
  <2>2. tx_count' \in 0..Size
    BY <1>0, <1>6, <2>1 DEF WritePublish, RingTypes, c
  <2> QED
    BY <1>0, <1>6, <2>2 DEF WritePublish, RingTypes
<1>7. UNCHANGED ring \/ DoneMore \/ DoneLast \/ WriteFull \/ WriteKick \/ WriteCopy \/ WritePublish
  <2>1. CASE ThreadStep
    BY <2>1 DEF ThreadStep, WriteBegin, AsyncBegin, FlushBegin, WriteWaitAsync, WriteLoop,
                WriteDrain, AsyncCommit, AsyncStart, FlushEnd
  <2>2. CASE DriverStep
    BY <2>2 DEF DriverStep, SendByte, DoneAsync
  <2> QED
    BY <2>1, <2>2, Steps
<1> QED
  BY <1>1, <1>2, <1>3, <1>4, <1>5, <1>6, <1>7

\* Every step keeps the types of the asynchronous write.
LEMMA AsyncTypesKept == ASSUME Uart, IInv, [Next]_vars PROVE AsyncTypes'
<1> USE ConstantsAreOK DEF ConstantsOK, async
<1>0. AsyncTypes
  BY DEF IInv, TypeInv
<1>1. CASE UNCHANGED <<tx_data2, tx_size2>>
  BY <1>0, <1>1 DEF AsyncTypes
<1>2. CASE tx_data2' = <<>> /\ tx_size2' = 0
  <2>1. <<>> \in Seq(Nat) /\ Len(<<>>) = 0
    OBVIOUS
  <2> QED
    BY <1>2, <2>1 DEF AsyncTypes
<1>3. ASSUME NEW n \in 1..MaxWrite, AsyncBegin(n) PROVE AsyncTypes'
  <2>1. tx_data2' = [i \in 1..n |-> issued + i] /\ issued \in Nat /\ n \in Nat
    BY <1>3 DEF AsyncBegin, IInv, TypeInv, LocalTypes
  <2>2. tx_data2' \in Seq(Nat) /\ Len(tx_data2') = n
    BY <2>1
  <2> QED
    BY <1>0, <1>3, <2>2 DEF AsyncTypes, AsyncBegin
<1>4. CASE AsyncCommit
  <2>1. todo \in 0..MaxWrite
    BY DEF IInv, TypeInv, LocalTypes
  <2> QED
    BY <1>0, <1>4, <2>1 DEF AsyncTypes, AsyncCommit
<1>5. CASE ThreadStep
  <2>1. CASE AsyncStart
    BY <2>1, <1>1, <1>2 DEF AsyncStart
  <2>2. CASE \/ FlushBegin \/ WriteWaitAsync \/ WriteLoop \/ WriteFull
             \/ WriteDrain \/ WriteCopy \/ WritePublish \/ WriteKick \/ FlushEnd
    BY <2>2, <1>1 DEF FlushBegin, WriteWaitAsync, WriteLoop, WriteFull,
                WriteDrain, WriteCopy, WritePublish, WriteKick, FlushEnd
  <2>3. ASSUME NEW n \in 1..MaxWrite, WriteBegin(n) PROVE AsyncTypes'
    BY <2>3, <1>1 DEF WriteBegin
  <2> QED
    BY <1>5, <1>3, <1>4, <2>1, <2>2, <2>3 DEF ThreadStep
<1>6. CASE DriverStep
  <2>1. CASE SendByte
    BY <2>1, <1>1 DEF SendByte
  <2>2. EndAsync => AsyncTypes'
    BY <1>2 DEF EndAsync
  <2>3. UNCHANGED async => AsyncTypes'
    BY <1>1
  <2>4. CASE DoneMore
    BY <2>2, <2>3, <2>4 DEF DoneMore
  <2>5. CASE DoneLast
    BY <2>2, <2>3, <2>5 DEF DoneLast
  <2>6. CASE DoneAsync
    BY <2>2, <2>6 DEF DoneAsync
  <2> QED
    BY <1>6, <2>1, <2>4, <2>5, <2>6 DEF DriverStep
<1>7. CASE UNCHANGED <<ring, tx_busy, async, flight, pc, locals, hist>>
  BY <1>7, <1>1
<1> QED
  BY <1>5, <1>6, <1>7, Steps

\* Every step keeps the types of the thread's locals.
LEMMA LocalTypesKept == ASSUME Uart, IInv, [Next]_vars PROVE LocalTypes'
<1> USE ConstantsAreOK DEF ConstantsOK, locals, hist, Goto, Pcs
<1>0. LocalTypes /\ tx_count \in 0..Size /\ tx_write \in 0..Size-1
  BY DEF IInv, TypeInv, RingTypes
<1>1. CASE UNCHANGED <<pc, locals, issued>>
  BY <1>0, <1>1 DEF LocalTypes
<1>2. ASSUME NEW n \in 1..MaxWrite, WriteBegin(n) \/ AsyncBegin(n) PROVE LocalTypes'
  BY <1>0, <1>2 DEF LocalTypes, WriteBegin, AsyncBegin
<1>3. CASE WriteLoop
  BY <1>0, <1>3 DEF LocalTypes, WriteLoop
<1>4. CASE WriteDrain
  BY <1>0, <1>4 DEF LocalTypes, WriteDrain
<1>5. CASE WriteCopy \/ WritePublish
  <2>1. Chunk \in Nat /\ Chunk <= todo
    BY <1>0, Chunks
  <2> DEFINE c == Chunk
  <2> HIDE DEF c
  <2>2. CASE WriteCopy
    <3>1. issued + todo <= MaxBytes
      BY <2>2 DEF WriteCopy, IInv, CountInv
    <3>2. issued' \in 0..MaxBytes
      BY <1>0, <2>1, <2>2, <3>1 DEF LocalTypes, WriteCopy, c
    <3> QED
      BY <1>0, <2>2, <3>2 DEF LocalTypes, WriteCopy
  <2>3. CASE WritePublish
    <3>1. todo' \in 0..MaxWrite
      BY <1>0, <2>1, <2>3 DEF LocalTypes, WritePublish, c
    <3> QED
      BY <1>0, <2>3, <3>1 DEF LocalTypes, WritePublish
  <2> QED
    BY <1>5, <2>2, <2>3
<1>6. CASE \/ WriteWaitAsync \/ FlushBegin \/ WriteFull \/ WriteKick \/ AsyncCommit
           \/ AsyncStart \/ FlushEnd
  BY <1>0, <1>6 DEF LocalTypes, WriteWaitAsync, FlushBegin, WriteFull, WriteKick, AsyncCommit,
                    AsyncStart, FlushEnd
<1>7. CASE ThreadStep
  BY <1>7, <1>2, <1>3, <1>4, <1>5, <1>6 DEF ThreadStep
<1>8. CASE DriverStep
  BY <1>8, <1>1 DEF DriverStep, SendByte, DoneMore, DoneLast, DoneAsync
<1> QED
  BY <1>1, <1>7, <1>8, Steps

\* Every step keeps the flags.
LEMMA FlagTypesKept == ASSUME Uart, IInv, [Next]_vars PROVE FlagTypes'
<1>0. FlagTypes
  BY DEF IInv, TypeInv
<1>1. tx_busy' \in BOOLEAN
  <2>1. CASE ThreadStep
    BY <1>0, <2>1 DEF FlagTypes, ThreadStep, StartRing, StartAsync, WriteBegin, AsyncBegin,
        FlushBegin, WriteWaitAsync, WriteLoop, WriteFull, WriteDrain, WriteCopy, WritePublish,
        WriteKick, AsyncCommit, AsyncStart, FlushEnd
  <2>2. CASE DriverStep
    BY <1>0, <2>2 DEF FlagTypes, DriverStep, StartRing, StartAsync, SendByte, DoneMore,
        DoneLast, DoneAsync
  <2> QED
    BY <1>0, <2>1, <2>2, Steps DEF FlagTypes
<1>2. completion' \in BOOLEAN
  <2>1. CASE ThreadStep
    BY <1>0, <2>1 DEF FlagTypes, ThreadStep, WriteBegin, AsyncBegin, async,
        FlushBegin, WriteWaitAsync, WriteLoop, WriteFull, WriteDrain, WriteCopy, WritePublish,
        WriteKick, AsyncCommit, AsyncStart, FlushEnd
  <2>2. CASE DriverStep
    BY <1>0, <2>2 DEF FlagTypes, DriverStep, async, SendByte, DoneMore, DoneLast, DoneAsync,
        EndAsync
  <2> QED
    BY <1>0, <2>1, <2>2, Steps DEF FlagTypes, async
<1> QED
  BY <1>0, <1>1, <1>2, Steps, ModeType DEF FlagTypes

\* The driver's transfer and the bytes sent keep their types.
LEMMA FlightTypesKept ==
  ASSUME Uart, IInv, [Next]_vars PROVE flight' \in Flights /\ wire' \in Seq(Nat)
<1> USE ConstantsAreOK DEF ConstantsOK, hist
<1>0. /\ RingTypes /\ AsyncTypes /\ flight \in Flights /\ wire \in Seq(Nat)
      /\ tx_size \in 0..Size /\ tx_read \in 0..Size-1 /\ tx_count \in 0..Size
  BY DEF IInv, TypeInv, RingTypes, CountInv
<1>1. NoFlight \in Flights
  BY DEF NoFlight, Flights
<1>2. CASE UNCHANGED <<flight, wire>>
  BY <1>0, <1>2
<1>3. CASE SendByte
  <2>1. flight' \in Flights
    <3>1. flight.at + 1 \in Nat /\ flight.left - 1 \in Nat
      BY <1>0, <1>3 DEF SendByte, Flights
    <3> QED
      BY <1>0, <1>3, <3>1 DEF SendByte, Flights
  <2>2. CASE mayFail
    BY <1>0, <1>3, <2>1, <2>2 DEF SendByte
  <2>3. CASE ~mayFail
    <3>1. flight.from \in {"none", "ring", "async"} /\ flight.at \in Nat /\ flight.left \in Nat
      BY <1>0 DEF Flights
    <3>2. flight.left > 0
      BY <1>3 DEF SendByte
    <3>3. FlightInv /\ AsyncInv
      BY <2>3 DEF IInv, OrderInv
    <3>4. CASE flight.from = "ring"
      <4>1. flight.at \in 0..Size-1
        BY <1>0, <3>1, <3>2, <3>3, <3>4 DEF FlightInv
      <4>2. tx_data[flight.at] \in Nat
        BY <1>0, <4>1 DEF RingTypes
      <4>3. wire' = Append(wire, tx_data[flight.at])
        BY <1>3, <2>3, <3>4, <4>1 DEF SendByte
      <4> QED
        BY <1>0, <2>1, <4>2, <4>3
    <3>5. CASE flight.from = "async"
      <4>1. flight.at + 1 <= tx_size2 /\ tx_size2 # 0
        BY <1>0, <3>1, <3>2, <3>3, <3>5 DEF FlightInv, AsyncTypes
      <4>2. tx_data2 # <<>> /\ tx_size2 = Len(tx_data2)
        BY <3>3, <4>1 DEF AsyncInv
      <4>3. tx_data2[flight.at + 1] \in Nat
        BY <1>0, <3>1, <4>1, <4>2 DEF AsyncTypes
      <4>4. wire' = Append(wire, tx_data2[flight.at + 1])
        BY <1>3, <2>3, <3>5, <4>2 DEF SendByte
      <4> QED
        BY <1>0, <2>1, <4>3, <4>4
    <3>6. CASE flight.from = "none"
      BY <3>2, <3>3, <3>6 DEF FlightInv
    <3> QED
      BY <3>1, <3>4, <3>5, <3>6
  <2> QED
    BY <2>2, <2>3
<1>4. CASE StartAsync /\ UNCHANGED wire
  <2>1. tx_size2 \in Nat
    BY <1>0 DEF AsyncTypes
  <2>2. flight' \in Flights
    BY <1>1, <1>4, <2>1 DEF StartAsync, Flights
  <2> QED
    BY <1>0, <1>4, <2>2
<1>5. ASSUME NEW rd \in 0..Size-1, NEW count \in 0..Size, StartRing(rd, count), UNCHANGED wire
      PROVE  flight' \in Flights /\ wire' \in Seq(Nat)
  BY <1>0, <1>5, StartsRing
<1>6. CASE DoneMore
  <2> DEFINE rd    == Advance(tx_read, tx_size)
             count == tx_count - tx_size
  <2>1. rd \in 0..Size-1 /\ tx_size <= tx_count
    BY <1>0, Advances DEF IInv, CountInv
  <2>2. count \in 0..Size
    BY <1>0, <2>1
  <2>3. StartRing(rd, count) /\ UNCHANGED wire
    BY <1>6 DEF DoneMore
  <2> HIDE DEF rd, count
  <2> QED
    BY <1>5, <2>1, <2>2, <2>3
<1>7. CASE ThreadStep
  <2>1. CASE \/ FlushBegin \/ WriteWaitAsync \/ WriteLoop \/ WriteDrain \/ WriteCopy
             \/ WritePublish \/ AsyncCommit \/ FlushEnd
    BY <2>1, <1>2 DEF FlushBegin, WriteWaitAsync, WriteLoop, WriteDrain, WriteCopy,
                WritePublish, AsyncCommit, FlushEnd
  <2>2. ASSUME NEW n \in 1..MaxWrite, WriteBegin(n) \/ AsyncBegin(n)
        PROVE  flight' \in Flights /\ wire' \in Seq(Nat)
    BY <2>2, <1>2 DEF WriteBegin, AsyncBegin
  <2>3. CASE WriteFull \/ WriteKick
    <3>1. CASE StartRing(tx_read, tx_count) /\ UNCHANGED wire
      BY <1>0, <1>5, <3>1
    <3> QED
      BY <1>2, <2>3, <3>1 DEF WriteFull, WriteKick
  <2>4. CASE AsyncStart
    <3>1. (UNCHANGED flight \/ StartAsync) /\ UNCHANGED wire
      BY <2>4 DEF AsyncStart
    <3> QED
      BY <1>2, <1>4, <3>1
  <2> QED
    BY <1>7, <2>1, <2>2, <2>3, <2>4 DEF ThreadStep
<1>8. CASE DriverStep
  <2>1. CASE flight' = NoFlight /\ UNCHANGED wire
    BY <1>0, <1>1, <2>1
  <2>2. CASE DoneLast
    <3>1. (flight' = NoFlight \/ StartAsync) /\ UNCHANGED wire
      BY <2>2 DEF DoneLast
    <3> QED
      BY <1>4, <2>1, <3>1
  <2>3. CASE DoneAsync
    <3>1. flight' = NoFlight /\ UNCHANGED wire
      BY <2>3 DEF DoneAsync
    <3> QED
      BY <2>1, <3>1
  <2> QED
    BY <1>3, <1>6, <1>8, <2>2, <2>3 DEF DriverStep
<1> QED
  BY <1>2, <1>7, <1>8, Steps

\* Chunk is that of the locals.
LEMMA ChunkKept == ASSUME UNCHANGED locals PROVE Chunk' = Chunk
  BY DEF locals, Chunk

\* Every step keeps the counters fitting.
LEMMA CountKept == ASSUME Uart, IInv, [Next]_vars PROVE CountInv'
<1> USE ConstantsAreOK DEF ConstantsOK
<1>0. /\ CountInv /\ RingTypes /\ LocalTypes /\ wire \in Seq(Nat)
      /\ tx_size \in 0..Size /\ tx_read \in 0..Size-1 /\ tx_count \in 0..Size
      /\ todo \in Nat /\ room \in 0..Size /\ issued \in Nat /\ mayFail' = mayFail
  BY Steps DEF IInv, TypeInv, RingTypes, LocalTypes, CountInv
<1>1. mayFail' => wire' = <<>>
  <2>1. CASE ThreadStep
    BY <1>0, <2>1 DEF CountInv, hist, ThreadStep, WriteBegin, AsyncBegin,
        FlushBegin, WriteWaitAsync, WriteLoop, WriteFull, WriteDrain, WriteCopy, WritePublish,
        WriteKick, AsyncCommit, AsyncStart, FlushEnd
  <2>2. CASE DriverStep
    BY <1>0, <2>2 DEF CountInv, hist, DriverStep, SendByte, DoneMore, DoneLast, DoneAsync
  <2> QED
    BY <1>0, <2>1, <2>2, Steps DEF CountInv, hist
<1>2. ASSUME /\ tx_size' <= tx_count' /\ tx_count' <= tx_count /\ tx_count' \in Nat
             /\ UNCHANGED <<pc, locals, issued>>
      PROVE  CountInv'
  <2>1. Chunk' = Chunk
    BY <1>2, ChunkKept
  <2> QED
    BY <1>0, <1>1, <1>2, <2>1 DEF CountInv, locals
<1>3. CASE ThreadStep
  <2>1. ASSUME NEW n \in 1..MaxWrite, WriteBegin(n) PROVE CountInv'
    BY <1>0, <1>1, <2>1 DEF CountInv, WriteBegin, Goto, ring, hist
  <2>2. ASSUME NEW n \in 1..MaxWrite, AsyncBegin(n) PROVE CountInv'
    BY <1>0, <1>1, <2>2 DEF CountInv, AsyncBegin, Goto, ring
  <2>3. CASE FlushBegin \/ FlushEnd \/ WriteWaitAsync \/ AsyncCommit
    BY <1>0, <1>1, <2>3 DEF CountInv, FlushBegin, FlushEnd, WriteWaitAsync, AsyncCommit, Goto,
                            ring, locals, hist
  <2>4. CASE WriteLoop \/ WriteDrain
    <3>1. /\ tx_size' <= tx_count'
          /\ pc' = "copy" => room' > 0 /\ tx_count' <= Size - room'
      BY <1>0, <2>4 DEF CountInv, WriteLoop, WriteDrain, Goto, ring
    <3>2. pc' \in {"copy", "full", "kick"}
      BY <2>4 DEF WriteLoop, WriteDrain, Goto
    <3>3. pc' \in {"copy", "full"} => todo' > 0 /\ issued' + todo' <= MaxBytes
      BY <1>0, <2>4 DEF CountInv, WriteLoop, WriteDrain, Goto, hist
    <3> QED
      BY <1>1, <3>1, <3>2, <3>3 DEF CountInv
  <2>5. CASE WriteFull \/ WriteKick
    <3>1. CASE StartRing(tx_read, tx_count)
      <4>1. tx_size' <= tx_count' /\ tx_count' <= tx_count
        BY <1>0, <3>1, StartsRing
      <4> QED
        BY <1>0, <1>1, <2>5, <4>1 DEF CountInv, WriteFull, WriteKick, Goto, locals, hist
    <3>2. CASE UNCHANGED <<tx_read, tx_count, tx_size, tx_busy, flight>>
      BY <1>0, <1>1, <2>5, <3>2 DEF CountInv, WriteFull, WriteKick, Goto, locals, hist
    <3> QED
      BY <2>5, <3>1, <3>2 DEF WriteFull, WriteKick
  <2>6. CASE WriteCopy
    <3>1. Chunk' = Chunk /\ Chunk \in Nat
      BY <1>0, <2>6, ChunkKept, Chunks DEF WriteCopy
    <3> DEFINE c == Chunk
    <3> HIDE DEF c
    <3>2. issued' + todo' - Chunk' <= MaxBytes
      BY <1>0, <2>6, <3>1 DEF CountInv, WriteCopy, locals, c
    <3> QED
      BY <1>0, <1>1, <2>6, <3>2 DEF CountInv, WriteCopy, Goto, locals
  <2>7. CASE WritePublish
    <3>1. Chunk \in Nat
      BY <1>0, Chunks
    <3> DEFINE c == Chunk
    <3> HIDE DEF c
    <3>2. issued' + todo' <= MaxBytes /\ tx_size' <= tx_count'
      BY <1>0, <2>7, <3>1 DEF CountInv, WritePublish, hist, c
    <3> QED
      BY <1>1, <2>7, <3>2 DEF CountInv, WritePublish, Goto
  <2>8. CASE AsyncStart
    BY <1>0, <1>1, <2>8 DEF CountInv, AsyncStart, Goto, ring
  <2> QED
    BY <1>3, <2>1, <2>2, <2>3, <2>4, <2>5, <2>6, <2>7, <2>8 DEF ThreadStep
<1>4. CASE DriverStep
  <2>1. CASE SendByte \/ DoneAsync
    BY <1>0, <1>2, <2>1 DEF SendByte, DoneAsync, ring, CountInv
  <2>2. CASE DoneMore
    <3> DEFINE rd    == Advance(tx_read, tx_size)
               count == tx_count - tx_size
    <3>1. rd \in 0..Size-1 /\ tx_size <= tx_count
      BY <1>0, Advances DEF CountInv
    <3>2. count \in 0..Size /\ count <= tx_count
      BY <1>0, <3>1
    <3>3. StartRing(rd, count) /\ UNCHANGED <<pc, locals, issued>>
      BY <2>2 DEF DoneMore
    <3> HIDE DEF rd, count
    <3>4. tx_size' <= tx_count' /\ tx_count' <= count /\ tx_count' \in 0..Size
      BY <1>0, <3>1, <3>2, <3>3, StartsRing
    <3>5. tx_count' <= tx_count /\ tx_count' \in Nat
      BY <1>0, <3>2, <3>4
    <3> QED
      BY <1>2, <3>3, <3>4, <3>5
  <2>3. CASE DoneLast
    BY <1>0, <1>2, <2>3 DEF DoneLast
  <2> QED
    BY <1>4, <2>1, <2>2, <2>3 DEF DriverStep
<1>5. CASE UNCHANGED <<ring, tx_busy, async, flight, pc, locals, hist>>
  BY <1>0, <1>2, <1>5 DEF ring, CountInv, hist
<1> QED
  BY <1>3, <1>4, <1>5, Steps

\* What the invariant says of a link that does not fail.
LEMMA WhenUp ==
  ASSUME IInv, ~mayFail
  PROVE  /\ RingInv /\ AsyncInv /\ FlightInv /\ WireInv
         /\ tx_size \in 0..Size /\ tx_size <= tx_count /\ tx_count \in 0..Size
         /\ tx_read \in 0..Size-1 /\ tx_write \in 0..Size-1
         /\ Held \in 0..Size /\ tx_count <= Held /\ Base \in Nat
         /\ issued \in Nat /\ Len(tx_data2) \in Nat /\ issued = Base + Held + Len(tx_data2)
         /\ pc # "publish" => Held = tx_count
         /\ pc = "publish" => Held = tx_count + Chunk
         /\ flight.from \in {"none", "ring", "async"} /\ flight.at \in Nat /\ flight.left \in Nat
         /\ tx_data2 \in Seq(Nat) /\ tx_size2 \in Nat /\ wire \in Seq(Nat) /\ Len(wire) \in Nat
<1> USE ConstantsAreOK DEF ConstantsOK
<1>1. RingInv /\ AsyncInv /\ FlightInv /\ WireInv
  BY DEF IInv, OrderInv
<1>2. /\ tx_size \in 0..Size /\ tx_size <= tx_count /\ tx_count \in 0..Size
      /\ tx_read \in 0..Size-1 /\ tx_write \in 0..Size-1
  BY DEF IInv, TypeInv, RingTypes, CountInv
<1>3. /\ issued \in Nat /\ Len(tx_data2) \in Nat /\ tx_data2 \in Seq(Nat) /\ tx_size2 \in Nat
      /\ wire \in Seq(Nat) /\ Len(wire) \in Nat
  BY DEF IInv, TypeInv, LocalTypes, AsyncTypes
<1>4. Chunk \in Nat
  BY Chunks DEF IInv, TypeInv
<1> DEFINE c == Chunk
<1> HIDE DEF c
<1>5. /\ pc # "publish" => Held = tx_count
      /\ pc = "publish" => Held = tx_count + c
  BY <1>2 DEF Held, c
<1>6. Held \in Nat /\ tx_count <= Held
  BY <1>2, <1>4, <1>5 DEF c
<1>7. Held <= Size /\ Base >= 0 /\ Base = issued - Len(tx_data2) - Held
  BY <1>1 DEF RingInv, Base
<1>8. Base \in Nat /\ issued = Base + Held + Len(tx_data2)
  BY <1>3, <1>6, <1>7
<1>9. flight.from \in {"none", "ring", "async"} /\ flight.at \in Nat /\ flight.left \in Nat
  BY DEF IInv, TypeInv, Flights
<1> QED
  BY <1>1, <1>2, <1>3, <1>5, <1>6, <1>7, <1>8, <1>9 DEF c

\* A packet that is started.
LEMMA StartsWhenUp ==
  ASSUME Uart, ~mayFail, NEW rd \in 0..Size-1, NEW count \in 1..Size, StartRing(rd, count)
  PROVE  /\ tx_read' = rd /\ tx_count' = count /\ tx_busy'
         /\ tx_size' \in Nat /\ tx_size' > 0 /\ rd + tx_size' <= Size
         /\ flight'.from = "ring" /\ flight'.at = rd /\ flight'.left = tx_size'
<1> USE ConstantsAreOK DEF ConstantsOK
<1> DEFINE n == PacketOf(rd, count)
<1>1. n \in Nat /\ n > 0 /\ rd + n <= Size
  BY Packets
<1>2. StartRing(rd, count)!1
  BY DEF StartRing
<1> HIDE DEF n
<1>3. Length(n) = n
  BY <1>1 DEF Length
<1>4. tx_size' = n /\ flight' = [from |-> "ring", at |-> rd, left |-> n]
  BY <1>2, <1>3 DEF n
<1> QED
  BY <1>1, <1>2, <1>4

\* A packet of the ring is over: the rest is where it was.
LEMMA PacketOver ==
  ASSUME IInv, ~mayFail,
         tx_read' = Advance(tx_read, tx_size), tx_count' = tx_count - tx_size,
         UNCHANGED <<tx_data, tx_write, tx_data2, pc, locals, issued>>
  PROVE  RingInv' /\ Held' = Held - tx_size /\ Base' = Base + tx_size
<1> USE ConstantsAreOK DEF ConstantsOK
<1>1. /\ RingInv /\ tx_size \in 0..Size /\ tx_size <= tx_count /\ tx_count \in 0..Size
      /\ tx_read \in 0..Size-1 /\ Held \in 0..Size /\ tx_count <= Held /\ Base \in Nat
      /\ issued \in Nat /\ Len(tx_data2) \in Nat
      /\ pc # "publish" => Held = tx_count
      /\ pc = "publish" => Held = tx_count + Chunk
  BY WhenUp
<1>2. Chunk' = Chunk /\ Chunk \in Nat
  BY ChunkKept, Chunks DEF IInv, TypeInv
<1> DEFINE c == Chunk
<1> HIDE DEF c
<1>3. Held' = Held - tx_size
  <2>1. Held' = tx_count' + IF pc = "publish" THEN c ELSE 0
    BY <1>2 DEF Held, c
  <2> QED
    BY <1>1, <1>2, <2>1 DEF c
<1>4. Base' = Base + tx_size
  BY <1>1, <1>3 DEF Base
<1>5. tx_read' = Behind(tx_read, tx_size) /\ tx_read' \in 0..Size-1
  BY <1>1, Advances
<1>6. \A k \in 0..Size : k + tx_size <= Held => Behind(tx_read', k) = Behind(tx_read, k + tx_size)
  BY <1>1, <1>5 DEF Behind
<1>7. tx_write' = Behind(tx_read', Held')
  <2>1. tx_write = Behind(tx_read, Held)
    BY <1>1 DEF RingInv
  <2> DEFINE h == Held - tx_size
  <2>2. h \in 0..Size /\ h + tx_size = Held
    BY <1>1
  <2>3. Held' = h
    BY <1>3
  <2> HIDE DEF h
  <2>4. Behind(tx_read', h) = Behind(tx_read, h + tx_size)
    BY <1>1, <1>6, <2>2
  <2>5. Behind(tx_read', Held') = tx_write
    BY <2>1, <2>2, <2>3, <2>4
  <2> QED
    BY <2>5
<1>8. \A k \in 0..Size-1 : k < Held' => tx_data'[Behind(tx_read', k)] = Base' + 1 + k
  <2> SUFFICES ASSUME NEW k \in 0..Size-1, k < Held'
               PROVE  tx_data[Behind(tx_read', k)] = Base' + 1 + k
    OBVIOUS
  <2>1. k + tx_size \in 0..Size-1 /\ k + tx_size < Held
    BY <1>1, <1>3
  <2>2. tx_data[Behind(tx_read, k + tx_size)] = Base + 1 + (k + tx_size)
    BY <1>1, <2>1 DEF RingInv
  <2> QED
    BY <1>1, <1>4, <1>6, <2>1, <2>2
<1>9. Base' >= 0 /\ Held' <= Size
  BY <1>1, <1>3, <1>4
<1>10. pc' = "copy" => slot' = tx_write'
  BY <1>1 DEF RingInv, locals
<1> QED
  BY <1>3, <1>4, <1>7, <1>8, <1>9, <1>10 DEF RingInv

\* What is in the ring stays, if the slots and the two numbers do.
LEMMA RingStays ==
  ASSUME RingInv, UNCHANGED <<tx_data, tx_read, tx_write>>, Held' = Held, Base' = Base,
         pc' = "copy" => slot' = tx_write'
  PROVE  RingInv'
  BY DEF RingInv

\* write copies a chunk behind what the ring holds.
LEMMA CopyKeepsRing ==
  ASSUME Uart, IInv, ~mayFail, WriteCopy
  PROVE  RingInv' /\ Held' = Held + Chunk /\ Base' = Base /\ issued' = issued + Chunk
<1> USE ConstantsAreOK DEF ConstantsOK
<1> DEFINE c == Chunk
<1>1. /\ RingInv /\ AsyncInv /\ tx_count \in 0..Size /\ tx_read \in 0..Size-1
      /\ tx_write \in 0..Size-1 /\ Held \in 0..Size /\ Base \in Nat /\ issued \in Nat
      /\ issued = Base + Held + Len(tx_data2) /\ Len(tx_data2) \in Nat
      /\ pc # "publish" => Held = tx_count
  BY WhenUp
<1>2. pc = "copy" /\ pc' = "publish" /\ UNCHANGED <<tx_read, tx_count, tx_data2, locals>>
  BY DEF WriteCopy, Goto, async
<1>3. tx_data2 = <<>> /\ Len(tx_data2) = 0 /\ slot = tx_write /\ Held = tx_count
  BY <1>1, <1>2 DEF AsyncInv, RingInv
<1>4. c \in Nat /\ c <= room /\ slot + c <= Size /\ room \in Nat /\ tx_count <= Size - room
  BY <1>2, Chunks DEF IInv, TypeInv, LocalTypes, CountInv
<1>5. Chunk' = c
  BY <1>2, ChunkKept
<1> HIDE DEF c
<1>6. Held' = Held + c /\ issued' = issued + c
  <2>1. Held' = tx_count + Chunk'
    BY <1>2 DEF Held
  <2> QED
    BY <1>3, <1>5, <2>1 DEF WriteCopy, c
<1>7. Base' = Base
  BY <1>1, <1>2, <1>4, <1>6 DEF Base
<1>8. Held + c <= Size
  BY <1>1, <1>3, <1>4
<1>9. tx_write' = Behind(tx_read, Held + c)
  <2>1. tx_write' = Advance(slot, c)
    BY DEF WriteCopy, c
  <2>2. tx_write' = Behind(slot, c)
    BY <1>1, <1>3, <1>4, <2>1, Advances
  <2>3. slot = Behind(tx_read, Held)
    BY <1>1, <1>3 DEF RingInv
  <2> QED
    BY <1>1, <1>4, <1>8, <2>2, <2>3 DEF Behind
<1>10. \A k \in 0..Size-1 : k < Held + c => tx_data'[Behind(tx_read, k)] = Base + 1 + k
  <2> SUFFICES ASSUME NEW k \in 0..Size-1, k < Held + c
               PROVE  tx_data'[Behind(tx_read, k)] = Base + 1 + k
    OBVIOUS
  <2> DEFINE s == Behind(tx_read, k)
  <2>1. s \in 0..Size-1
    BY <1>1 DEF Behind
  <2>2. slot = Behind(tx_read, Held)
    BY <1>1, <1>3 DEF RingInv
  <2>3. tx_data'[s] = IF s \in slot..slot+c-1 THEN issued + 1 + s - slot ELSE tx_data[s]
    BY <2>1 DEF WriteCopy, c
  <2>4. CASE k < Held
    <3>1. s \notin slot..slot+c-1
      BY <1>1, <1>4, <1>8, <2>2, <2>4 DEF Behind
    <3>2. tx_data[s] = Base + 1 + k
      BY <1>1, <2>4 DEF RingInv
    <3> QED
      BY <2>3, <3>1, <3>2
  <2>5. CASE k >= Held
    <3>1. s = slot + (k - Held) /\ s \in slot..slot+c-1
      BY <1>1, <1>3, <1>4, <1>8, <2>2, <2>5 DEF Behind
    <3> QED
      BY <1>1, <1>3, <2>3, <3>1
  <2> QED
    BY <1>1, <2>4, <2>5
<1>11. RingInv'
  BY <1>1, <1>2, <1>6, <1>7, <1>8, <1>9, <1>10 DEF RingInv
<1> QED
  BY <1>6, <1>7, <1>11 DEF c

\* The thread's other steps leave the ring as it is, and move numbers between the
\* rest at most.
LEMMA ThreadKeepsRing ==
  ASSUME Uart, IInv, ~mayFail, mayFail' = mayFail, ThreadStep, ~WriteCopy
  PROVE  RingInv' /\ Held' = Held /\ Base' = Base /\ UNCHANGED wire
<1> USE ConstantsAreOK DEF ConstantsOK
<1>0. /\ RingInv /\ AsyncInv /\ FlightInv /\ tx_count \in 0..Size /\ tx_read \in 0..Size-1
      /\ tx_write \in 0..Size-1 /\ Held \in 0..Size /\ Base \in Nat /\ issued \in Nat
      /\ issued = Base + Held + Len(tx_data2) /\ Len(tx_data2) \in Nat
      /\ pc # "publish" => Held = tx_count
      /\ pc = "publish" => Held = tx_count + Chunk
  BY WhenUp
<1>w. UNCHANGED wire
  BY DEF ThreadStep, WriteBegin, AsyncBegin, hist,
        FlushBegin, WriteWaitAsync, WriteLoop, WriteFull, WriteDrain, WriteCopy, WritePublish,
        WriteKick, AsyncCommit, AsyncStart, FlushEnd
<1>1. ASSUME UNCHANGED <<tx_data, tx_read, tx_write, tx_count, tx_data2, issued>>,
             pc # "publish", pc' # "publish", pc' = "copy" => slot' = tx_write
      PROVE  RingInv' /\ Held' = Held /\ Base' = Base
  <2>1. Held' = Held
    BY <1>0, <1>1 DEF Held
  <2>2. Base' = Base
    BY <1>1, <2>1 DEF Base
  <2> QED
    BY <1>0, <1>1, <2>1, <2>2, RingStays
<1>2. ASSUME NEW n \in 1..MaxWrite, WriteBegin(n) PROVE RingInv' /\ Held' = Held /\ Base' = Base
  BY <1>1, <1>2 DEF WriteBegin, Goto, ring, async, hist
<1>3. ASSUME NEW n \in 1..MaxWrite, AsyncBegin(n) PROVE RingInv' /\ Held' = Held /\ Base' = Base
  <2>1. pc = "idle" /\ pc' = "commit" /\ UNCHANGED ring /\ issued' = issued + n
    BY <1>3 DEF AsyncBegin, Goto
  <2>2. Len(tx_data2) = 0 /\ Len(tx_data2') = n
    <3>1. tx_data2 = <<>>
      BY <1>0, <1>3, <2>1 DEF AsyncBegin, AsyncInv
    <3>2. tx_data2' = [i \in 1..n |-> issued + i] /\ n \in Nat
      BY <1>3 DEF AsyncBegin
    <3> QED
      BY <3>1, <3>2
  <2>3. Held' = Held
    BY <1>0, <2>1 DEF Held, ring
  <2>4. Base' = Base
    BY <1>0, <2>1, <2>2, <2>3 DEF Base
  <2> QED
    BY <1>0, <2>1, <2>3, <2>4, RingStays DEF ring
<1>4. CASE FlushBegin \/ FlushEnd \/ WriteWaitAsync \/ AsyncCommit \/ WriteLoop \/ WriteDrain
  BY <1>1, <1>4 DEF FlushBegin, FlushEnd, WriteWaitAsync, AsyncCommit, WriteLoop, WriteDrain,
                    Goto, ring, async, hist
<1>5. CASE WriteFull \/ WriteKick
  <2>1. UNCHANGED <<tx_read, tx_count>>
    <3>1. StartRing(tx_read, tx_count) => UNCHANGED <<tx_read, tx_count>>
      BY DEF StartRing
    <3> QED
      BY <1>5, <3>1 DEF WriteFull, WriteKick
  <2>2. UNCHANGED <<tx_data, tx_write, tx_data2, issued>>
    BY <1>5 DEF WriteFull, WriteKick, async, hist
  <2>3. pc # "publish" /\ pc' # "publish" /\ pc' # "copy"
    BY <1>5 DEF WriteFull, WriteKick, Goto
  <2>4. UNCHANGED <<tx_data, tx_read, tx_write, tx_count, tx_data2, issued>>
    BY <2>1, <2>2
  <2> QED
    BY <1>1, <1>w, <2>3, <2>4
<1>6. CASE WritePublish
  <2>1. Held' = Held
    <3>1. pc = "publish" /\ pc' = "loop" /\ tx_count' = tx_count + Chunk
      BY <1>6 DEF WritePublish, Goto
    <3>2. tx_count' \in Nat
      BY RingTypesKept, <1>0, <1>6, <3>1, Chunks DEF IInv, TypeInv
    <3> QED
      BY <1>0, <3>1, <3>2 DEF Held
  <2>2. Base' = Base
    BY <1>6, <2>1 DEF Base, WritePublish, async, hist
  <2>3. UNCHANGED <<tx_data, tx_read, tx_write>> /\ pc' # "copy"
    BY <1>6 DEF WritePublish, Goto
  <2> QED
    BY <1>0, <1>w, <2>1, <2>2, <2>3, RingStays
<1>7. CASE AsyncStart
  <2>1. UNCHANGED async
    BY <1>7 DEF AsyncStart
  <2> QED
    BY <1>1, <1>7, <2>1 DEF AsyncStart, Goto, ring, async
<1> QED
  BY <1>2, <1>3, <1>4, <1>5, <1>6, <1>7, <1>w DEF ThreadStep

\* While the thread fills the ring there is no asynchronous write.
LEMMA NoBuffer ==
  ASSUME IInv, ~mayFail
  PROVE  /\ tx_data2 = <<>> <=> Len(tx_data2) = 0
         /\ pc \in {"loop", "full", "drain", "copy", "publish", "kick"} =>
               tx_data2 = <<>> /\ tx_size2 = 0 /\ flight.from # "async"
         /\ tx_size2 # 0 => pc # "commit" /\ tx_data2 # <<>> /\ tx_size2 = Len(tx_data2)
         /\ tx_size2 = 0 /\ pc # "commit" => tx_data2 = <<>>
<1>1. AsyncInv /\ FlightInv /\ tx_data2 \in Seq(Nat)
  BY WhenUp
<1>2. tx_data2 = <<>> <=> Len(tx_data2) = 0
  BY <1>1
<1> QED
  BY <1>1, <1>2 DEF AsyncInv, FlightInv

\* The thread's steps keep the asynchronous write in its place.
LEMMA ThreadKeepsAsync ==
  ASSUME Uart, IInv, ~mayFail, mayFail' = mayFail, ThreadStep
  PROVE  AsyncInv'
<1> USE DEF Goto
<1>0. /\ AsyncInv /\ issued \in Nat /\ tx_data2 \in Seq(Nat) /\ tx_size2 \in Nat
      /\ Len(tx_data2) \in Nat
  BY WhenUp
<1>n. /\ tx_data2 = <<>> <=> Len(tx_data2) = 0
      /\ pc \in {"loop", "full", "drain", "copy", "publish", "kick"} =>
               tx_data2 = <<>> /\ tx_size2 = 0
      /\ tx_size2 = 0 /\ pc # "commit" => tx_data2 = <<>>
  BY NoBuffer
<1>1. ASSUME NEW n \in 1..MaxWrite, WriteBegin(n) PROVE AsyncInv'
  BY <1>0, <1>1, <1>n DEF AsyncInv, WriteBegin, async, hist
<1>2. ASSUME NEW n \in 1..MaxWrite, AsyncBegin(n) PROVE AsyncInv'
  <2>1. /\ tx_data2' = [i \in 1..n |-> issued + i] /\ n \in Nat /\ n > 0
        /\ issued' = issued + n /\ pc' = "commit" /\ todo' = n /\ tx_size2' = 0
    BY <1>2 DEF AsyncBegin
  <2>2. Len(tx_data2') = n
    BY <2>1
  <2>3. \A i \in 1..Len(tx_data2') : tx_data2'[i] = issued' - Len(tx_data2') + i
    BY <1>0, <2>1, <2>2
  <2> QED
    BY <2>1, <2>2, <2>3 DEF AsyncInv
<1>3. CASE \/ FlushBegin \/ FlushEnd \/ WriteWaitAsync \/ WriteLoop \/ WriteFull \/ WriteDrain
           \/ WritePublish \/ WriteKick
  <2>1. UNCHANGED <<tx_data2, tx_size2, issued>>
    BY <1>3 DEF FlushBegin, FlushEnd, WriteWaitAsync, WriteLoop, WriteFull, WriteDrain,
                WritePublish, WriteKick, async, hist
  <2>2. /\ pc' # "commit" /\ pc' # "start" /\ pc # "commit"
        /\ tx_data2 # <<>> => pc' \in {"idle", "flush"}
    BY <1>3, <1>n DEF FlushBegin, FlushEnd, WriteWaitAsync, WriteLoop, WriteFull, WriteDrain,
                WritePublish, WriteKick
  <2> QED
    BY <1>0, <1>n, <2>1, <2>2 DEF AsyncInv
<1>4. CASE WriteCopy
  <2>1. tx_data2' = <<>> /\ tx_size2' = 0 /\ pc' = "publish" /\ Len(tx_data2') = 0
    BY <1>4, <1>n DEF WriteCopy, async
  <2> QED
    BY <2>1 DEF AsyncInv
<1>5. CASE AsyncCommit
  <2>1. /\ UNCHANGED <<tx_data2, issued>> /\ tx_size2' = todo /\ pc = "commit" /\ pc' = "start"
    BY <1>5 DEF AsyncCommit, hist
  <2>2. todo > 0 /\ todo = Len(tx_data2)
    BY <1>0, <2>1 DEF AsyncInv, IInv, CountInv
  <2> QED
    BY <1>0, <1>n, <2>1, <2>2 DEF AsyncInv
<1>6. CASE AsyncStart
  <2>1. UNCHANGED <<tx_data2, tx_size2, issued>> /\ pc = "start" /\ pc' = "idle"
    BY <1>6 DEF AsyncStart, async
  <2> QED
    BY <1>0, <1>n, <2>1 DEF AsyncInv
<1> QED
  BY <1>1, <1>2, <1>3, <1>4, <1>5, <1>6 DEF ThreadStep

\* The thread's steps leave the driver where it is, or start it at the first number
\* that is not sent.
LEMMA ThreadKeepsFlight ==
  ASSUME Uart, IInv, ~mayFail, mayFail' = mayFail, ThreadStep
  PROVE  FlightInv'
<1> USE ConstantsAreOK DEF ConstantsOK, Goto
<1>0. /\ AsyncInv /\ FlightInv /\ tx_size \in 0..Size /\ tx_size <= tx_count
      /\ tx_count \in 0..Size /\ tx_read \in 0..Size-1 /\ Base \in Nat /\ Held \in 0..Size
      /\ issued \in Nat /\ Len(tx_data2) \in Nat /\ issued = Base + Held + Len(tx_data2)
      /\ pc # "publish" => Held = tx_count
      /\ flight.from \in {"none", "ring", "async"} /\ flight.at \in Nat /\ flight.left \in Nat
      /\ tx_size2 \in Nat /\ Len(wire) \in Nat
  BY WhenUp
<1>n. /\ pc \in {"loop", "full", "drain", "copy", "publish", "kick"} =>
               tx_data2 = <<>> /\ tx_size2 = 0 /\ flight.from # "async"
      /\ tx_size2 # 0 => pc # "commit" /\ tx_data2 # <<>> /\ tx_size2 = Len(tx_data2)
      /\ tx_size2 = 0 /\ pc # "commit" => tx_data2 = <<>>
  BY NoBuffer
<1>b. Base' = Base /\ wire' = wire
  <2>1. CASE WriteCopy
    BY <2>1, CopyKeepsRing DEF WriteCopy
  <2> QED
    BY <2>1, ThreadKeepsRing
\* The driver goes on.
<1>1. ASSUME UNCHANGED <<flight, tx_busy, tx_size, tx_read>>,
             flight.from = "async" => UNCHANGED <<tx_size2, tx_count, issued>>,
             flight.from = "none" =>
                /\ pc' \in {"idle", "waitAsync", "commit", "start", "flush"} => tx_count' = 0
                /\ tx_size2' # 0 => pc' = "start"
                /\ pc' = "full" => tx_count' = Size
      PROVE  FlightInv'
  <2>1. tx_busy' <=> flight'.from # "none"
    BY <1>0, <1>1 DEF FlightInv
  <2>2. flight'.from = "none" =>
          /\ tx_size' = 0 /\ Len(wire') = Base' /\ flight'.left = 0
          /\ pc' \in {"idle", "waitAsync", "commit", "start", "flush"} => tx_count' = 0
          /\ tx_size2' # 0 => pc' = "start"
          /\ pc' = "full" => tx_count' = Size
    BY <1>0, <1>1, <1>b DEF FlightInv
  <2>3. flight'.from = "ring" =>
          /\ tx_size' > 0 /\ tx_read' + tx_size' <= Size
          /\ flight'.at + flight'.left = tx_read' + tx_size' /\ flight'.at >= tx_read'
          /\ Len(wire') = Base' + flight'.at - tx_read'
    BY <1>0, <1>1, <1>b DEF FlightInv
  <2>4. flight'.from = "async" =>
          /\ tx_size2' # 0 /\ tx_count' = 0
          /\ flight'.at + flight'.left = tx_size2'
          /\ Len(wire') = issued' - tx_size2' + flight'.at
    BY <1>0, <1>1, <1>b DEF FlightInv
  <2> QED
    BY <2>1, <2>2, <2>3, <2>4 DEF FlightInv
\* The driver starts with a packet.
<1>2. ASSUME ~tx_busy, StartRing(tx_read, tx_count), tx_count # 0 PROVE FlightInv'
  <2>1. tx_count \in 1..Size
    BY <1>0, <1>2
  <2>2. /\ tx_read' = tx_read /\ tx_count' = tx_count /\ tx_busy'
        /\ tx_size' \in Nat /\ tx_size' > 0 /\ tx_read + tx_size' <= Size
        /\ flight'.from = "ring" /\ flight'.at = tx_read /\ flight'.left = tx_size'
    BY <1>0, <1>2, <2>1, StartsWhenUp
  <2>3. Len(wire) = Base
    BY <1>0, <1>2 DEF FlightInv
  <2>4. Len(wire') = Base' + flight'.at - tx_read'
    BY <1>0, <1>b, <2>2, <2>3
  <2>5. flight'.at + flight'.left = tx_read' + tx_size' /\ flight'.at >= tx_read'
    BY <1>0, <2>2
  <2> QED
    BY <2>2, <2>4, <2>5 DEF FlightInv
\* Each step of the thread.
<1>3. ASSUME NEW n \in 1..MaxWrite, WriteBegin(n) PROVE FlightInv'
  <2>1. UNCHANGED <<flight, tx_busy, tx_size, tx_read, tx_size2, tx_count, issued>> /\ pc = "idle"
    BY <1>3 DEF WriteBegin, ring, async, hist
  <2>2. pc' \in {"waitAsync", "loop"}
    BY <1>3 DEF WriteBegin
  <2> QED
    BY <1>0, <1>1, <2>1, <2>2 DEF FlightInv
<1>4. ASSUME NEW n \in 1..MaxWrite, AsyncBegin(n) PROVE FlightInv'
  <2>1. /\ UNCHANGED <<flight, tx_busy, tx_size, tx_read, tx_size2, tx_count>>
        /\ pc = "idle" /\ pc' = "commit" /\ tx_size2 = 0
    BY <1>4 DEF AsyncBegin, ring
  <2> QED
    BY <1>0, <1>1, <2>1 DEF FlightInv
<1>5. CASE FlushBegin \/ FlushEnd \/ WriteWaitAsync \/ WriteDrain
  <2>1. /\ UNCHANGED <<flight, tx_busy, tx_size, tx_read, tx_size2, tx_count, issued>>
        /\ pc' \in {"idle", "flush"} => pc \in {"idle", "flush"}
        /\ pc' \in {"idle", "flush", "loop", "copy"} /\ pc # "start"
    BY <1>5 DEF FlushBegin, FlushEnd, WriteWaitAsync, WriteDrain, ring, async, hist
  <2> QED
    BY <1>0, <1>1, <2>1 DEF FlightInv
<1>6. CASE WriteLoop
  <2>1. /\ UNCHANGED <<flight, tx_busy, tx_size, tx_read, tx_size2, tx_count, issued>>
        /\ pc = "loop" /\ pc' \in {"kick", "full", "copy"}
        /\ pc' = "full" => Size - tx_count = 0
    BY <1>6 DEF WriteLoop, ring, async, hist
  <2>2. pc' = "full" => tx_count' = Size
    BY <1>0, <2>1
  <2> QED
    BY <1>0, <1>1, <2>1, <2>2 DEF FlightInv
<1>7. CASE WriteFull
  <2>1. pc = "full" /\ pc' = "drain" /\ UNCHANGED <<tx_size2, issued>>
    BY <1>7 DEF WriteFull, async, hist
  <2>2. CASE tx_busy
    <3>1. UNCHANGED <<flight, tx_busy, tx_size, tx_read, tx_count>>
      BY <1>7, <2>2 DEF WriteFull
    <3> QED
      BY <1>0, <1>1, <2>1, <2>2, <3>1 DEF FlightInv
  <2>3. CASE ~tx_busy
    <3>1. StartRing(tx_read, tx_count)
      BY <1>7, <2>3 DEF WriteFull
    <3>2. tx_count = Size
      BY <1>0, <2>1, <2>3 DEF FlightInv
    <3> QED
      BY <1>2, <2>3, <3>1, <3>2
  <2> QED
    BY <2>2, <2>3
<1>8. CASE WriteKick
  <2>1. pc = "kick" /\ pc' = "idle" /\ UNCHANGED <<tx_size2, issued>>
    BY <1>8 DEF WriteKick, async, hist
  <2>2. CASE tx_busy \/ tx_count = 0
    <3>1. UNCHANGED <<flight, tx_busy, tx_size, tx_read, tx_count>>
      BY <1>8, <2>2 DEF WriteKick, Uart
    <3>2. flight.from = "none" => tx_count' = 0
      BY <1>0, <2>2, <3>1 DEF FlightInv
    <3> QED
      BY <1>0, <1>1, <1>n, <2>1, <3>1, <3>2 DEF FlightInv
  <2>3. CASE ~tx_busy /\ tx_count # 0
    <3>1. StartRing(tx_read, tx_count)
      BY <1>8, <2>3 DEF WriteKick
    <3> QED
      BY <1>2, <2>3, <3>1
  <2> QED
    BY <2>2, <2>3
<1>9. CASE WriteCopy \/ WritePublish
  <2>1. /\ UNCHANGED <<flight, tx_busy, tx_size, tx_read, tx_size2>>
        /\ pc \in {"copy", "publish"} /\ pc' \in {"publish", "loop"}
    BY <1>9 DEF WriteCopy, WritePublish, async, hist
  <2> QED
    BY <1>0, <1>1, <1>n, <2>1 DEF FlightInv
<1>10. CASE AsyncCommit
  <2>1. /\ UNCHANGED <<flight, tx_busy, tx_size, tx_read, tx_count, issued>>
        /\ pc = "commit" /\ pc' = "start"
    BY <1>10 DEF AsyncCommit, ring, hist
  <2> QED
    BY <1>0, <1>1, <1>n, <2>1 DEF FlightInv
<1>11. CASE AsyncStart
  <2>1. pc = "start" /\ pc' = "idle" /\ UNCHANGED <<tx_size, tx_read, tx_count, issued, tx_size2>>
    BY <1>11 DEF AsyncStart, async, ring
  <2>2. CASE tx_busy
    <3>1. UNCHANGED <<flight, tx_busy>>
      BY <1>11, <2>2 DEF AsyncStart
    <3> QED
      BY <1>0, <1>1, <2>1, <2>2, <3>1 DEF FlightInv
  <2>3. CASE ~tx_busy
    <3>1. StartAsync
      BY <1>11, <2>3 DEF AsyncStart
    <3>2. /\ tx_count = 0 /\ tx_size2 # 0 /\ tx_data2 # <<>> /\ tx_size2 = Len(tx_data2)
          /\ Len(wire) = Base
      BY <1>0, <1>n, <2>1, <2>3 DEF FlightInv, AsyncInv
    <3>3. /\ tx_busy' /\ flight'.from = "async" /\ flight'.at = 0 /\ flight'.left = tx_size2
      BY <3>1, <3>2 DEF StartAsync
    <3>4. Len(wire') = issued' - tx_size2' + flight'.at
      BY <1>0, <1>b, <2>1, <3>2, <3>3
    <3>5. tx_size2' # 0 /\ tx_count' = 0 /\ flight'.at + flight'.left = tx_size2'
      BY <1>0, <2>1, <3>2, <3>3
    <3> QED
      BY <3>3, <3>4, <3>5 DEF FlightInv
  <2> QED
    BY <2>2, <2>3
<1> QED
  BY <1>3, <1>4, <1>5, <1>6, <1>7, <1>8, <1>9, <1>10, <1>11 DEF ThreadStep

\* A link that does not fail keeps every number in its place, and sends them in order.
LEMMA ThreadOrder ==
  ASSUME Uart, IInv, ~mayFail, mayFail' = mayFail, ThreadStep
  PROVE  OrderInv'
<1>1. RingInv' /\ UNCHANGED wire
  <2>1. CASE WriteCopy
    BY <2>1, CopyKeepsRing DEF WriteCopy
  <2> QED
    BY <2>1, ThreadKeepsRing
<1>2. WireInv'
  BY <1>1, WhenUp DEF WireInv
<1> QED
  BY <1>1, <1>2, ThreadKeepsAsync, ThreadKeepsFlight DEF OrderInv

\* Sums, for what the provers find hard among lengths of sequences.
LEMMA Moved ==
  ASSUME NEW l \in Int, NEW base \in Int, NEW at \in Int, NEW read \in Int,
         l = base + at - read
  PROVE  l = base + (at - read) /\ l + 1 = base + (at + 1) - read
  OBVIOUS

\* The next byte that is sent is the next number.
LEMMA SendKeepsOrder ==
  ASSUME Uart, IInv, ~mayFail, SendByte
  PROVE  OrderInv'
<1> USE ConstantsAreOK DEF ConstantsOK
<1>0. /\ RingInv /\ AsyncInv /\ FlightInv /\ WireInv
      /\ tx_size \in 0..Size /\ tx_size <= tx_count /\ tx_count \in 0..Size
      /\ tx_read \in 0..Size-1 /\ Held \in 0..Size /\ tx_count <= Held /\ Base \in Nat
      /\ issued \in Nat /\ Len(tx_data2) \in Nat
      /\ flight.from \in {"none", "ring", "async"} /\ flight.at \in Nat /\ flight.left \in Nat
      /\ tx_size2 \in Nat /\ wire \in Seq(Nat) /\ Len(wire) \in Nat
  BY WhenUp
<1>1. flight.left > 0 /\ UNCHANGED <<ring, tx_busy, async, pc, locals, issued>>
  BY DEF SendByte
<1>2. flight'.from = flight.from /\ flight'.at = flight.at + 1 /\ flight'.left = flight.left - 1
  BY DEF SendByte, IInv, TypeInv, Flights
<1>3. flight.from # "none"
  BY <1>0, <1>1 DEF FlightInv
<1>r. flight.from = "ring" =>
        /\ tx_size > 0 /\ tx_read + tx_size <= Size
        /\ flight.at + flight.left = tx_read + tx_size /\ flight.at >= tx_read
        /\ Len(wire) = Base + flight.at - tx_read
  BY <1>0 DEF FlightInv
<1>a. flight.from = "async" =>
        /\ tx_size2 # 0 /\ tx_count = 0
        /\ flight.at + flight.left = tx_size2
        /\ Len(wire) = issued - tx_size2 + flight.at
  BY <1>0 DEF FlightInv
<1>4. wire' = Append(wire, Len(wire) + 1)
  <2>1. CASE flight.from = "ring"
    <3> DEFINE k == flight.at - tx_read
    <3>1. /\ k \in 0..Size-1 /\ k < Held /\ tx_read + k = flight.at /\ flight.at < Size
          /\ Len(wire) = Base + k
      <4>1. /\ tx_read + tx_size <= Size /\ flight.at + flight.left = tx_read + tx_size
            /\ flight.at >= tx_read /\ Len(wire) = Base + flight.at - tx_read
        BY <1>r, <2>1, Zenon
      <4>t. /\ flight.at \in Int /\ flight.left \in Int /\ tx_read \in Int /\ tx_size \in Int
            /\ flight.left > 0
        BY <1>0, <1>1
      <4>2. k \in Nat /\ k < tx_size /\ tx_read + k = flight.at
        BY <4>t, <4>1
      <4>3. Len(wire) = Base + k
        BY <1>0, <4>1, Moved
      <4> HIDE DEF k
      <4>4. k \in 0..Size-1
        BY <4>2, <1>0
      <4>5. k < Held
        BY <4>2, <1>0
      <4>6. flight.at < Size
        BY <1>0, <1>1, <4>1
      <4> QED
        BY <4>2, <4>3, <4>4, <4>5, <4>6
    <3> HIDE DEF k
    <3>2. tx_data[Behind(tx_read, k)] = Base + 1 + k
      BY <1>0, <3>1 DEF RingInv
    <3>3. Behind(tx_read, k) = flight.at
      BY <1>0, <3>1 DEF Behind
    <3>4. tx_data[flight.at] = Len(wire) + 1
      BY <1>0, <3>1, <3>2, <3>3
    <3>5. wire' = Append(wire, tx_data[flight.at])
      BY <2>1, <3>1 DEF SendByte
    <3> QED
      BY <3>4, <3>5
  <2>2. CASE flight.from = "async"
    <3>1. /\ tx_size2 # 0 /\ flight.at + 1 <= tx_size2
          /\ Len(wire) = issued - tx_size2 + flight.at
      BY <1>0, <1>1, <1>a, <2>2
    <3>2. tx_data2 # <<>> /\ tx_size2 = Len(tx_data2)
      BY <3>1, NoBuffer
    <3>3. flight.at + 1 \in 1..Len(tx_data2)
      BY <1>0, <3>1, <3>2
    <3>4. tx_data2[flight.at + 1] = issued - Len(tx_data2) + (flight.at + 1)
      BY <1>0, <3>3 DEF AsyncInv
    <3>5. tx_data2[flight.at + 1] = Len(wire) + 1
      BY <1>0, <3>1, <3>2, <3>4
    <3>6. wire' = Append(wire, tx_data2[flight.at + 1])
      BY <2>2, <3>2 DEF SendByte
    <3> QED
      BY <3>5, <3>6
  <2> QED
    BY <1>0, <1>3, <2>1, <2>2
<1>5. Len(wire') = Len(wire) + 1 /\ \A i \in 1..Len(wire') : wire'[i] = i
  BY <1>0, <1>4 DEF WireInv
<1>6. WireInv'
  BY <1>5 DEF WireInv
<1>7. Held' = Held /\ Base' = Base
  <2>1. Chunk' = Chunk
    BY <1>1, ChunkKept
  <2> QED
    BY <1>1, <2>1 DEF Held, Base, ring, async
<1>8. RingInv'
  BY <1>0, <1>1, <1>7, RingStays DEF RingInv, ring, locals
<1>9. AsyncInv'
  BY <1>0, <1>1 DEF AsyncInv, async, locals
<1>10. FlightInv'
  <2>1. UNCHANGED <<tx_busy, tx_size, tx_read, tx_count, tx_size2, issued>>
    BY <1>1 DEF ring, async
  <2>2. tx_busy' <=> flight'.from # "none"
    BY <1>0, <1>2, <2>1 DEF FlightInv
  <2>3. flight'.from = "ring" =>
          /\ tx_size' > 0 /\ tx_read' + tx_size' <= Size
          /\ flight'.at + flight'.left = tx_read' + tx_size' /\ flight'.at >= tx_read'
          /\ Len(wire') = Base' + flight'.at - tx_read'
    <3>1. flight.from = "ring" =>
            /\ (flight.at + 1) + (flight.left - 1) = tx_read + tx_size
            /\ flight.at + 1 >= tx_read
            /\ Len(wire) + 1 = Base + (flight.at + 1) - tx_read
      <4> SUFFICES ASSUME flight.from = "ring"
                   PROVE  /\ (flight.at + 1) + (flight.left - 1) = tx_read + tx_size
                          /\ flight.at + 1 >= tx_read
                          /\ Len(wire) + 1 = Base + (flight.at + 1) - tx_read
        BY Zenon
      <4>1. /\ flight.at + flight.left = tx_read + tx_size /\ flight.at >= tx_read
            /\ Len(wire) = Base + flight.at - tx_read
        BY <1>r, Zenon
      <4>2. /\ flight.at \in Int /\ flight.left \in Int /\ tx_read \in Int
            /\ Base \in Int /\ Len(wire) \in Int
        BY <1>0
      <4>3. Len(wire) + 1 = Base + (flight.at + 1) - tx_read
        BY <4>1, <4>2, Moved
      <4>4. /\ (flight.at + 1) + (flight.left - 1) = tx_read + tx_size
            /\ flight.at + 1 >= tx_read
        <5>1. /\ flight.at + flight.left = tx_read + tx_size /\ flight.at >= tx_read
              /\ flight.at \in Int /\ flight.left \in Int /\ tx_read \in Int
          BY <4>1, <4>2, Zenon
        <5> QED
          BY <5>1
      <4> QED
        BY <4>3, <4>4, Zenon
    <3> QED
      BY <1>2, <1>5, <1>7, <1>r, <2>1, <3>1
  <2>4. flight'.from = "async" =>
          /\ tx_size2' # 0 /\ tx_count' = 0
          /\ flight'.at + flight'.left = tx_size2'
          /\ Len(wire') = issued' - tx_size2' + flight'.at
    <3>1. flight.from = "async" =>
            /\ (flight.at + 1) + (flight.left - 1) = tx_size2
            /\ Len(wire) + 1 = issued - tx_size2 + (flight.at + 1)
      BY <1>0, <1>a
    <3> QED
      BY <1>2, <1>5, <1>a, <2>1, <3>1
  <2> QED
    BY <1>2, <1>3, <2>2, <2>3, <2>4 DEF FlightInv
<1> QED
  BY <1>6, <1>8, <1>9, <1>10 DEF OrderInv

\* When a transfer of a link that does not fail is over, all of it is sent.
LEMMA OverIsSent ==
  ASSUME IInv, ~mayFail, Over
  PROVE  /\ tx_size # 0 => flight.from = "ring" /\ Len(wire) = Base + tx_size
         /\ tx_size = 0 => /\ flight.from = "async" /\ tx_count = 0 /\ tx_size2 # 0
                           /\ Len(wire) = issued
<1>0. /\ FlightInv /\ tx_size \in 0..Size /\ tx_size <= tx_count /\ tx_count \in 0..Size
      /\ tx_read \in 0..Size-1 /\ Base \in Nat /\ issued \in Nat
      /\ flight.from \in {"none", "ring", "async"} /\ flight.at \in Nat /\ flight.left \in Nat
      /\ tx_size2 \in Nat
  BY WhenUp
<1>1. flight.from # "none" /\ flight.left = 0
  BY DEF Over
<1>2. CASE flight.from = "ring"
  BY <1>0, <1>1, <1>2, ConstantsAreOK DEF FlightInv, ConstantsOK
<1>3. CASE flight.from = "async"
  BY <1>0, <1>1, <1>3, ConstantsAreOK DEF FlightInv, ConstantsOK
<1> QED
  BY <1>0, <1>1, <1>2, <1>3

\* _doneCallback leaves every number in its place.
LEMMA DoneKeepsOrder ==
  ASSUME Uart, IInv, ~mayFail, DoneMore \/ DoneLast \/ DoneAsync
  PROVE  OrderInv'
<1> USE ConstantsAreOK DEF ConstantsOK
<1>0. /\ RingInv /\ AsyncInv /\ FlightInv /\ WireInv
      /\ tx_size \in 0..Size /\ tx_size <= tx_count /\ tx_count \in 0..Size
      /\ tx_read \in 0..Size-1 /\ Held \in 0..Size /\ tx_count <= Held /\ Base \in Nat
      /\ issued \in Nat /\ Len(tx_data2) \in Nat /\ issued = Base + Held + Len(tx_data2)
      /\ pc # "publish" => Held = tx_count
      /\ tx_size2 \in Nat /\ Len(wire) \in Nat
  BY WhenUp
<1>n. /\ tx_size2 # 0 => pc # "commit" /\ tx_data2 # <<>> /\ tx_size2 = Len(tx_data2)
      /\ tx_data2 # <<>> => pc # "publish" /\ pc # "copy"
  BY <1>0, NoBuffer DEF AsyncInv
<1>o. Over /\ UNCHANGED <<wire, issued, pc, locals, tx_data, tx_write>>
  BY DEF DoneMore, DoneLast, DoneAsync, hist, ring
<1>w. WireInv'
  BY <1>0, <1>o DEF WireInv
<1>1. CASE DoneMore
  <2> DEFINE rd    == Advance(tx_read, tx_size)
             count == tx_count - tx_size
  <2>1. rd \in 0..Size-1 /\ count \in 1..Size
    <3>1. rd \in 0..Size-1
      BY <1>0, Advances
    <3>2. tx_count # tx_size
      BY <1>1 DEF DoneMore
    <3>3. count \in 1..Size
      BY <1>0, <3>2
    <3> QED
      BY <3>1, <3>3
  <2>2. StartRing(rd, count)
    BY <1>1 DEF DoneMore
  <2> HIDE DEF rd, count
  <2>3. /\ tx_read' = rd /\ tx_count' = count /\ tx_busy'
        /\ tx_size' \in Nat /\ tx_size' > 0 /\ rd + tx_size' <= Size
        /\ flight'.from = "ring" /\ flight'.at = rd /\ flight'.left = tx_size'
    BY <2>1, <2>2, StartsWhenUp
  <2>4. UNCHANGED async
    BY <1>1, <2>3 DEF DoneMore
  <2>5. RingInv' /\ Base' = Base + tx_size
    BY <1>o, <2>3, <2>4, PacketOver DEF rd, count, async
  <2>6. Len(wire) = Base + tx_size
    BY <1>1, <1>o, OverIsSent DEF DoneMore
  <2>7. Len(wire') = Base' + flight'.at - tx_read'
    BY <1>0, <1>o, <2>1, <2>3, <2>5, <2>6
  <2>8. flight'.at + flight'.left = tx_read' + tx_size' /\ flight'.at >= tx_read'
    BY <2>1, <2>3
  <2>9. FlightInv'
    BY <2>3, <2>7, <2>8 DEF FlightInv
  <2>10. AsyncInv'
    BY <1>0, <1>o, <2>4 DEF AsyncInv, async, locals
  <2> QED
    BY <1>w, <2>5, <2>9, <2>10 DEF OrderInv
<1>2. CASE DoneLast
  <2>1. /\ tx_size # 0 /\ tx_count = tx_size
        /\ tx_read' = Advance(tx_read, tx_size) /\ tx_count' = 0 /\ tx_size' = 0
        /\ UNCHANGED async
    BY <1>2 DEF DoneLast
  <2>2. tx_count' = tx_count - tx_size
    BY <1>0, <2>1
  <2>3. RingInv' /\ Held' = Held - tx_size /\ Base' = Base + tx_size
    BY <1>o, <2>1, <2>2, PacketOver DEF async
  <2>4. Len(wire') = Base'
    <3>1. Len(wire) = Base + tx_size
      BY <1>o, <2>1, OverIsSent
    <3> QED
      BY <1>o, <2>3, <3>1
  <2>5. AsyncInv'
    BY <1>0, <1>o, <2>1 DEF AsyncInv, async, locals
  <2>6. CASE tx_size2 = 0
    <3>1. ~tx_busy' /\ flight' = NoFlight /\ pc \notin {"full", "start"}
      BY <1>2, <2>6 DEF DoneLast, InTime, Uart
    <3>2. flight'.from = "none" /\ flight'.left = 0
      BY <3>1 DEF NoFlight
    <3>3. FlightInv'
      BY <1>o, <2>1, <2>4, <2>6, <3>1, <3>2 DEF FlightInv, async
    <3> QED
      BY <1>w, <2>3, <2>5, <3>3 DEF OrderInv
  <2>7. CASE tx_size2 # 0
    <3>1. StartAsync
      BY <1>2, <2>7 DEF DoneLast
    <3>2. tx_busy' /\ flight'.from = "async" /\ flight'.at = 0 /\ flight'.left = tx_size2
      BY <1>n, <2>7, <3>1 DEF StartAsync
    <3>3. Held = tx_count /\ tx_size2 = Len(tx_data2)
      BY <1>0, <1>n, <2>7
    <3>4. Len(wire') = issued' - tx_size2' + flight'.at
      BY <1>0, <1>o, <2>1, <2>3, <2>4, <3>2, <3>3 DEF async
    <3>5. tx_size2' # 0 /\ tx_count' = 0 /\ flight'.at + flight'.left = tx_size2'
      BY <1>0, <2>1, <2>7, <3>2 DEF async
    <3>6. FlightInv'
      BY <3>2, <3>4, <3>5 DEF FlightInv
    <3> QED
      BY <1>w, <2>3, <2>5, <3>6 DEF OrderInv
  <2> QED
    BY <2>6, <2>7
<1>3. CASE DoneAsync
  <2>1. /\ tx_size = 0 /\ pc \notin {"full", "start"} /\ UNCHANGED ring
        /\ ~tx_busy' /\ flight' = NoFlight /\ tx_size2' = 0 /\ tx_data2' = <<>>
    BY <1>3 DEF DoneAsync, EndAsync, InTime, Uart
  <2>2. tx_count = 0 /\ tx_size2 # 0 /\ Len(wire) = issued
    BY <1>o, <2>1, OverIsSent
  <2>3. pc \notin {"publish", "copy", "commit"} /\ Held = 0
    BY <1>0, <1>n, <2>2
  <2>4. Held' = 0 /\ Len(tx_data2') = 0
    BY <1>o, <2>1, <2>2, <2>3 DEF Held, ring
  <2>5. Base' = issued
    BY <1>0, <1>o, <2>4 DEF Base
  <2>6. RingInv'
    <3>1. tx_write' = Behind(tx_read', Held')
      BY <1>0, <2>1, <2>3, <2>4 DEF RingInv, ring
    <3> QED
      BY <1>0, <1>o, <2>3, <2>4, <2>5, <3>1 DEF RingInv
  <2>7. AsyncInv'
    BY <1>o, <2>1, <2>3, <2>4 DEF AsyncInv
  <2>8. flight'.from = "none" /\ flight'.left = 0
    BY <2>1 DEF NoFlight
  <2>9. FlightInv'
    BY <1>o, <2>1, <2>2, <2>5, <2>8 DEF FlightInv, ring
  <2> QED
    BY <1>w, <2>6, <2>7, <2>9 DEF OrderInv
<1> QED
  BY <1>1, <1>2, <1>3

\* Every step keeps the invariant.
LEMMA NextInv == ASSUME Uart, IInv, [Next]_vars PROVE IInv'
<1>1. TypeInv'
  BY RingTypesKept, AsyncTypesKept, LocalTypesKept, FlagTypesKept, FlightTypesKept DEF TypeInv
<1>2. CountInv'
  BY CountKept
<1>3. ASSUME ~mayFail PROVE OrderInv'
  <2>1. CASE ThreadStep
    BY <1>3, <2>1, Steps, ThreadOrder
  <2>2. CASE DriverStep
    BY <1>3, <2>2, SendKeepsOrder, DoneKeepsOrder DEF DriverStep
  <2>3. CASE UNCHANGED <<ring, tx_busy, async, flight, pc, locals, hist>>
    <3>0. OrderInv
      BY <1>3 DEF IInv
    <3>1. Chunk' = Chunk
      BY <2>3, ChunkKept
    <3>2. Held' = Held /\ Base' = Base
      BY <2>3, <3>1 DEF Held, Base, ring, async, hist
    <3>3. RingInv'
      BY <2>3, <3>0, <3>2, RingStays DEF OrderInv, RingInv, ring, locals
    <3>4. AsyncInv'
      BY <2>3, <3>0 DEF OrderInv, AsyncInv, async, hist, locals
    <3>5. FlightInv'
      BY <2>3, <3>0, <3>2 DEF OrderInv, FlightInv, ring, async, hist
    <3>6. WireInv'
      BY <2>3, <3>0 DEF OrderInv, WireInv, hist
    <3> QED
      BY <3>3, <3>4, <3>5, <3>6 DEF OrderInv
  <2> QED
    BY <2>1, <2>2, <2>3, Steps
<1>4. mayFail' = mayFail
  BY Steps
<1> QED
  BY <1>1, <1>2, <1>3, <1>4 DEF IInv

\* The invariant holds at every step of the UART's Serial.
THEOREM Invariance == ASSUME Uart PROVE Spec => []IInv
<1>1. Init => IInv
  BY InitInv
<1>2. IInv /\ [Next]_vars => IInv'
  BY NextInv
<1> QED
  BY <1>1, <1>2, PTL DEF Spec

\* No more is sent than was written.
LEMMA SentIsIssued == ASSUME IInv, ~mayFail PROVE Len(wire) <= issued
<1>0. /\ FlightInv /\ tx_size \in 0..Size /\ tx_size <= tx_count /\ tx_count \in 0..Size
      /\ tx_read \in 0..Size-1 /\ Base \in Nat /\ issued \in Nat /\ Held \in 0..Size
      /\ tx_count <= Held /\ Len(tx_data2) \in Nat /\ issued = Base + Held + Len(tx_data2)
      /\ flight.from \in {"none", "ring", "async"} /\ flight.at \in Nat /\ flight.left \in Nat
      /\ tx_size2 \in Nat /\ Len(wire) \in Nat
  BY WhenUp
<1> USE ConstantsAreOK DEF ConstantsOK
<1>1. CASE flight.from = "none"
  <2>1. Len(wire) = Base
    BY <1>0, <1>1 DEF FlightInv
  <2> QED
    BY <1>0, <2>1
<1>2. CASE flight.from = "ring"
  <2>1. flight.at + flight.left = tx_read + tx_size /\ Len(wire) = Base + flight.at - tx_read
    BY <1>0, <1>2 DEF FlightInv
  <2> QED
    BY <1>0, <2>1
<1>3. CASE flight.from = "async"
  <2>1. flight.at + flight.left = tx_size2 /\ Len(wire) = issued - tx_size2 + flight.at
    BY <1>0, <1>3 DEF FlightInv
  <2> QED
    BY <1>0, <2>1
<1> QED
  BY <1>0, <1>1, <1>2, <1>3

-----------------------------------------------------------------------------
(* The theorems. *)

\* The variables keep their types, whatever fails: counters and slots stay inside
\* of the ring, packets and buffers inside of their sizes.
THEOREM TypeCorrect == ASSUME Uart PROVE Spec => []TypeOK
<1>1. IInv => TypeOK
  <2> SUFFICES ASSUME IInv PROVE TypeOK
    OBVIOUS
  <2>1. Len(wire) <= 2 * MaxBytes + 1
    <3>1. MaxBytes \in Nat /\ issued \in 0..MaxBytes /\ Len(wire) \in Nat
      BY ConstantsAreOK DEF ConstantsOK, IInv, TypeInv, LocalTypes
    <3>2. mayFail => Len(wire) = 0
      BY DEF IInv, CountInv
    <3>3. ~mayFail => Len(wire) <= issued
      BY SentIsIssued
    <3> QED
      BY <3>1, <3>2, <3>3
  <2>2. tx_busy \in BOOLEAN /\ completion \in BOOLEAN /\ nonblocking \in BOOLEAN
    BY DEF IInv, TypeInv, FlagTypes
  <2>3. flight \in [from : {"none", "ring", "async"}, at : Nat, left : Nat]
    BY DEF IInv, TypeInv, Flights
  <2> QED
    BY <2>1, <2>2, <2>3 DEF IInv, TypeInv, RingTypes, AsyncTypes, LocalTypes, Pcs, TypeOK
<1> QED
  BY <1>1, Invariance, PTL

\* What the UART sends is what was written, each byte once and in order, at every
\* preemption of write by _doneCallback and across both kinds of write.
THEOREM BytesLeaveInOrder == ASSUME Uart PROVE Spec => []WireInOrder
<1>1. IInv => WireInOrder
  BY SentIsIssued, WhenUp DEF WireInv, WireInOrder
<1> QED
  BY <1>1, Invariance, PTL

\* The callback of an asynchronous write is queued when its last byte is sent, and
\* not before: no other transfer's end is taken for that of the write.
THEOREM CallbackComesLast == ASSUME Uart PROVE Spec => CallbackAfterData
<1>1. IInv /\ [Next]_vars => [CalledAfterData]_vars
  <2> SUFFICES ASSUME IInv, [Next]_vars, called' # called, ~mayFail
               PROVE  wire # <<>> /\ tx_data2 # <<>> /\ Last(wire) = Last(tx_data2)
    BY DEF CalledAfterData
  <2>1. DoneAsync
    <3>1. ~ThreadStep
      BY DEF hist, ThreadStep, WriteBegin, AsyncBegin,
        FlushBegin, WriteWaitAsync, WriteLoop, WriteFull, WriteDrain, WriteCopy, WritePublish,
        WriteKick, AsyncCommit, AsyncStart, FlushEnd
    <3>2. ~SendByte
      BY DEF SendByte
    <3>3. ~DoneMore
      BY DEF DoneMore, StartRing
    <3>4. ~DoneLast
      BY DEF DoneLast
    <3>5. ~UNCHANGED <<ring, tx_busy, async, flight, pc, locals, hist>>
      BY DEF hist
    <3> QED
      BY <3>1, <3>2, <3>3, <3>4, <3>5, Steps DEF DriverStep
  <2>2. tx_size2 # 0 /\ Len(wire) = issued
    BY <2>1, OverIsSent DEF DoneAsync
  <2>3. tx_data2 # <<>> /\ Len(tx_data2) # 0
    BY <2>2, NoBuffer
  <2>4. /\ AsyncInv /\ WireInv /\ issued = Base + Held + Len(tx_data2) /\ Base \in Nat
        /\ Held \in 0..Size /\ Len(tx_data2) \in Nat /\ issued \in Nat /\ wire \in Seq(Nat)
    BY WhenUp
  <2>5. Len(tx_data2) \in 1..Len(tx_data2) /\ Len(wire) \in 1..Len(wire)
    BY <2>2, <2>3, <2>4, ConstantsAreOK DEF ConstantsOK
  <2>6. wire[Len(wire)] = issued /\ wire # <<>>
    BY <2>2, <2>4, <2>5 DEF WireInv
  <2>7. tx_data2[Len(tx_data2)] = issued
    BY <2>4, <2>5 DEF AsyncInv
  <2> QED
    BY <2>3, <2>6, <2>7 DEF Last
<1> QED
  BY <1>1, Invariance, PTL DEF CallbackAfterData, Spec
=============================================================================
