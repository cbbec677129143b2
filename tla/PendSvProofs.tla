--------------------------- MODULE PendSvProofs ---------------------------
(***************************************************************************)
(* Theorems about PendSv for every ring size, every nesting depth and      *)
(* every number of calls.                                                  *)
(***************************************************************************)
EXTENDS PendSv, TLAPS

ConstantsOK == /\ Capacity \in Nat /\ Capacity >= 2
               /\ Nest \in Nat
               /\ MaxCalls \in Nat

\* The assumptions, under the name the proofs use.
LEMMA ConstantsAreOK == ConstantsOK
  BY CapacityAssumption, NestAssumption, MaxCallsAssumption DEF ConstantsOK

(***************************************************************************)
(* Type correctness.                                                       *)
(***************************************************************************)

\* The variables have their types at reset.
LEMMA InitType == Init => TypeOK
<1> SUFFICES ASSUME Init PROVE TypeOK
  OBVIOUS
<1>1. 0 \in Slots /\ 0 \in Levels
  BY ConstantsAreOK DEF ConstantsOK, Slots, Levels
<1> QED
  BY <1>1, ConstantsAreOK
  DEF Init, TypeOK, ConstantsOK, Calls, NoCall, Pcs

\* The successor of a slot is a slot.
LEMMA SuccInSlots == \A s \in Slots : Succ(s) \in Slots
  BY ConstantsAreOK DEF ConstantsOK, Slots, Succ

\* Every step keeps the types.
LEMMA NextType == TypeOK /\ CallInv /\ HandlerInv /\ [Next]_vars => TypeOK'
<1> SUFFICES ASSUME TypeOK, CallInv, HandlerInv, [Next]_vars PROVE TypeOK'
  OBVIOUS
<1> USE ConstantsAreOK DEF TypeOK, ConstantsOK, ring, hist, Goto, At
<1>0. 0 \in Levels /\ Irqs \subseteq Levels
  BY DEF Levels, Irqs
<1>1. ASSUME NEW l \in Irqs, IrqEnter(l) \/ IrqReturn(l) PROVE TypeOK'
  BY <1>1, <1>0 DEF IrqEnter, IrqReturn, Pcs
<1>2. ASSUME NEW l \in Levels, Enqueue(l) PROVE TypeOK'
  BY <1>2 DEF Enqueue, Pcs, EnqueuePcs
<1>3. ASSUME NEW l \in Levels, EnqueueReject(l) \/ EnqueueCheck(l) PROVE TypeOK'
  BY <1>3 DEF EnqueueReject, EnqueueCheck, Pcs, EnqueuePcs
<1>4. ASSUME NEW l \in Levels, EnqueueCas(l) PROVE TypeOK'
  <2>1. item[l] \in Calls
    BY <1>4 DEF EnqueueCas, CallInv, Calls, NoCall
  <2>2. fifo' \in Seq(Calls) /\ accepted' \in SUBSET Calls
    BY <1>4, <2>1 DEF EnqueueCas, Claim
  <2>3. write' \in Slots
    BY <1>4, SuccInSlots DEF EnqueueCas, Claim
  <2> QED
    BY <1>4, <2>2, <2>3 DEF EnqueueCas, Claim, Pcs, EnqueuePcs
<1>5. ASSUME NEW l \in Levels, EnqueueCasFail(l) PROVE TypeOK'
  BY <1>5 DEF EnqueueCasFail, Pcs, EnqueuePcs
<1>6. ASSUME NEW l \in Levels, EnqueueStore(l) \/ Pend(l) PROVE TypeOK'
  BY <1>6 DEF EnqueueStore, Pend, Pcs, EnqueuePcs
<1>7. ASSUME SvcEnter \/ SvcReturn \/ RoutineReturn \/ Notify \/ PendSvEnter PROVE TypeOK'
  BY <1>7, <1>0 DEF SvcEnter, SvcReturn, RoutineReturn, Notify, PendSvEnter,
                    Pcs, EnqueuePcs, HandlerPcs
<1>8. CASE HandlerEntry
  BY <1>8, <1>0 DEF HandlerEntry, Pcs, HandlerPcs
<1>12. CASE DequeueFetch
  BY <1>12, <1>0, SuccInSlots DEF DequeueFetch, Pcs, HandlerPcs
<1>13. CASE DequeueLoop
  BY <1>13, <1>0 DEF DequeueLoop, Pcs, HandlerPcs
<1>9. CASE DequeueAdvance
  <2>1. fifo # <<>>
    BY <1>9 DEF DequeueAdvance, HandlerInv
  <2>2. fifo' \in Seq(Calls)
    BY <1>9, <2>1 DEF DequeueAdvance
  <2> QED
    BY <1>9, <1>0, <2>2 DEF DequeueAdvance, Pcs
<1>10. CASE HandlerNoCallback \/ HandlerNotify \/ HandlerClear \/ HandlerCallback
  BY <1>10, <1>0 DEF HandlerNoCallback, HandlerNotify, HandlerClear, HandlerCallback,
                     HandlerLeave, Pcs, HandlerPcs
<1>11. CASE UNCHANGED vars
  BY <1>11 DEF vars
<1> QED
  BY <1>1, <1>2, <1>3, <1>4, <1>5, <1>6, <1>7, <1>8, <1>9, <1>10, <1>11,
     <1>12, <1>13
  DEF Next, EnqueueStep, HandlerStep

(***************************************************************************)
(* The arithmetic of the ring.                                             *)
(***************************************************************************)

\* The used slots are fewer than the ring has.
LEMMA UsedRange ==
  ASSUME TypeOK
  PROVE  /\ Used \in Nat /\ Used < Capacity
         /\ read # write <=> Used > 0
         /\ Succ(write) = read <=> Used = Capacity - 1
BY ConstantsAreOK DEF ConstantsOK, TypeOK, Slots, Used, Succ

\* Offsets below the size of the ring name different slots.
LEMMA SlotInjective ==
  ASSUME TypeOK, NEW j \in 1..Capacity, NEW k \in 1..Capacity
  PROVE  /\ Slot(j) \in Slots
         /\ Slot(j) = Slot(k) => j = k
BY ConstantsAreOK DEF ConstantsOK, TypeOK, Slots, Slot

\* A claim lengthens the used part of the ring by one slot.
LEMMA ClaimRing ==
  ASSUME TypeOK, Succ(write) # read, write' = Succ(write), read' = read
  PROVE  /\ Used' = Used + 1
         /\ Slot(Used + 1) = write
         /\ \A k \in 1..Capacity : Slot(k)' = Slot(k)
BY ConstantsAreOK DEF ConstantsOK, TypeOK, Slots, Slot, Used, Succ

\* An advance of the read index shortens it by one.
LEMMA AdvanceRing ==
  ASSUME TypeOK, read # write, read' = Succ(read), write' = write
  PROVE  /\ Used' = Used - 1
         /\ \A k \in 1..Capacity-1 : Slot(k)' = Slot(k + 1)
BY ConstantsAreOK DEF ConstantsOK, TypeOK, Slots, Slot, Used, Succ

\* The used part depends on the two indices only.
LEMMA SameRing ==
  ASSUME read' = read, write' = write
  PROVE  /\ Used' = Used
         /\ \A k : Slot(k)' = Slot(k)
BY DEF Slot, Used

(***************************************************************************)
(* Each part of the invariant is preserved by every step.                  *)
(***************************************************************************)

\* Every step keeps who may run on top of whom.
LEMMA NextMode == IInv /\ [Next]_vars => ModeInv'
<1> SUFFICES ASSUME TypeOK, ModeInv, [Next]_vars PROVE ModeInv'
  BY DEF IInv
<1>0. 0 \in Levels /\ 0 \notin Irqs /\ Irqs \subseteq Levels /\ pc \in [Levels -> Pcs]
  BY ConstantsAreOK DEF ConstantsOK, Levels, Irqs, TypeOK
<1> USE <1>0 DEF ModeInv, Goto, At, HandlerPcs
<1>1. ASSUME NEW l \in Irqs, IrqEnter(l) \/ IrqReturn(l) PROVE ModeInv'
  BY <1>1 DEF IrqEnter, IrqReturn
<1>2. ASSUME NEW l \in Levels, Enqueue(l) \/ EnqueueReject(l) \/ EnqueueCheck(l) PROVE ModeInv'
  BY <1>2 DEF Enqueue, EnqueueReject, EnqueueCheck
<1>3. ASSUME NEW l \in Levels, EnqueueCas(l) \/ EnqueueCasFail(l) PROVE ModeInv'
  BY <1>3 DEF EnqueueCas, EnqueueCasFail, Claim
<1>4. ASSUME NEW l \in Levels, EnqueueStore(l) \/ Pend(l) PROVE ModeInv'
  BY <1>4 DEF EnqueueStore, Pend
<1>5. ASSUME SvcEnter \/ SvcReturn \/ RoutineReturn \/ Notify \/ PendSvEnter PROVE ModeInv'
  BY <1>5 DEF SvcEnter, SvcReturn, RoutineReturn, Notify, PendSvEnter
<1>6. CASE HandlerStep
  BY <1>6 DEF HandlerStep, HandlerEntry, DequeueFetch, DequeueAdvance, DequeueLoop,
              HandlerNoCallback, HandlerNotify, HandlerClear, HandlerCallback, HandlerLeave
<1>7. CASE UNCHANGED vars
  BY <1>7 DEF vars
<1> QED
  BY <1>1, <1>2, <1>3, <1>4, <1>5, <1>6, <1>7 DEF Next, EnqueueStep

\* Most steps leave the ring, the history and the claims in progress alone.
Frame ==
    /\ UNCHANGED <<read, write, slot, fifo, accepted, local, item, issued>>
    /\ \A l \in Levels : \A p \in {"cas", "store"} : pc'[l] = p <=> pc[l] = p
    /\ \A l \in Levels : pc'[l] = "check" => pc[l] = "check"

\* Only enqueues and the advance of the read index touch the ring and the FIFO.
LEMMA FrameSteps ==
  ASSUME TypeOK, ModeInv, [Next]_vars
  PROVE  \/ Frame
         \/ \E l \in Levels : Enqueue(l) \/ EnqueueCheck(l) \/ EnqueueCas(l)
                              \/ EnqueueCasFail(l) \/ EnqueueStore(l)
         \/ DequeueAdvance
<1>0. 0 \in Levels /\ 0 \notin Irqs /\ Irqs \subseteq Levels /\ pc \in [Levels -> Pcs]
  BY ConstantsAreOK DEF ConstantsOK, Levels, Irqs, TypeOK
<1> USE <1>0 DEF ModeInv, Goto, At, HandlerPcs, Frame, ring, hist
<1>1. ASSUME NEW l \in Irqs, IrqEnter(l) \/ IrqReturn(l) PROVE Frame
  BY <1>1 DEF IrqEnter, IrqReturn
<1>2. ASSUME NEW l \in Levels, EnqueueReject(l) \/ Pend(l) PROVE Frame
  BY <1>2 DEF EnqueueReject, Pend
<1>3. ASSUME SvcEnter \/ SvcReturn \/ RoutineReturn \/ Notify \/ PendSvEnter PROVE Frame
  BY <1>3 DEF SvcEnter, SvcReturn, RoutineReturn, Notify, PendSvEnter
<1>4. CASE HandlerEntry \/ DequeueFetch \/ DequeueLoop
  BY <1>4 DEF HandlerEntry, DequeueFetch, DequeueLoop
<1>5. CASE HandlerNoCallback \/ HandlerNotify \/ HandlerClear \/ HandlerCallback
  BY <1>5 DEF HandlerNoCallback, HandlerNotify, HandlerClear, HandlerCallback, HandlerLeave
<1>6. CASE UNCHANGED vars
  BY <1>6 DEF vars
<1> QED
  BY <1>1, <1>2, <1>3, <1>4, <1>5, <1>6 DEF Next, EnqueueStep, HandlerStep

\* While level 0 takes a step nothing above it is in an enqueue, so no claim
\* is unfinished when the handler fetches or advances.
LEMMA HandlerAlone ==
  ASSUME TypeOK, NEW p \in Pcs, At(0, p), p \notin {"check", "cas", "store"}, NEW l \in Levels
  PROVE  pc[l] \notin {"check", "cas", "store"}
<1>1. CASE l = 0
  BY <1>1 DEF At
<1>2. CASE l # 0
  <2>1. l > 0
    BY <1>2, ConstantsAreOK DEF ConstantsOK, Levels
  <2> QED
    BY <2>1 DEF At, Quiet
<1> QED
  BY <1>1, <1>2

\* Every step keeps room for the calls that have claimed a slot.
LEMMA NextRoom ==
  ASSUME TypeOK, ModeInv, RoomInv, HandlerInv, [Next]_vars
  PROVE  RoomInv'
<1>1. CASE Frame
  BY <1>1, SameRing DEF Frame, RoomInv, Succ
<1>2. ASSUME NEW l \in Levels, Enqueue(l) \/ EnqueueCheck(l) \/ EnqueueCasFail(l)
      PROVE  RoomInv'
  <2>1. Used' = Used /\ Len(fifo') = Len(fifo)
    BY <1>2, SameRing DEF Enqueue, EnqueueCheck, EnqueueCasFail, ring, hist
  <2>2. ASSUME NEW m \in Levels, pc'[m] = "cas" PROVE Succ(local'[m]) # read'
    BY <1>2, <2>2 DEF Enqueue, EnqueueCheck, EnqueueCasFail, ring, hist, Goto, At,
                      RoomInv, TypeOK, Full, Succ
  <2> QED
    BY <2>1, <2>2 DEF RoomInv, Succ
<1>3. ASSUME NEW l \in Levels, EnqueueCas(l) PROVE RoomInv'
  <2>1. Used' = Used + 1
    BY <1>3, ClaimRing DEF EnqueueCas, Claim, At, RoomInv
  <2>2. Len(fifo') = Len(fifo) + 1
    BY <1>3 DEF EnqueueCas, Claim, TypeOK
  <2>3. ASSUME NEW m \in Levels, pc'[m] = "cas" PROVE Succ(local'[m]) # read'
    BY <1>3, <2>3 DEF EnqueueCas, Claim, Goto, At, RoomInv, TypeOK
  <2> QED
    BY <2>1, <2>2, <2>3 DEF RoomInv, Succ
<1>4. ASSUME NEW l \in Levels, EnqueueStore(l) PROVE RoomInv'
  <2>1. Used' = Used /\ Len(fifo') = Len(fifo)
    BY <1>4, SameRing DEF EnqueueStore, hist
  <2>2. ASSUME NEW m \in Levels, pc'[m] = "cas" PROVE Succ(local'[m]) # read'
    BY <1>4, <2>2 DEF EnqueueStore, hist, Goto, At, RoomInv, TypeOK
  <2> QED
    BY <2>1, <2>2 DEF RoomInv, Succ
<1>5. CASE DequeueAdvance
  <2>1. fifo # <<>> /\ read' = Succ(read) /\ write' = write
    BY <1>5 DEF DequeueAdvance, HandlerInv, At
  <2>2. Len(fifo') = Len(fifo) - 1 /\ Len(fifo) > 0
    BY <1>5, <2>1 DEF DequeueAdvance, TypeOK
  <2>3. Used' = Used - 1
    BY <2>1, <2>2, UsedRange, AdvanceRing DEF RoomInv
  <2>4. ASSUME NEW m \in Levels PROVE pc'[m] # "cas"
    <3>1. pc[m] # "cas"
      BY <1>5, HandlerAlone DEF DequeueAdvance, Pcs, HandlerPcs
    <3> QED
      BY <1>5, <3>1 DEF DequeueAdvance, Goto, TypeOK
  <2> QED
    BY <2>2, <2>3, <2>4 DEF RoomInv
<1> QED
  BY <1>1, <1>2, <1>3, <1>4, <1>5, FrameSteps

\* Every step keeps the stale copies of queue_write within the used part.
LEMMA NextLocal ==
  ASSUME TypeOK, ModeInv, RoomInv, LocalInv, HandlerInv, [Next]_vars
  PROVE  LocalInv'
<1>0. Used \in Nat /\ Used < Capacity
  BY UsedRange
<1>1. CASE Frame
  BY <1>1, SameRing DEF Frame, LocalInv
<1>2. ASSUME NEW l \in Levels, Enqueue(l) \/ EnqueueCasFail(l)
      PROVE  LocalInv'
  <2>1. read' = read /\ write' = write /\ local' = [local EXCEPT ![l] = write]
    BY <1>2 DEF Enqueue, EnqueueCasFail, ring
  <2>2. Used' = Used /\ \A k : Slot(k)' = Slot(k)
    BY <2>1, SameRing
  <2>3. \E k \in 1..Used+1 : write = Slot(k)
    <3>1. write = Slot(Used + 1)
      BY ConstantsAreOK DEF ConstantsOK, TypeOK, Slots, Used, Slot
    <3> QED
      BY <1>0, <3>1
  <2>4. ASSUME NEW m \in Levels, pc'[m] = "check"
        PROVE  \E k \in 1..Used+1 : local'[m] = Slot(k)
    <3>1. CASE m = l
      BY <2>1, <2>3, <3>1 DEF TypeOK
    <3>2. CASE m # l
      <4>1. pc[m] = "check" /\ local'[m] = local[m]
        BY <1>2, <2>1, <2>4, <3>2 DEF Enqueue, EnqueueCasFail, Goto, TypeOK
      <4> QED
        BY <4>1 DEF LocalInv
    <3> QED
      BY <3>1, <3>2
  <2> QED
    BY <2>2, <2>4 DEF LocalInv
<1>3. ASSUME NEW l \in Levels, EnqueueCheck(l) \/ EnqueueStore(l) PROVE LocalInv'
  <2>1. read' = read /\ write' = write /\ local' = local
    BY <1>3 DEF EnqueueCheck, EnqueueStore, ring
  <2>2. \A m \in Levels : pc'[m] = "check" => pc[m] = "check"
    BY <1>3 DEF EnqueueCheck, EnqueueStore, Goto, TypeOK
  <2> QED
    BY <2>1, <2>2, SameRing DEF LocalInv
<1>4. ASSUME NEW l \in Levels, EnqueueCas(l) PROVE LocalInv'
  <2>1. Succ(write) # read /\ write' = Succ(write) /\ read' = read /\ local' = local
    BY <1>4 DEF EnqueueCas, Claim, At, RoomInv
  <2>2. Used' = Used + 1 /\ \A k \in 1..Capacity : Slot(k)' = Slot(k)
    BY <2>1, ClaimRing
  <2>3. ASSUME NEW m \in Levels, pc'[m] = "check"
        PROVE  \E k \in 1..Used'+1 : local'[m] = Slot(k)'
    <3>1. pc[m] = "check"
      BY <1>4, <2>3 DEF EnqueueCas, Claim, Goto, TypeOK
    <3>2. PICK k \in 1..Used+1 : local[m] = Slot(k)
      BY <3>1 DEF LocalInv
    <3>3. k \in 1..Used'+1 /\ k \in 1..Capacity
      BY <1>0, <2>2, ConstantsAreOK DEF ConstantsOK
    <3> QED
      BY <2>1, <2>2, <3>2, <3>3
  <2> QED
    BY <2>3 DEF LocalInv
<1>5. CASE DequeueAdvance
  <2>1. ASSUME NEW m \in Levels PROVE pc'[m] # "check"
    BY <1>5, HandlerAlone DEF DequeueAdvance, Pcs, HandlerPcs, Goto, TypeOK
  <2> QED
    BY <2>1 DEF LocalInv
<1> QED
  BY <1>1, <1>2, <1>3, <1>4, <1>5, FrameSteps

\* Every step keeps a claimed slot to its owner.
LEMMA NextClaim ==
  ASSUME TypeOK, ModeInv, RoomInv, ClaimInv, HandlerInv, CallInv, [Next]_vars
  PROVE  ClaimInv'
<1>1. CASE Frame
  BY <1>1, SameRing DEF Frame, ClaimInv
<1>2. ASSUME NEW l \in Levels,
             Enqueue(l) \/ EnqueueCheck(l) \/ EnqueueCasFail(l) \/ EnqueueStore(l)
      PROVE  ClaimInv'
  <2>1. read' = read /\ write' = write /\ fifo' = fifo
    BY <1>2 DEF Enqueue, EnqueueCheck, EnqueueCasFail, EnqueueStore, ring, hist
  <2>2. ASSUME NEW m \in Levels, pc'[m] = "store"
        PROVE  pc[m] = "store" /\ local'[m] = local[m] /\ item'[m] = item[m]
    BY <1>2, <2>2 DEF Enqueue, EnqueueCheck, EnqueueCasFail, EnqueueStore, Goto, At, TypeOK
  <2> QED
    BY <2>1, <2>2, SameRing DEF ClaimInv
<1>3. ASSUME NEW l \in Levels, EnqueueCas(l) PROVE ClaimInv'
  <2>0. PICK n \in 1..Capacity : n = Used + 1
    BY UsedRange, ConstantsAreOK DEF ConstantsOK
  <2>1. /\ Slot(n)' = local[l]
        /\ \A k \in 1..Len(fifo) : Slot(k)' = Slot(k)
    <3>1. Succ(write) # read /\ write = local[l] /\ write' = Succ(write) /\ read' = read
      BY <1>3 DEF EnqueueCas, Claim, At, RoomInv
    <3>2. Slot(n) = write /\ \A k \in 1..Capacity : Slot(k)' = Slot(k)
      BY <2>0, <3>1, ClaimRing
    <3> QED
      BY <2>0, <3>1, <3>2, UsedRange, ConstantsAreOK DEF RoomInv, ConstantsOK
  <2>2. /\ Len(fifo') = n
        /\ fifo'[n] = item[l]
        /\ \A k \in 1..Len(fifo) : fifo'[k] = fifo[k]
    <3>1. item[l] \in Calls
      BY <1>3 DEF EnqueueCas, At, CallInv, TypeOK, Calls, NoCall
    <3> QED
      BY <1>3, <2>0, <3>1 DEF EnqueueCas, Claim, RoomInv, TypeOK
  <2>3. local' = local /\ item' = item
    BY <1>3 DEF EnqueueCas, Claim
  <2> SUFFICES ASSUME NEW m \in Levels, pc'[m] = "store"
               PROVE  \E k \in 1..Len(fifo') : local'[m] = Slot(k)' /\ item'[m] = fifo'[k]
    BY DEF ClaimInv
  <2>4. CASE m = l
    <3>1. n \in 1..Len(fifo')
      BY <2>2
    <3> QED
      BY <2>1, <2>2, <2>3, <2>4, <3>1
  <2>5. CASE m # l
    <3>1. pc[m] = "store"
      BY <1>3, <2>5 DEF EnqueueCas, Claim, Goto, TypeOK
    <3>2. PICK k \in 1..Len(fifo) : local[m] = Slot(k) /\ item[m] = fifo[k]
      BY <3>1 DEF ClaimInv
    <3>3. k \in 1..Len(fifo')
      BY <2>0, <2>2 DEF RoomInv
    <3> QED
      BY <2>1, <2>2, <2>3, <3>2, <3>3
  <2> QED
    BY <2>4, <2>5
<1>4. CASE DequeueAdvance
  <2>1. ASSUME NEW m \in Levels PROVE pc'[m] # "store"
    BY <1>4, HandlerAlone DEF DequeueAdvance, Pcs, HandlerPcs, Goto, TypeOK
  <2> QED
    BY <2>1 DEF ClaimInv
<1> QED
  BY <1>1, <1>2, <1>3, <1>4, FrameSteps

\* Every step keeps the used slots filled but for those just claimed.
LEMMA NextSlot ==
  ASSUME TypeOK, ModeInv, RoomInv, ClaimInv, SlotInv, HandlerInv, CallInv, [Next]_vars
  PROVE  SlotInv'
<1>0. Len(fifo) \in Nat /\ Len(fifo) < Capacity /\ Len(fifo) = Used
  BY UsedRange DEF RoomInv, TypeOK
<1>1. CASE Frame
  BY <1>1, SameRing DEF Frame, SlotInv
<1>2. ASSUME NEW l \in Levels, Enqueue(l) \/ EnqueueCheck(l) \/ EnqueueCasFail(l)
      PROVE  SlotInv'
  <2>1. read' = read /\ write' = write /\ fifo' = fifo /\ slot' = slot
    BY <1>2 DEF Enqueue, EnqueueCheck, EnqueueCasFail, ring, hist
  <2>2. ASSUME NEW m \in Levels, pc[m] = "store"
        PROVE  pc'[m] = "store" /\ local'[m] = local[m] /\ item'[m] = item[m]
    BY <1>2, <2>2 DEF Enqueue, EnqueueCheck, EnqueueCasFail, Goto, At, TypeOK
  <2> QED
    BY <2>1, <2>2, SameRing DEF SlotInv
<1>3. ASSUME NEW l \in Levels, EnqueueCas(l) PROVE SlotInv'
  <2>0. PICK n \in 1..Capacity : n = Used + 1
    BY UsedRange, ConstantsAreOK DEF ConstantsOK
  <2>1. /\ Slot(n)' = local[l]
        /\ \A k \in 1..Len(fifo) : Slot(k)' = Slot(k)
    <3>1. Succ(write) # read /\ write = local[l] /\ write' = Succ(write) /\ read' = read
      BY <1>3 DEF EnqueueCas, Claim, At, RoomInv
    <3>2. Slot(n) = write /\ \A k \in 1..Capacity : Slot(k)' = Slot(k)
      BY <2>0, <3>1, ClaimRing
    <3> QED
      BY <2>0, <3>1, <3>2, UsedRange, ConstantsAreOK DEF RoomInv, ConstantsOK
  <2>2. /\ Len(fifo') = n
        /\ fifo'[n] = item[l]
        /\ \A k \in 1..Len(fifo) : fifo'[k] = fifo[k]
    <3>1. item[l] \in Calls
      BY <1>3 DEF EnqueueCas, At, CallInv, TypeOK, Calls, NoCall
    <3> QED
      BY <1>3, <2>0, <3>1 DEF EnqueueCas, Claim, RoomInv, TypeOK
  <2>3. local' = local /\ item' = item /\ slot' = slot
    BY <1>3 DEF EnqueueCas, Claim
  <2>4. \A m \in Levels : pc[m] = "store" \/ m = l => pc'[m] = "store"
    BY <1>3 DEF EnqueueCas, Claim, Goto, TypeOK
  <2> SUFFICES ASSUME NEW k \in 1..Len(fifo')
               PROVE  \/ slot'[Slot(k)'] = fifo'[k]
                      \/ \E m \in Levels :
                            pc'[m] = "store" /\ local'[m] = Slot(k)' /\ item'[m] = fifo'[k]
    BY DEF SlotInv
  <2>5. CASE k = n
    BY <2>1, <2>2, <2>3, <2>4, <2>5
  <2>6. CASE k \in 1..Len(fifo)
    BY <2>1, <2>2, <2>3, <2>4, <2>6 DEF SlotInv
  <2> QED
    BY <1>0, <2>0, <2>2, <2>5, <2>6
<1>4. ASSUME NEW l \in Levels, EnqueueStore(l) PROVE SlotInv'
  <2>1. /\ read' = read /\ write' = write /\ fifo' = fifo
        /\ local' = local /\ item' = item
        /\ slot' = [slot EXCEPT ![local[l]] = item[l]]
    BY <1>4 DEF EnqueueStore, hist
  <2>2. \A m \in Levels : pc[m] = "store" /\ m # l => pc'[m] = "store"
    BY <1>4 DEF EnqueueStore, Goto, TypeOK
  <2>3. PICK j \in 1..Len(fifo) : local[l] = Slot(j) /\ item[l] = fifo[j]
    BY <1>4 DEF EnqueueStore, At, ClaimInv
  <2>4. \A k \in 1..Len(fifo) : Slot(k) \in Slots /\ (Slot(k) = Slot(j) => k = j)
    BY <1>0, SlotInjective, ConstantsAreOK DEF ConstantsOK
  <2> SUFFICES ASSUME NEW k \in 1..Len(fifo)
               PROVE  \/ slot'[Slot(k)] = fifo[k]
                      \/ \E m \in Levels :
                            pc'[m] = "store" /\ local[m] = Slot(k) /\ item[m] = fifo[k]
    BY <2>1, SameRing DEF SlotInv
  <2>5. CASE k = j
    BY <2>1, <2>3, <2>4, <2>5 DEF TypeOK
  <2>6. CASE k # j
    <3>1. slot'[Slot(k)] = slot[Slot(k)]
      BY <2>1, <2>3, <2>4, <2>6 DEF TypeOK
    <3>2. local[l] # Slot(k)
      BY <2>3, <2>4, <2>6
    <3> QED
      BY <2>2, <3>1, <3>2 DEF SlotInv
  <2> QED
    BY <2>5, <2>6
<1>5. CASE DequeueAdvance
  <2>1. fifo # <<>> /\ read' = Succ(read) /\ write' = write /\ slot' = slot
    BY <1>5 DEF DequeueAdvance, HandlerInv, At
  <2>2. /\ Len(fifo') = Len(fifo) - 1 /\ Len(fifo) > 0
        /\ \A k \in 1..Len(fifo)-1 : fifo'[k] = fifo[k + 1]
    BY <1>5, <2>1 DEF DequeueAdvance, TypeOK
  <2>3. \A k \in 1..Len(fifo)-1 : Slot(k)' = Slot(k + 1)
    BY <1>0, <2>1, <2>2, UsedRange, AdvanceRing, ConstantsAreOK DEF ConstantsOK
  <2>4. \A m \in Levels : pc[m] # "store"
    BY <1>5, HandlerAlone DEF DequeueAdvance, Pcs, HandlerPcs
  <2>5. \A k \in 1..Len(fifo) : slot[Slot(k)] = fifo[k]
    BY <2>4 DEF SlotInv
  <2>6. ASSUME NEW k \in 1..Len(fifo') PROVE slot'[Slot(k)'] = fifo'[k]
    <3>1. k \in 1..Len(fifo)-1 /\ k + 1 \in 1..Len(fifo)
      BY <2>2, <1>0
    <3> QED
      BY <2>1, <2>2, <2>3, <2>5, <3>1
  <2> QED
    BY <2>6 DEF SlotInv
<1> QED
  BY <1>1, <1>2, <1>3, <1>4, <1>5, FrameSteps

\* Every step keeps what the handler knows of the ring.
LEMMA NextHandler ==
  ASSUME TypeOK, ModeInv, RoomInv, SlotInv, HandlerInv, CallInv, [Next]_vars
  PROVE  HandlerInv'
<1>0. 0 \in Levels /\ 0 \notin Irqs /\ Irqs \subseteq Levels /\ pc \in [Levels -> Pcs]
  BY ConstantsAreOK DEF ConstantsOK, Levels, Irqs, TypeOK
<1> USE <1>0 DEF HandlerInv, Goto, At, ring, hist
<1>1. ASSUME NEW l \in Irqs, IrqEnter(l) \/ IrqReturn(l) PROVE HandlerInv'
  BY <1>1 DEF IrqEnter, IrqReturn, Succ
<1>2. ASSUME NEW l \in Levels, Enqueue(l) \/ EnqueueReject(l) \/ EnqueueCheck(l)
      PROVE  HandlerInv'
  BY <1>2 DEF Enqueue, EnqueueReject, EnqueueCheck, Succ
<1>3. ASSUME NEW l \in Levels, EnqueueCasFail(l) \/ EnqueueStore(l) \/ Pend(l)
      PROVE  HandlerInv'
  BY <1>3 DEF EnqueueCasFail, EnqueueStore, Pend, Succ
<1>4. ASSUME NEW l \in Levels, EnqueueCas(l) PROVE HandlerInv'
  <2>1. item[l] \in Calls /\ fifo \in Seq(Calls)
    BY <1>4 DEF EnqueueCas, CallInv, TypeOK, Calls, NoCall
  <2>2. fifo' # <<>> /\ (fifo # <<>> => fifo'[1] = fifo[1])
    BY <1>4, <2>1 DEF EnqueueCas, Claim
  <2>3. read' = read /\ hread' = hread /\ cur' = cur /\ mode' = mode
    BY <1>4 DEF EnqueueCas, Claim
  <2>4. read # write'
    BY <1>4 DEF EnqueueCas, Claim, RoomInv
  <2>5. pc'[0] \notin {"fetch", "advance"} \/ pc'[0] = pc[0]
    BY <1>4 DEF EnqueueCas, Claim
  <2>6. pc'[0] \notin {"entry", "advance"} => pc[0] \notin {"entry", "advance"}
    BY <1>4 DEF EnqueueCas, Claim
  <2> QED
    BY <2>2, <2>3, <2>4, <2>5, <2>6 DEF Succ
<1>5. ASSUME SvcEnter \/ SvcReturn \/ RoutineReturn \/ Notify \/ PendSvEnter
      PROVE  HandlerInv'
  BY <1>5 DEF SvcEnter, SvcReturn, RoutineReturn, Notify, PendSvEnter, Succ
<1>6. CASE HandlerEntry
  BY <1>6 DEF HandlerEntry, Succ
<1>7. CASE DequeueFetch
  <2>1. \A m \in Levels : pc[m] # "store"
    BY <1>7, HandlerAlone DEF DequeueFetch, Pcs, HandlerPcs
  <2>2. hread = read /\ Used > 0 /\ Len(fifo) > 0
    BY <1>7, UsedRange DEF DequeueFetch, RoomInv
  <2>3. Slot(1) = read
    BY ConstantsAreOK DEF Slot, TypeOK, Slots, ConstantsOK
  <2>4. slot[read] = fifo[1]
    <3>1. 1 \in 1..Len(fifo)
      BY <2>2 DEF TypeOK
    <3> QED
      BY <2>1, <2>3, <3>1 DEF SlotInv
  <2>5. fifo # <<>>
    BY <2>2
  <2> QED
    BY <1>7, <2>2, <2>4, <2>5 DEF DequeueFetch, Succ
<1>8. CASE DequeueAdvance
  BY <1>8 DEF DequeueAdvance
<1>9. CASE DequeueLoop
  <2>1. mode = "pendsv"
    BY <1>9 DEF DequeueLoop, ModeInv, TypeOK, HandlerPcs
  <2> QED
    BY <1>9, <2>1 DEF DequeueLoop, Succ
<1>10. CASE HandlerNoCallback \/ HandlerNotify \/ HandlerClear \/ HandlerCallback
  BY <1>10 DEF HandlerNoCallback, HandlerNotify, HandlerClear, HandlerCallback, HandlerLeave, Succ
<1>11. CASE UNCHANGED vars
  BY <1>11 DEF vars, Succ
<1> QED
  BY <1>1, <1>2, <1>3, <1>4, <1>5, <1>6, <1>7, <1>8, <1>9, <1>10, <1>11
  DEF Next, EnqueueStep, HandlerStep

\* Every step keeps a call being enqueued a fresh one.
LEMMA NextCall ==
  ASSUME TypeOK, ModeInv, CallInv, [Next]_vars
  PROVE  CallInv'
<1>1. CASE Frame
  BY <1>1 DEF Frame, CallInv
<1>2. ASSUME NEW l \in Levels, Enqueue(l) PROVE CallInv'
  <2>1. /\ issued' = issued + 1 /\ accepted' = accepted
        /\ item' = [item EXCEPT ![l] = issued + 1]
        /\ pc' = [pc EXCEPT ![l] = "check"]
    BY <1>2 DEF Enqueue, hist, Goto
  <2>2. issued \in Nat /\ \A m \in Levels : item[m] \in Nat /\ item[m] <= issued
    BY ConstantsAreOK DEF TypeOK, CallInv, ConstantsOK
  <2>3. \A c \in accepted : c \in Nat /\ c <= issued
    BY ConstantsAreOK DEF TypeOK, CallInv, ConstantsOK, Calls
  <2>4. \A m \in Levels : item'[m] = IF m = l THEN issued + 1 ELSE item[m]
    BY <2>1 DEF TypeOK
  <2>5. \A m \in Levels : pc'[m] = IF m = l THEN "check" ELSE pc[m]
    BY <2>1 DEF TypeOK
  <2>6. /\ \A c \in accepted' : c <= issued'
        /\ \A m \in Levels : item'[m] <= issued'
    BY <2>1, <2>2, <2>3, <2>4
  <2>7. ASSUME NEW m \in Levels, pc'[m] \in {"check", "cas"}
        PROVE  item'[m] # NoCall /\ item'[m] \notin accepted'
    BY <2>1, <2>2, <2>3, <2>4, <2>5, <2>7 DEF CallInv, NoCall
  <2>8. ASSUME NEW m \in Levels, NEW n \in Levels, m # n,
               pc'[m] \in {"check", "cas"}, pc'[n] \in {"check", "cas"}
        PROVE  item'[m] # item'[n]
    BY <2>2, <2>4, <2>5, <2>8 DEF CallInv
  <2> QED
    BY <2>6, <2>7, <2>8 DEF CallInv
<1>3. ASSUME NEW l \in Levels, EnqueueCheck(l) \/ EnqueueCasFail(l) \/ EnqueueStore(l)
      PROVE  CallInv'
  <2>1. accepted' = accepted /\ item' = item /\ issued' = issued
    BY <1>3 DEF EnqueueCheck, EnqueueCasFail, EnqueueStore, hist
  <2>2. \A m \in Levels : pc'[m] \in {"check", "cas"} => pc[m] \in {"check", "cas"}
    BY <1>3 DEF EnqueueCheck, EnqueueCasFail, EnqueueStore, At, Goto, TypeOK
  <2> QED
    BY <2>1, <2>2 DEF CallInv
<1>4. ASSUME NEW l \in Levels, EnqueueCas(l) PROVE CallInv'
  <2>1. accepted' = accepted \union {item[l]} /\ item' = item /\ issued' = issued
    BY <1>4 DEF EnqueueCas, Claim
  <2>2. /\ pc[l] = "cas"
        /\ \A m \in Levels : pc'[m] \in {"check", "cas"} => m # l /\ pc[m] \in {"check", "cas"}
    BY <1>4 DEF EnqueueCas, Claim, At, Goto, TypeOK
  <2> QED
    BY <2>1, <2>2 DEF CallInv
<1>5. CASE DequeueAdvance
  <2>1. accepted' = accepted /\ item' = item /\ issued' = issued
    BY <1>5 DEF DequeueAdvance
  <2>2. \A m \in Levels : pc'[m] \in {"check", "cas"} => pc[m] \in {"check", "cas"}
    BY <1>5 DEF DequeueAdvance, At, Goto, TypeOK
  <2> QED
    BY <2>1, <2>2 DEF CallInv
<1> QED
  BY <1>1, <1>2, <1>3, <1>4, <1>5, FrameSteps

\* Every step keeps PendSV pended while a task waits.
LEMMA NextWakeup ==
  ASSUME IInv, [Next]_vars
  PROVE  WorkIsPended' /\ NotifyIsPended'
<1>0. /\ 0 \in Levels /\ 0 \notin Irqs /\ Irqs \subseteq Levels /\ pc \in [Levels -> Pcs]
      /\ ModeInv /\ WorkIsPended /\ NotifyIsPended
  BY ConstantsAreOK DEF ConstantsOK, Levels, Irqs, TypeOK, IInv
<1> USE <1>0 DEF WorkIsPended, NotifyIsPended, Draining, Goto, At, ring, hist
<1>1. ASSUME NEW l \in Irqs, IrqEnter(l) \/ IrqReturn(l) PROVE WorkIsPended' /\ NotifyIsPended'
  BY <1>1 DEF IrqEnter, IrqReturn
<1>2. ASSUME NEW l \in Levels, Enqueue(l) \/ EnqueueReject(l) \/ EnqueueCheck(l)
      PROVE  WorkIsPended' /\ NotifyIsPended'
  BY <1>2 DEF Enqueue, EnqueueReject, EnqueueCheck
<1>3. ASSUME NEW l \in Levels, EnqueueCasFail(l) \/ EnqueueStore(l)
      PROVE  WorkIsPended' /\ NotifyIsPended'
  BY <1>3 DEF EnqueueCasFail, EnqueueStore
<1>4. ASSUME NEW l \in Levels, EnqueueCas(l) \/ Pend(l)
      PROVE  WorkIsPended' /\ NotifyIsPended'
  BY <1>4 DEF EnqueueCas, Claim, Pend
<1>5. ASSUME SvcEnter \/ SvcReturn \/ RoutineReturn \/ Notify \/ PendSvEnter
      PROVE  WorkIsPended' /\ NotifyIsPended'
  BY <1>5 DEF SvcEnter, SvcReturn, RoutineReturn, Notify, PendSvEnter, ModeInv
<1>6. ASSUME read = write PROVE fifo = <<>>
  <2>1. Len(fifo) = 0 /\ fifo \in Seq(Calls)
    BY <1>6, UsedRange DEF IInv, RoomInv, TypeOK
  <2> QED
    BY <2>1
<1>7. pc[0] \in HandlerPcs => mode = "pendsv"
  BY DEF ModeInv, IInv, TypeOK, HandlerPcs
<1>8. CASE HandlerEntry
  BY <1>6, <1>7, <1>8 DEF HandlerEntry, HandlerPcs
<1>9. CASE DequeueLoop
  <2>1. hread = read
    BY <1>7, <1>9 DEF DequeueLoop, IInv, HandlerInv, HandlerPcs
  <2> QED
    BY <1>6, <1>7, <1>9, <2>1 DEF DequeueLoop, HandlerPcs
<1>10. CASE DequeueFetch \/ DequeueAdvance
  BY <1>7, <1>10 DEF DequeueFetch, DequeueAdvance, HandlerPcs
<1>11. CASE HandlerNoCallback \/ HandlerNotify \/ HandlerClear \/ HandlerCallback
  BY <1>7, <1>11
  DEF HandlerNoCallback, HandlerNotify, HandlerClear, HandlerCallback, HandlerLeave, HandlerPcs
<1>12. CASE UNCHANGED vars
  BY <1>12 DEF vars
<1> QED
  BY <1>1, <1>2, <1>3, <1>4, <1>5, <1>8, <1>9, <1>10, <1>11, <1>12
  DEF Next, EnqueueStep, HandlerStep

\* The invariant holds at reset, with an empty ring.
LEMMA InitIInv == Init => IInv
<1> SUFFICES ASSUME Init PROVE IInv
  OBVIOUS
<1>1. TypeOK
  BY InitType
<1>2. Used = 0 /\ Len(fifo) = 0 /\ fifo = <<>>
  BY DEF Init, Used
<1>3. 0 \in Levels /\ Irqs \subseteq Levels
  BY ConstantsAreOK DEF ConstantsOK, Levels, Irqs
<1>4. ModeInv /\ RoomInv /\ LocalInv /\ ClaimInv /\ SlotInv
  BY <1>2, <1>3 DEF Init, ModeInv, RoomInv, LocalInv, ClaimInv, SlotInv, HandlerPcs
<1>5. HandlerInv /\ CallInv /\ WorkIsPended /\ NotifyIsPended
  BY <1>2, <1>3 DEF Init, HandlerInv, CallInv, WorkIsPended, NotifyIsPended, NoCall
<1> QED
  BY <1>1, <1>4, <1>5 DEF IInv

\* The invariant holds in every reachable state, for every ring size, every
\* nesting depth and every number of calls.
THEOREM Invariance == Spec => []IInv
<1>1. IInv /\ [Next]_vars => IInv'
  BY NextType, NextMode, NextRoom, NextLocal, NextClaim, NextSlot, NextHandler, NextCall,
     NextWakeup
  DEF IInv
<1> QED
  BY <1>1, InitIInv, PTL DEF Spec

\* armv6m_pendsv.c keeps its variables in their types.
THEOREM TypeCorrect == Spec => []TypeOK
<1>1. IInv => TypeOK
  BY DEF IInv
<1> QED
  BY <1>1, Invariance, PTL

\* armv6m_pendsv_dequeue always copies out the oldest accepted call, never a
\* slot that is claimed but not filled and never stale content.
THEOREM RunsOldestAlways == Spec => []RunsOldest
<1>1. IInv => RunsOldest
  BY DEF IInv, HandlerInv, RunsOldest, TypeOK
<1> QED
  BY <1>1, Invariance, PTL

\* No accepted call and no notification waits without a PendSV to come.
THEOREM NoLostWakeup == Spec => [](WorkIsPended /\ NotifyIsPended)
<1>1. IInv => WorkIsPended /\ NotifyIsPended
  BY DEF IInv
<1> QED
  BY <1>1, Invariance, PTL

\* armv6m_pendsv_enqueue refuses a call only while Capacity-1 calls wait.
THEOREM RejectsOnlyWhenFullAlways == Spec => RejectsOnlyWhenFull
<1>1. ASSUME IInv, [Next]_vars,
             NEW l \in Levels, pc[l] = "check", pc'[l] = "body"
      PROVE  Len(fifo) = Capacity - 1
  <2>1. TypeOK /\ Used \in Nat /\ Used < Capacity /\ Len(fifo) = Used
    BY <1>1, UsedRange DEF IInv, RoomInv
  <2>2. Succ(local[l]) = read
    <3>0. l \in Levels /\ pc[l] = "check" /\ pc'[l] = "body" /\ pc \in [Levels -> Pcs]
          /\ 0 \in Levels /\ Irqs \subseteq Levels
      BY <1>1, <2>1, ConstantsAreOK DEF ConstantsOK, TypeOK, Levels, Irqs
    <3> USE <3>0 DEF Goto, At, Full
    <3>1. ASSUME NEW m \in Irqs, IrqEnter(m) \/ IrqReturn(m) PROVE FALSE
      BY <3>1 DEF IrqEnter, IrqReturn
    <3>2. ASSUME NEW m \in Levels, Enqueue(m) \/ EnqueueCheck(m) \/ EnqueueCas(m)
                                   \/ EnqueueCasFail(m) \/ EnqueueStore(m) \/ Pend(m)
          PROVE  FALSE
      BY <3>2 DEF Enqueue, EnqueueCheck, EnqueueCas, Claim, EnqueueCasFail, EnqueueStore, Pend
    <3>3. ASSUME NEW m \in Levels, EnqueueReject(m) PROVE Succ(local[l]) = read
      BY <3>3 DEF EnqueueReject
    <3>4. ASSUME SvcEnter \/ SvcReturn \/ RoutineReturn \/ Notify \/ PendSvEnter PROVE FALSE
      BY <3>4 DEF SvcEnter, SvcReturn, RoutineReturn, Notify, PendSvEnter
    <3>5. ASSUME HandlerStep PROVE FALSE
      BY <3>5 DEF HandlerStep, HandlerEntry, DequeueFetch, DequeueAdvance, DequeueLoop,
                  HandlerNoCallback, HandlerNotify, HandlerClear, HandlerCallback, HandlerLeave
    <3>6. ~UNCHANGED vars
      BY DEF vars
    <3> QED
      BY <1>1, <3>1, <3>2, <3>3, <3>4, <3>5, <3>6 DEF Next, EnqueueStep
  <2>3. PICK k \in 1..Used+1 : local[l] = Slot(k)
    BY <1>1 DEF IInv, LocalInv
  <2>4. k = Capacity
    BY <2>1, <2>2, <2>3, ConstantsAreOK DEF ConstantsOK, TypeOK, Slots, Slot, Succ
  <2> QED
    BY <2>1, <2>3, <2>4, ConstantsAreOK DEF ConstantsOK
<1>2. IInv /\ [Next]_vars =>
        [\A l \in Levels :
            pc[l] = "check" /\ pc'[l] = "body" => Len(fifo) = Capacity - 1]_vars
  BY <1>1
<1> QED
  BY <1>2, Invariance, PTL DEF Spec, RejectsOnlyWhenFull

(***************************************************************************)
(* The ring implements the bounded FIFO.                                   *)
(***************************************************************************)

\* Every step of the ring is a step of the FIFO, or none.
LEMMA StepRefines == IInv /\ [Next]_vars => [TQ!TQNext]_(TQ!tqvars)
<1> SUFFICES ASSUME IInv, [Next]_vars PROVE [TQ!TQNext]_(TQ!tqvars)
  OBVIOUS
<1>0. /\ 0 \in Levels /\ 0 \notin Irqs /\ Irqs \subseteq Levels /\ pc \in [Levels -> Pcs]
      /\ ModeInv
  BY ConstantsAreOK DEF ConstantsOK, Levels, Irqs, IInv, TypeOK
<1> USE <1>0 DEF Executing, Goto, At, ring, hist, EnqueuePcs
<1>1. ASSUME fifo' = fifo, accepted' = accepted, Executing' = Executing,
             Executing => cur' = cur
      PROVE  UNCHANGED TQ!tqvars
  BY <1>1 DEF TQ!tqvars
<1>2. ASSUME NEW l \in Irqs, IrqEnter(l) \/ IrqReturn(l) PROVE UNCHANGED TQ!tqvars
  BY <1>1, <1>2 DEF IrqEnter, IrqReturn
<1>3. ASSUME NEW l \in Levels, Enqueue(l) \/ EnqueueReject(l) \/ EnqueueCheck(l)
      PROVE  UNCHANGED TQ!tqvars
  BY <1>1, <1>3 DEF Enqueue, EnqueueReject, EnqueueCheck
<1>4. ASSUME NEW l \in Levels, EnqueueCasFail(l) \/ EnqueueStore(l) \/ Pend(l)
      PROVE  UNCHANGED TQ!tqvars
  BY <1>1, <1>4 DEF EnqueueCasFail, EnqueueStore, Pend
<1>5. ASSUME NEW l \in Levels, EnqueueCas(l) PROVE TQ!TQNext
  <2>1. item[l] \in Calls /\ item[l] \notin accepted
    BY <1>5 DEF EnqueueCas, IInv, CallInv, TypeOK, Calls, NoCall
  <2>2. Len(fifo) < Capacity - 1
    <3>1. Succ(write) # read
      BY <1>5 DEF EnqueueCas, IInv, RoomInv
    <3> QED
      BY <3>1, UsedRange, ConstantsAreOK DEF IInv, RoomInv, ConstantsOK
  <2>3. fifo' = Append(fifo, item[l]) /\ accepted' = accepted \union {item[l]}
    BY <1>5 DEF EnqueueCas, Claim
  <2>4. Executing' = Executing /\ cur' = cur
    BY <1>5 DEF EnqueueCas, Claim
  <2>5. TQ!Accept(item[l])
    BY <2>1, <2>2, <2>3, <2>4 DEF TQ!Accept
  <2> QED
    BY <2>1, <2>5 DEF TQ!TQNext
<1>6. ASSUME SvcEnter \/ SvcReturn \/ Notify \/ PendSvEnter PROVE UNCHANGED TQ!tqvars
  BY <1>1, <1>6 DEF SvcEnter, SvcReturn, Notify, PendSvEnter, ModeInv
<1>7. ASSUME RoutineReturn PROVE TQ!TQNext
  <2>1. Executing /\ ~Executing' /\ fifo' = fifo /\ accepted' = accepted
    BY <1>7 DEF RoutineReturn
  <2>2. TQ!Finish
    BY <2>1 DEF TQ!Finish
  <2> QED
    BY <2>2 DEF TQ!TQNext
<1>8. CASE DequeueAdvance
  <2>1. mode = "pendsv" /\ fifo # <<>> /\ cur = fifo[1]
    BY <1>8 DEF DequeueAdvance, ModeInv, IInv, HandlerInv, TypeOK, HandlerPcs
  <2>2. ~Executing /\ Executing' /\ cur' = cur /\ fifo' = Tail(fifo) /\ accepted' = accepted
    BY <1>8, <2>1 DEF DequeueAdvance
  <2>3. Head(fifo) = cur
    BY <2>1
  <2>4. TQ!Start
    BY <2>1, <2>2, <2>3 DEF TQ!Start
  <2> QED
    BY <2>4 DEF TQ!TQNext
<1>9. CASE HandlerEntry \/ DequeueFetch \/ DequeueLoop
  BY <1>1, <1>9 DEF HandlerEntry, DequeueFetch, DequeueLoop
<1>10. CASE HandlerNoCallback \/ HandlerNotify \/ HandlerClear \/ HandlerCallback
  BY <1>1, <1>10
  DEF HandlerNoCallback, HandlerNotify, HandlerClear, HandlerCallback, HandlerLeave
<1>11. CASE UNCHANGED vars
  BY <1>1, <1>11 DEF vars
<1> QED
  BY <1>2, <1>3, <1>4, <1>5, <1>6, <1>7, <1>8, <1>9, <1>10, <1>11
  DEF Next, EnqueueStep, HandlerStep

\* Accepted calls are executed one at a time, each at most once, in the order
\* in which armv6m_pendsv_enqueue accepted them.
THEOREM Refinement == Spec => ImplementsTaskQueue
<1>1. Init => TQ!TQInit
  BY DEF Init, TQ!TQInit, Executing
<1> QED
  BY <1>1, StepRefines, Invariance, PTL DEF Spec, ImplementsTaskQueue, TQ!TQSpec

=============================================================================
