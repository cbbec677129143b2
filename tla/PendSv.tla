------------------------------ MODULE PendSv ------------------------------
(***************************************************************************)
(* armv6m_pendsv.c: the lock-free ring of deferred calls that interrupt    *)
(* handlers fill and the PendSV exception drains.                          *)
(*                                                                         *)
(* One CPU runs the most urgent active exception.  Level 0 is the lowest   *)
(* exception priority, shared by PendSV and SVC (neither preempts the      *)
(* other); levels 1..Nest are the interrupt priorities above it, which     *)
(* nest.  A step of a level is possible only while nothing above it is     *)
(* active.  The thread itself never calls into the ring: the drivers test  *)
(* IPSR and use SVC from thread mode.                                      *)
(***************************************************************************)
EXTENDS Integers, Sequences

CONSTANTS Capacity,  \* ARMV6M_PENDSV_ENTRY_COUNT, 32 in the code
          Nest,      \* interrupt priorities above PendSV, 3 on the STM32L0
          MaxCalls   \* bound on the calls of armv6m_pendsv_enqueue

ASSUME CapacityAssumption == Capacity \in Nat /\ Capacity >= 2
ASSUME NestAssumption == Nest \in Nat
ASSUME MaxCallsAssumption == MaxCalls \in Nat

Levels == 0..Nest
Irqs   == 1..Nest
Slots  == 0..Capacity-1
Calls  == 1..MaxCalls     \* a call is the ticket of one (routine, context, data)
NoCall == 0               \* what a slot holds before it is first filled

VARIABLES
    read,      \* queue_read
    write,     \* queue_write
    slot,      \* queue_data
    notify,    \* notify_callback is set
    pended,    \* PENDSVSET in ICSR
    mode,      \* what level 0 is: "thread" (inactive), "svc" or "pendsv"
    pc,        \* per level, where it is
    local,     \* per level, the local queue_write of armv6m_pendsv_enqueue
    item,      \* per level, the call being enqueued
    hread,     \* the local queue_read of armv6m_pendsv_dequeue
    cur,       \* the routine, context, data copied out of the slot
    issued,    \* calls of armv6m_pendsv_enqueue so far
    fifo,      \* history: calls accepted and not yet started, oldest first
    accepted   \* history: every call accepted

ring == <<read, write, slot>>
hist == <<fifo, accepted>>
vars == <<ring, notify, pended, mode, pc, local, item, hread, cur, issued, hist>>

EnqueuePcs == {"check", "cas", "store", "pend"}
HandlerPcs == {"entry", "fetch", "advance", "loop", "notify", "clear", "callback"}
Pcs == {"idle", "body"} \union EnqueuePcs \union HandlerPcs

TypeOK ==
    /\ read \in Slots /\ write \in Slots /\ hread \in Slots
    /\ slot \in [Slots -> 0..MaxCalls]
    /\ notify \in BOOLEAN /\ pended \in BOOLEAN
    /\ mode \in {"thread", "svc", "pendsv"}
    /\ pc \in [Levels -> Pcs]
    /\ local \in [Levels -> Slots]
    /\ item \in [Levels -> 0..MaxCalls]
    /\ cur \in 0..MaxCalls
    /\ issued \in 0..MaxCalls
    /\ fifo \in Seq(Calls)
    /\ accepted \in SUBSET Calls

Init ==
    /\ read = 0 /\ write = 0 /\ hread = 0
    /\ slot = [s \in Slots |-> NoCall]
    /\ notify = FALSE /\ pended = FALSE
    /\ mode = "thread"
    /\ pc = [l \in Levels |-> "idle"]
    /\ local = [l \in Levels |-> 0]
    /\ item = [l \in Levels |-> NoCall]
    /\ cur = NoCall
    /\ issued = 0
    /\ fifo = <<>>
    /\ accepted = {}

-----------------------------------------------------------------------------
(* The exception model of the CPU. *)

Quiet(l)  == \A m \in Levels : m > l => pc[m] = "idle"
At(l, p)  == pc[l] = p /\ Quiet(l)
Goto(l, p) == pc' = [pc EXCEPT ![l] = p]

IrqEnter(l) ==
    /\ pc[l] = "idle" /\ Quiet(l)
    /\ Goto(l, "body")
    /\ UNCHANGED <<ring, notify, pended, mode, local, item, hread, cur, issued, hist>>

IrqReturn(l) ==
    /\ At(l, "body")
    /\ Goto(l, "idle")
    /\ UNCHANGED <<ring, notify, pended, mode, local, item, hread, cur, issued, hist>>

\* The thread executes an svc instruction: a pending PendSV would be taken first.
SvcEnter ==
    /\ At(0, "idle") /\ ~pended
    /\ mode' = "svc"
    /\ Goto(0, "body")
    /\ UNCHANGED <<ring, notify, pended, local, item, hread, cur, issued, hist>>

SvcReturn ==
    /\ mode = "svc" /\ At(0, "body")
    /\ mode' = "thread"
    /\ Goto(0, "idle")
    /\ UNCHANGED <<ring, notify, pended, local, item, hread, cur, issued, hist>>

-----------------------------------------------------------------------------
(* armv6m_pendsv_enqueue, from any handler. *)

\* Mutant: the pointer is not wrapped at the end of queue_data.
SuccNoWrap(s) == s + 1

Succ(s) == IF s + 1 = Capacity THEN 0 ELSE s + 1

Enqueue(l) ==
    /\ At(l, "body") /\ issued < MaxCalls
    /\ issued' = issued + 1
    /\ item' = [item EXCEPT ![l] = issued + 1]
    /\ local' = [local EXCEPT ![l] = write]
    /\ Goto(l, "check")
    /\ UNCHANGED <<ring, notify, pended, mode, hread, cur, hist>>

\* Mutant: one slot too many is kept free.
FullEarly(s) == Succ(Succ(s)) = read

Full(s) == Succ(s) = read

EnqueueReject(l) ==
    /\ At(l, "check") /\ Full(local[l])
    /\ Goto(l, "body")
    /\ UNCHANGED <<ring, notify, pended, mode, local, item, hread, cur, issued, hist>>

EnqueueCheck(l) ==
    /\ At(l, "check") /\ ~Full(local[l])
    /\ Goto(l, "cas")
    /\ UNCHANGED <<ring, notify, pended, mode, local, item, hread, cur, issued, hist>>

Claim(l) ==
    /\ write' = Succ(local[l])
    /\ fifo' = Append(fifo, item[l])
    /\ accepted' = accepted \union {item[l]}
    /\ Goto(l, "store")
    /\ UNCHANGED <<read, slot, notify, pended, mode, local, item, hread, cur, issued>>

\* Mutant: a plain store of queue_write in place of the compare-and-swap.
EnqueuePlainStore(l) == At(l, "cas") /\ Claim(l)

EnqueueCas(l) == At(l, "cas") /\ write = local[l] /\ Claim(l)

EnqueueCasFail(l) ==
    /\ At(l, "cas") /\ write # local[l]
    /\ local' = [local EXCEPT ![l] = write]
    /\ Goto(l, "check")
    /\ UNCHANGED <<ring, notify, pended, mode, item, hread, cur, issued, hist>>

EnqueueStore(l) ==
    /\ At(l, "store")
    /\ slot' = [slot EXCEPT ![local[l]] = item[l]]
    /\ Goto(l, "pend")
    /\ UNCHANGED <<read, write, notify, pended, mode, local, item, hread, cur, issued, hist>>

\* Mutant: PENDSVSET is set only when the ring was empty before the call.
PendIfFirst(l) ==
    /\ At(l, "pend")
    /\ pended' = (pended \/ Len(fifo) <= 1)
    /\ Goto(l, "body")
    /\ UNCHANGED <<ring, notify, mode, local, item, hread, cur, issued, hist>>

\* SCB->ICSR = SCB_ICSR_PENDSVSET_Msk, the last step of enqueue and of notify.
Pend(l) ==
    /\ At(l, "pend")
    /\ pended' = TRUE
    /\ Goto(l, "body")
    /\ UNCHANGED <<ring, notify, mode, local, item, hread, cur, issued, hist>>

-----------------------------------------------------------------------------
(* armv6m_pendsv_notify, called only from SVC and from PendSV routines. *)

\* Mutant: the callback is recorded and PendSV is not pended.
NotifyUnpended ==
    /\ At(0, "body")
    /\ notify' = TRUE
    /\ UNCHANGED <<ring, pended, mode, pc, local, item, hread, cur, issued, hist>>

Notify ==
    /\ At(0, "body")
    /\ notify' = TRUE
    /\ Goto(0, "pend")
    /\ UNCHANGED <<ring, pended, mode, local, item, hread, cur, issued, hist>>

-----------------------------------------------------------------------------
(* PendSV_Handler and armv6m_pendsv_dequeue. *)

PendSvEnter ==
    /\ At(0, "idle") /\ pended
    /\ pended' = FALSE
    /\ mode' = "pendsv"
    /\ Goto(0, "entry")
    /\ UNCHANGED <<ring, notify, local, item, hread, cur, issued, hist>>

\* Mutant: the handler calls armv6m_pendsv_dequeue without the test.
HandlerEntryUntested ==
    /\ At(0, "entry")
    /\ hread' = read
    /\ Goto(0, "fetch")
    /\ UNCHANGED <<ring, notify, pended, mode, local, item, cur, issued, hist>>

\* The test at entry protects dequeue, which fetches before it tests.
HandlerEntry ==
    /\ At(0, "entry")
    /\ hread' = read
    /\ Goto(0, IF read = write THEN "notify" ELSE "fetch")
    /\ UNCHANGED <<ring, notify, pended, mode, local, item, cur, issued, hist>>

DequeueFetch ==
    /\ At(0, "fetch")
    /\ cur' = slot[hread]
    /\ hread' = Succ(hread)
    /\ Goto(0, "advance")
    /\ UNCHANGED <<ring, notify, pended, mode, local, item, issued, hist>>

\* queue_read moves before the routine is called: its slot is free again.
DequeueAdvance ==
    /\ At(0, "advance")
    /\ read' = hread
    /\ fifo' = Tail(fifo)
    /\ Goto(0, "body")
    /\ UNCHANGED <<write, slot, notify, pended, mode, local, item, hread, cur, issued, accepted>>

RoutineReturn ==
    /\ mode = "pendsv" /\ At(0, "body")
    /\ Goto(0, "loop")
    /\ UNCHANGED <<ring, notify, pended, mode, local, item, hread, cur, issued, hist>>

DequeueLoop ==
    /\ At(0, "loop")
    /\ Goto(0, IF hread # write THEN "fetch" ELSE "notify")
    /\ UNCHANGED <<ring, notify, pended, mode, local, item, hread, cur, issued, hist>>

HandlerLeave ==
    /\ mode' = "thread"
    /\ Goto(0, "idle")
    /\ UNCHANGED <<ring, notify, pended, local, item, hread, cur, issued, hist>>

HandlerNoCallback == At(0, "notify") /\ ~notify /\ HandlerLeave

HandlerNotify ==
    /\ At(0, "notify") /\ notify
    /\ Goto(0, "clear")
    /\ UNCHANGED <<ring, notify, pended, mode, local, item, hread, cur, issued, hist>>

HandlerClear ==
    /\ At(0, "clear")
    /\ notify' = FALSE
    /\ Goto(0, "callback")
    /\ UNCHANGED <<ring, pended, mode, local, item, hread, cur, issued, hist>>

\* The callback is entered by a tail call and ends the exception.
HandlerCallback == At(0, "callback") /\ HandlerLeave

-----------------------------------------------------------------------------
EnqueueStep(l) ==
    \/ EnqueueReject(l) \/ EnqueueCheck(l)
    \/ EnqueueCas(l) \/ EnqueueCasFail(l)
    \/ EnqueueStore(l) \/ Pend(l)

HandlerStep ==
    \/ HandlerEntry \/ DequeueFetch \/ DequeueAdvance \/ DequeueLoop
    \/ HandlerNoCallback \/ HandlerNotify \/ HandlerClear \/ HandlerCallback

Next ==
    \/ \E l \in Irqs : IrqEnter(l) \/ IrqReturn(l)
    \/ \E l \in Levels : Enqueue(l) \/ EnqueueStep(l)
    \/ SvcEnter \/ SvcReturn \/ RoutineReturn \/ Notify
    \/ PendSvEnter \/ HandlerStep

Spec == Init /\ [][Next]_vars

\* Interrupts are finite bursts, so whatever is interrupted infinitely often
\* also runs infinitely often, and a handler's body ends.
Fairness ==
    /\ \A l \in Irqs : SF_vars(IrqReturn(l))
    /\ \A l \in Levels : SF_vars(EnqueueStep(l))
    /\ SF_vars(SvcReturn) /\ SF_vars(RoutineReturn)
    /\ SF_vars(PendSvEnter) /\ SF_vars(HandlerStep)

LiveSpec == Spec /\ Fairness

-----------------------------------------------------------------------------
(* Properties. *)

\* The entry the handler copied out is the oldest accepted call.  A slot that
\* is claimed and not yet filled, a slot's stale content or a slot out of turn
\* would all show here (armv6m_pendsv_dequeue copies before anything else).
RunsOldest == pc[0] = "advance" => fifo # <<>> /\ cur = Head(fifo)

Draining == mode = "pendsv" /\ pc[0] \notin {"notify", "clear", "callback"}

\* No lost wake-up: while an accepted call or a notification waits, PendSV is
\* pending, is still to look at it, or is about to be pended by the handler
\* that is in the middle of armv6m_pendsv_enqueue or armv6m_pendsv_notify.
WorkIsPended == fifo # <<>> =>
    pended \/ Draining \/ \E l \in Levels : pc[l] \in {"store", "pend"}

NotifyIsPended == notify =>
    pended \/ (mode = "pendsv" /\ pc[0] # "callback") \/ pc[0] = "pend"

\* armv6m_pendsv_enqueue refuses a call only while Capacity-1 others wait,
\* although it reads queue_write and queue_read at different instants.
RejectsOnlyWhenFull ==
    [][\A l \in Levels :
          pc[l] = "check" /\ pc'[l] = "body" => Len(fifo) = Capacity - 1]_vars

\* Every accepted call is eventually started, whatever interrupts arrive.
AcceptedCallsRun == \A c \in Calls :
    (\E k \in 1..Len(fifo) : fifo[k] = c) ~> (mode = "pendsv" /\ cur = c /\ pc[0] = "body")

\* A notification eventually reaches its callback.
NotifyReachesCallback == notify ~> pc[0] = "callback"

\* Neither is ever lost: both are promised to every caller.
NothingIsLost == AcceptedCallsRun /\ NotifyReachesCallback

\* The ring implements the bounded FIFO of calls.
Executing == mode = "pendsv" /\ pc[0] \in {"body"} \union EnqueuePcs

TQ == INSTANCE TaskQueue WITH
        Bound <- Capacity - 1,
        queue <- fifo,
        running <- IF Executing THEN {cur} ELSE {}

ImplementsTaskQueue == TQ!TQSpec
-----------------------------------------------------------------------------
(* The inductive invariant behind the safety properties. *)

\* How many slots lie between queue_read and queue_write, and the k-th of them.
Used    == IF write >= read THEN write - read ELSE write - read + Capacity
Slot(k) == IF read + k - 1 < Capacity THEN read + k - 1 ELSE read + k - 1 - Capacity

\* Level 0 agrees with the exception it is in.
ModeInv ==
    /\ mode = "thread" <=> pc[0] = "idle"
    /\ mode = "svc" => pc[0] \notin HandlerPcs
    /\ \A l \in Irqs : pc[l] \notin HandlerPcs

\* The waiting calls are the ones between the two pointers; a handler about to
\* claim a slot that nobody took meanwhile still has room, because only PendSV
\* moves queue_read and it cannot run under that handler.
RoomInv ==
    /\ Len(fifo) = Used
    /\ \A l \in Levels : pc[l] = "cas" => Succ(local[l]) # read

\* The queue_write an enqueue works with is one it has had since queue_read last
\* moved: it lies in the used part of the ring or is its end.
LocalInv == \A l \in Levels : pc[l] = "check" => \E k \in 1..Used+1 : local[l] = Slot(k)

\* A claimed slot belongs to the call its owner is storing.
ClaimInv == \A l \in Levels : pc[l] = "store" =>
    \E k \in 1..Len(fifo) : local[l] = Slot(k) /\ item[l] = fifo[k]

\* Every waiting call is in its slot or is being stored there.
SlotInv == \A k \in 1..Len(fifo) :
    \/ slot[Slot(k)] = fifo[k]
    \/ \E l \in Levels : pc[l] = "store" /\ local[l] = Slot(k) /\ item[l] = fifo[k]

\* armv6m_pendsv_dequeue's copy of queue_read and of the entry.
HandlerInv ==
    /\ pc[0] = "fetch" => hread = read /\ read # write
    /\ pc[0] = "advance" => hread = Succ(read) /\ fifo # <<>> /\ cur = fifo[1]
    /\ mode = "pendsv" /\ pc[0] \notin {"entry", "advance"} => hread = read

\* A call being enqueued is a fresh one.
CallInv ==
    /\ \A c \in accepted : c <= issued
    /\ \A l \in Levels : item[l] <= issued
    /\ \A l \in Levels : pc[l] \in {"check", "cas"} =>
          item[l] # NoCall /\ item[l] \notin accepted
    /\ \A l, m \in Levels :
          l # m /\ pc[l] \in {"check", "cas"} /\ pc[m] \in {"check", "cas"} => item[l] # item[m]

IInv == TypeOK /\ ModeInv /\ RoomInv /\ LocalInv /\ ClaimInv /\ SlotInv /\ HandlerInv /\ CallInv
        /\ WorkIsPended /\ NotifyIsPended
=============================================================================
