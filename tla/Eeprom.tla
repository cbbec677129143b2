------------------------------- MODULE Eeprom -------------------------------
(***************************************************************************)
(* The data EEPROM driver, system/STM32L0xx/Source/stm32l0_eeprom.c, with  *)
(* the callers it has in the core and in the LoRaWAN library.              *)
(*                                                                         *)
(* Three contexts share it.  A thread enqueues a transaction with a        *)
(* compare-and-swap loop, or takes the flash controller for itself.  An    *)
(* urgent interrupt enqueues at any point of either of the others; nothing *)
(* it can see changes halfway, so it is one step.  The FLASH interrupt     *)
(* detaches the oldest transaction, writes it word by word and calls its   *)
(* callback, which can enqueue the same transaction again.                 *)
(*                                                                         *)
(* The pending list is the linked list of the code, newest first.  A word  *)
(* is a model value; a transaction writes one value into all its words.    *)
(***************************************************************************)
EXTENDS Naturals, FiniteSets, Sequences, SequencesExt, FiniteSetsExt

CONSTANTS Transactions,  \* the transactions of the program
          Area,          \* the words each one covers, in address order
          Control,       \* ERASE, PROGRAM or READ, for each
          Data,          \* the value each one leaves in its words
          Null,          \* the null pointer
          Synced,        \* those enqueued again by their own callback
          UrgentOnes,    \* those an urgent interrupt enqueues
          Stalling,      \* those in the bank the program is fetched from
          Careful,       \* nobody enqueues while another bank is written
          MaxTimes,      \* bound: how often one transaction is enqueued
          MaxRefused     \* bound: how often the controller stays locked

Word == UNION {Range(Area[t]) : t \in Transactions}
Erased == "erased"

ASSUME EepromAssumption ==
    /\ IsFiniteSet(Transactions) /\ Null \notin Transactions
    /\ DOMAIN Data = Transactions
    /\ \A t \in Transactions : Area[t] \in Seq(Word)
    /\ MaxTimes \in Nat /\ MaxRefused \in Nat
    /\ Synced \union UrgentOnes \union Stalling \subseteq Transactions
    /\ Synced \intersect UrgentOnes = {}
    /\ \A t \in Transactions : Control[t] \in {"ERASE", "PROGRAM", "READ"}
    /\ \A t \in Transactions : Control[t] = "ERASE" => Data[t] = Erased

VARIABLES state,    \* READY, or BUSY while the flash controller is taken
          head,     \* device.queue: the newest pending transaction
          next,     \* transaction->next
          status,   \* transaction->status
          current,  \* the transaction that device.address stands for, or Null
          done,     \* words of it already passed: address and count
          locked,   \* FLASH_PECR_PELOCK
          hw,       \* the controller: idle, busy, eop or error
          pend,     \* the FLASH interrupt is pending
          irq,      \* where the FLASH interrupt is
          seen,     \* its `transaction`
          tpc,      \* where the thread is
          mine,     \* the transaction the thread enqueues
          loaded,   \* the head it read
          stops,    \* lock[STM32L0_SYSTEM_LOCK_STOP]
          refused,  \* how often a transaction failed to unlock it
          times,    \* how often each transaction was accepted
          mem       \* what the words hold

list     == <<head, next>>
device   == <<current, done, locked, hw, mem>>
handler  == <<irq, seen>>
thread   == <<tpc, mine, loaded>>
counts   == <<stops, refused>>
vars == <<state, list, status, device, pend, handler, thread, counts, times>>

Init ==
    /\ state = "READY" /\ head = Null
    /\ next = [t \in Transactions |-> Null]
    /\ status = [t \in Transactions |-> "NONE"]
    /\ current = Null /\ done = 0 /\ locked = TRUE /\ hw = "idle"
    /\ mem = [w \in Word |-> Erased]
    /\ pend = FALSE /\ irq = "idle" /\ seen = Null
    /\ tpc = "run" /\ mine = Null /\ loaded = Null
    /\ stops = 0 /\ refused = 0
    /\ times = [t \in Transactions |-> 0]

(* The list from h on, newest first, linked by nx. *)
ChainOf(h, nx) ==
    LET nth[n \in 0 .. Cardinality(Transactions)] ==
            IF n = 0 THEN h
            ELSE IF nth[n - 1] = Null THEN Null ELSE nx[nth[n - 1]]
        length == Cardinality({n \in DOMAIN nth : nth[n] # Null})
    IN  [n \in 1 .. length |-> nth[n - 1]]

(* The list from device.queue on. *)
Chain == ChainOf(head, next)

(* The processor fetches from the bank that is written: it waits. *)
Stalled == hw = "busy" /\ current \in Stalling

(* A transaction can be handed over: its owner tests that it is not BUSY. *)
MayEnqueue(t) ==
    /\ status[t] # "BUSY"
    /\ times[t] < MaxTimes
    /\ Careful => \A u \in Transactions \ Stalling : status[u] # "BUSY"

(* stm32l0_eeprom_enqueue where nothing can come between its steps. *)
Push(t) ==
    /\ status' = [status EXCEPT ![t] = "BUSY"]
    /\ next' = [next EXCEPT ![t] = head]
    /\ head' = t
    /\ times' = [times EXCEPT ![t] = @ + 1]
    /\ pend' = TRUE

-----------------------------------------------------------------------------
(* The thread: a pending FLASH interrupt is taken before its next step. *)

InThread == irq = "idle" /\ ~pend /\ ~Stalled

(* stm32l0_eeprom_enqueue: mark it, read the head and link it before. *)
EnqueueLink(t) ==
    /\ InThread /\ tpc = "run" /\ t \notin UrgentOnes
    /\ MayEnqueue(t)
    /\ status' = [status EXCEPT ![t] = "BUSY"]
    /\ next' = [next EXCEPT ![t] = head]
    /\ tpc' = "link" /\ mine' = t /\ loaded' = head
    /\ UNCHANGED <<state, head, device, pend, handler, counts, times>>

(* The compare-and-swap: where the head moved, link before the new one.     *)
EnqueueSwap ==
    /\ InThread /\ tpc = "link"
    /\ IF head = loaded
       THEN /\ head' = mine /\ pend' = TRUE
            /\ times' = [times EXCEPT ![mine] = @ + 1]
            /\ tpc' = IF mine \in Synced THEN "run" ELSE "wait"
            /\ UNCHANGED <<next, loaded>>
       ELSE /\ next' = [next EXCEPT ![mine] = head] /\ loaded' = head
            /\ UNCHANGED <<head, pend, times, tpc>>
    /\ UNCHANGED <<state, status, device, handler, mine, counts>>

(* eeprom_read_block, eeprom_write_block, _eepromRead, _eepromProgram. *)
WaitOver ==
    /\ InThread /\ tpc = "wait" /\ status[mine] # "BUSY"
    /\ tpc' = "run"
    /\ UNCHANGED <<state, list, status, device, pend, handler, mine, loaded,
                   counts, times>>

(* stm32l0_flash_unlock: acquire, then wait for the transaction under way. *)
Acquire ==
    /\ InThread /\ tpc = "run"
    /\ state' = "BUSY" /\ tpc' = "spin"
    /\ UNCHANGED <<list, status, device, pend, handler, mine, loaded, counts,
                   times>>

(* Mutant: the flash is taken while a transaction is under way. *)
UnlockAtOnce ==
    /\ InThread /\ tpc = "spin"
    /\ locked' = FALSE /\ tpc' = "owner"
    /\ UNCHANGED <<state, list, status, current, done, hw, mem, pend, handler,
                   mine, loaded, counts, times>>

(* The rest of stm32l0_flash_unlock, once device.address is 0. *)
Unlock ==
    /\ InThread /\ tpc = "spin" /\ current = Null
    /\ \/ locked' = FALSE /\ tpc' = "owner" /\ UNCHANGED <<state, pend>>
       \/ /\ locked' \in BOOLEAN \* one of the two keys is not taken
          /\ state' = "READY" /\ pend' = TRUE /\ tpc' = "run"
    /\ UNCHANGED <<list, status, current, done, hw, mem, handler, mine, loaded,
                   counts, times>>

(* Mutant: the release does not set the FLASH interrupt pending. *)
ReleaseQuietly ==
    /\ InThread /\ tpc = "owner"
    /\ locked' = TRUE /\ state' = "READY" /\ tpc' = "run"
    /\ UNCHANGED <<list, status, current, done, hw, mem, pend, handler, mine,
                   loaded, counts, times>>

(* stm32l0_flash_lock, with stm32l0_eeprom_release. *)
Release ==
    /\ InThread /\ tpc = "owner"
    /\ locked' = TRUE
    /\ state' = "READY" /\ pend' = TRUE /\ tpc' = "run"
    /\ UNCHANGED <<list, status, current, done, hw, mem, handler, mine, loaded,
                   counts, times>>

ThreadGoesOn ==
    EnqueueSwap \/ WaitOver \/ Unlock \/ Release

-----------------------------------------------------------------------------
(* An urgent interrupt, and the flash controller. *)

UrgentEnqueue(t) ==
    /\ ~Stalled /\ MayEnqueue(t)
    /\ Push(t)
    /\ UNCHANGED <<state, device, handler, thread, counts>>

WordDone ==
    /\ hw = "busy"
    /\ pend' = TRUE
    /\ \/ /\ hw' = "eop"
          /\ mem' = [mem EXCEPT ![Area[current][done]] = Data[current]]
       \/ hw' = "error" /\ UNCHANGED mem
    /\ UNCHANGED <<state, list, status, current, done, locked, handler, thread,
                   counts, times>>

-----------------------------------------------------------------------------
(* FLASH_IRQHandler *)

(* Mutant: the word after the one just written is passed over. *)
ToWriteFurther(t, k) ==
    {j \in (IF k = 0 THEN 1 ELSE k + 2) .. Len(Area[t]) :
       mem[Area[t][j]] # Data[t]}

(* The words of t after the first k that do not hold its value yet. *)
ToWrite(t, k) == {j \in k + 1 .. Len(Area[t]) : mem[Area[t][j]] # Data[t]}

(* stm32l0_eeprom_do_erase, stm32l0_eeprom_do_program: start one word. *)
WriteWord(t, k) ==
    /\ done' = Min(ToWrite(t, k)) /\ hw' = "busy"
    /\ current' = t
    /\ irq' = "idle" /\ seen' = Null

(* The transaction is over; its callback is called next. *)
Finish(t, result) ==
    /\ current' = Null /\ done' = 0 /\ hw' = "idle"
    /\ status' = [status EXCEPT ![t] = result]
    /\ irq' = "call" /\ seen' = t

InIrq(pc) == irq = pc /\ ~Stalled

(* Entered with nothing to conclude: no transaction, or no flag is set. *)
EnterDrain ==
    /\ pend /\ InIrq("idle")
    /\ current = Null \/ hw \notin {"eop", "error"}
    /\ pend' = FALSE /\ irq' = "drain"
    /\ UNCHANGED <<state, list, status, device, seen, thread, counts, times>>

(* A word was written: the next one, or the end. *)
EnterWord ==
    /\ pend /\ InIrq("idle") /\ current # Null /\ hw = "eop"
    /\ pend' = FALSE
    /\ IF ToWrite(current, done) # {}
       THEN WriteWord(current, done) /\ UNCHANGED <<locked, stops, status>>
       ELSE Finish(current, "SUCCESS") /\ locked' = TRUE /\ stops' = stops - 1
    /\ UNCHANGED <<state, list, mem, thread, refused, times>>

EnterError ==
    /\ pend /\ InIrq("idle") /\ current # Null /\ hw = "error"
    /\ pend' = FALSE
    /\ Finish(current, "FAIL") /\ locked' = TRUE /\ stops' = stops - 1
    /\ UNCHANGED <<state, list, mem, thread, refused, times>>

(* The callback: none, or _eepromSync with or without more to save. *)
Call ==
    /\ InIrq("call")
    /\ irq' = "drain" /\ seen' = Null
    /\ \/ UNCHANGED <<list, status, times, pend>>
       \/ seen \in Synced /\ times[seen] < MaxTimes /\ Push(seen)
    /\ UNCHANGED <<state, device, thread, counts>>

DrainNone ==
    /\ InIrq("drain") /\ (state # "READY" \/ head = Null)
    /\ irq' = "idle"
    /\ UNCHANGED <<state, list, status, device, pend, seen, thread, counts,
                   times>>

(* The end of the list is found behind another transaction: cut it off. *)
DrainCut ==
    /\ InIrq("drain") /\ state = "READY" /\ Len(Chain) > 1
    /\ seen' = Last(Chain)
    /\ next' = [next EXCEPT ![Chain[Len(Chain) - 1]] = Null]
    /\ irq' = "begin"
    /\ UNCHANGED <<state, head, status, device, pend, thread, counts, times>>

(* The head is the end: it has to be swapped out. *)
DrainHead ==
    /\ InIrq("drain") /\ state = "READY" /\ Len(Chain) = 1
    /\ seen' = head /\ irq' = "swap"
    /\ UNCHANGED <<state, list, status, device, pend, thread, counts, times>>

(* Mutant: the head is cleared without comparing it. *)
DrainStore ==
    /\ InIrq("swap")
    /\ head' = Null /\ irq' = "begin"
    /\ UNCHANGED <<state, next, seen, status, device, pend, thread, counts,
                   times>>

DrainSwap ==
    /\ InIrq("swap")
    /\ IF head = seen
       THEN head' = Null /\ irq' = "begin" /\ UNCHANGED seen
       ELSE irq' = "drain" /\ seen' = Null /\ UNCHANGED head
    /\ UNCHANGED <<state, next, status, device, pend, thread, counts, times>>

(* Mutant: the STOP lock is not taken. *)
BeginUnlocked ==
    /\ InIrq("begin") /\ Control[seen] # "READ"
    /\ IF ToWrite(seen, 0) # {}
       THEN /\ WriteWord(seen, 0) /\ locked' = FALSE /\ UNCHANGED status
       ELSE Finish(seen, "SUCCESS") /\ locked' = TRUE
    /\ UNCHANGED <<state, list, mem, pend, thread, counts, times>>

(* An ERASE or a PROGRAM: the first word that differs, if there is one. *)
BeginWrite ==
    /\ InIrq("begin") /\ Control[seen] # "READ"
    /\ IF ToWrite(seen, 0) # {}
       THEN /\ WriteWord(seen, 0) /\ locked' = FALSE /\ stops' = stops + 1
            /\ UNCHANGED status
       ELSE Finish(seen, "SUCCESS") /\ locked' = TRUE /\ UNCHANGED stops
    /\ UNCHANGED <<state, list, mem, pend, thread, refused, times>>

(* The keys are not taken: the two locks taken before are not given back. *)
BeginRefused ==
    /\ InIrq("begin") /\ Control[seen] # "READ" /\ locked
    /\ refused < MaxRefused
    /\ refused' = refused + 1 /\ stops' = stops + 1
    /\ status' = [status EXCEPT ![seen] = "FAIL"]
    /\ irq' = "call"
    /\ UNCHANGED <<state, list, device, pend, seen, thread, times>>

BeginRead ==
    /\ InIrq("begin") /\ Control[seen] = "READ"
    /\ status' = [status EXCEPT ![seen] = "SUCCESS"]
    /\ irq' = "call"
    /\ UNCHANGED <<state, list, device, pend, seen, thread, counts, times>>

Handler ==
    \/ EnterDrain \/ EnterWord \/ EnterError \/ Call
    \/ DrainNone \/ DrainCut \/ DrainHead \/ DrainSwap
    \/ BeginWrite \/ BeginRefused \/ BeginRead

Next ==
    \/ \E t \in Transactions : EnqueueLink(t)
    \/ ThreadGoesOn \/ Acquire
    \/ \E t \in UrgentOnes : UrgentEnqueue(t)
    \/ WordDone \/ Handler

Spec == Init /\ [][Next]_vars
LiveSpec ==
    Spec /\ WF_vars(Handler) /\ WF_vars(WordDone) /\ WF_vars(ThreadGoesOn)

-----------------------------------------------------------------------------
Pcs == {"run", "link", "wait", "spin", "owner"}

TypeOK ==
    /\ state \in {"READY", "BUSY"}
    /\ head \in Transactions \union {Null}
    /\ next \in [Transactions -> Transactions \union {Null}]
    /\ status \in [Transactions -> {"NONE", "BUSY", "SUCCESS", "FAIL"}]
    /\ current \in Transactions \union {Null} /\ done \in Nat
    /\ locked \in BOOLEAN /\ hw \in {"idle", "busy", "eop", "error"}
    /\ pend \in BOOLEAN
    /\ irq \in {"idle", "call", "drain", "swap", "begin"}
    /\ seen \in Transactions \union {Null}
    /\ (seen # Null) <=> irq \in {"call", "swap", "begin"}
    /\ tpc \in Pcs
    /\ {mine, loaded} \subseteq Transactions \union {Null}
    /\ stops \in Nat /\ refused \in 0 .. MaxRefused
    /\ times \in [Transactions -> 0 .. MaxTimes]
    /\ mem \in [Word -> Range(Data) \union {Erased}]

(* While a word is written the processor cannot enter STOP and the          *)
(* controller is not locked under it; the STOP lock is held exactly as long *)
(* as a transaction is under way, but for the refusals that never gave      *)
(* theirs back: stm32l0_eeprom_do_program to the last stm32l0_system_unlock.*)
AwakeWhileWriting ==
    /\ stops = refused + (IF current = Null THEN 0 ELSE 1)
    /\ hw # "idle" => current # Null /\ ~locked /\ stops > 0

(* Between stm32l0_flash_unlock and stm32l0_flash_lock no word of a         *)
(* transaction is written and nothing locks the controller, whatever was    *)
(* enqueued or under way when the thread took it.                           *)
OwnerIsAlone == tpc = "owner" => current = Null /\ hw = "idle" /\ ~locked

(* Whoever writes, or owns the controller, is undisturbed. *)
Undisturbed == AwakeWhileWriting /\ OwnerIsAlone

(* A transaction that reports SUCCESS left its value in every one of its    *)
(* words, whichever were skipped and whatever ran between two of them.      *)
SuccessMeansStored ==
    \A t \in Transactions :
       /\ status[t] = "BUSY" /\ status'[t] = "SUCCESS" /\ Control[t] # "READ"
       => \A w \in Range(Area[t]) : mem'[w] = Data[t]

SuccessIsStored == [][SuccessMeansStored]_vars

(* The transaction taken off the list and not yet reported. *)
Taken == IF irq = "begin" THEN {seen} ELSE {current} \ {Null}
Numbered(t) == <<t, times[t]>>

Queue == INSTANCE TaskQueue WITH
    Calls    <- Transactions \X (1 .. MaxTimes),
    Bound    <- Cardinality(Transactions),
    queue    <- Reverse([i \in DOMAIN Chain |-> Numbered(Chain[i])]),
    running  <- {Numbered(t) : t \in Taken},
    accepted <- {c \in Transactions \X (1 .. MaxTimes) : c[2] <= times[c[1]]}

(* The driver is a queue: each accepted transaction is taken once, in the   *)
(* order in which the compare-and-swaps succeeded, and only after the one   *)
(* before it was reported, FLASH_IRQHandler's detaching included.           *)
ImplementsTaskQueue == Queue!TQSpec

(* Every accepted transaction is reported, and every call of the thread     *)
(* comes back: the wait for a report, and the spin in                       *)
(* stm32l0_eeprom_acquire.                                                  *)
EverythingEnds ==
    /\ \A t \in Transactions : status[t] = "BUSY" ~> status[t] # "BUSY"
    /\ tpc # "run" ~> tpc = "run"
=============================================================================
