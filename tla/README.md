# TLA+ models of the Arduino core for STM32L0

This directory holds a formal model of the concurrent parts of this repository: the kernel
under `system/STM32L0xx/Source`, its EEPROM, I2C, USB serial and serial-flash drivers, and the Arduino classes
that run on them. TLC checks the models on small instances; TLAPS proves theorems about seven of the
eight for every value of their constants: the work queue on which everything else rests, the event kernel, the
software timers, the serial port, the EEPROM, I2C and USB serial drivers.

The code runs on one Cortex-M0+ core without an operating system. What makes it hard is
preemption: thread code is interrupted by SVC and PendSV routines, these by the drivers'
interrupts, and these by more urgent ones; some state is shared by all of them, protected only
by the order of a few instructions. A test sees one or two of these orders.

## 1. The system

### Exception priorities

PendSV and SVC share the lowest priority, 3, and so never preempt each other. I2C, SPI, USB and
the flash (EEPROM) interrupt have 2, the UARTs, PWM and DAC 1, SysTick, EXTI, RTC, LPTIM and
ADC 0. The convention of the whole core is: code in thread mode (IPSR = 0) that has to change
kernel state runs a function as SVC; a handler puts the same function into the PendSV queue.
Either way the function runs at priority 3, one at a time. Data touched only there needs no
other protection; data that a handler also touches does.

### Components

| component | state it keeps | operations | talks to |
|---|---|---|---|
| PendSV queue `armv6m_pendsv.c` | a ring of 32 calls, its two pointers, one notify callback | enqueue (any handler), notify (SVC/PendSV), PendSV_Handler | every driver defers work through it |
| event kernel `armv6m_event.c` | the running event and the stack of preempted ones, the next event, a preemptive and a cooperative list, a ceiling; per event priority, lock and count | create, destroy, enqueue, lock, unlock, set_priority, acquire, release, dequeue; schedule, switch and return inside | PendSV notify, SVC |
| RTC timers `stm32l0_rtc.c` | a circular list of timers with delays relative to their predecessors, the interval the alarm is set for, `timer_busy`, `timer_events`; alarm B in hardware | create, destroy, start, stop, done; the alarm interrupt and the deferred routine | PendSV queue, SVC, the RTC |
| serial transmit `Uart.cpp`, `CDC.cpp` | a transmit ring (read, write, count, size of the packet under way), one buffer of an asynchronous write with its callback, a busy flag | write, asynchronous write, flush, setNonBlocking; `_doneCallback` in the driver's interrupt | UART and USB drivers, PendSV queue for the callback |
| UART driver `stm32l0_uart.c` | a state machine (none, init, busy, suspended, ready, break, data, inject, wait), receive FIFO, XON/XOFF | enable, configure, suspend, resume, receive, transmit, interrupt | DMA, system locks |
| RTC calendar, alarm A, wakeup, tamper | reference time, alarm A | set and get time, alarm, wakeup | the RTC |
| EEPROM driver `stm32l0_eeprom.c` | a list of transactions pushed by compare-and-swap, the transaction under way, acquired or ready | enqueue, acquire, release; the flash interrupt drains the list | system locks, flash |
| I2C, SPI `stm32l0_i2c.c`, `stm32l0_spi.c` | transaction queue and state machine; owner of the bus | enqueue, acquire, release, interrupt | DMA, Wire and SPI libraries |
| DMA `stm32l0_dma.c` | owner of each channel | channel, start, stop, interrupt | UART, SPI, I2C, ADC |
| system `stm32l0_system.c` | clocks, counts of locks against stop mode and clock change, a list of notified drivers | configure, lock, unlock, sleep, register | all drivers |
| SysTick `armv6m_systick.c` | software milliseconds and microseconds on top of a 125 ms hardware period | micros, millis, delay, handler | - |
| USB serial `stm32l0_usbd_cdc.c`, `CDC.cpp` | the state of the port, transmit busy flag and timeout, a receive ring that wraps where a packet might not fit | enable, disable, transmit, receive; init, deinit, suspend, resume, frame, control, packet in and out from the stack | vendored USB stack, PendSV queue |
| USB device: HID, mass storage | transmit busy flag | send report | vendored USB stack |
| DOSFS `dosfs_*.c` | FAT, open files, cache; in `dosfs_sflash.c` a translation of logical to physical blocks with one erase unit kept for reclaim | read, write, trim; reclaim, mount after a crash | serial flash, SD card |
| libraries LoRaWAN, GNSS, TimerMillis, radio, Wire, SPI, RTC | session flags, command queues, periods | the Arduino API and callbacks of the drivers | the drivers above |
| vendored | LoRaMac, ST USB stack and HAL, CMSIS | | not this project's code |

### What is hard, and what makes each part correct

*PendSV queue.* Handlers of several priorities fill the ring between the instructions of each
other. Correct: every accepted call runs once, in the order of acceptance, no slot runs before
it is filled, none is refused while there is room, and no wake-up is lost.

*Event kernel.* An event may be enqueued, locked or destroyed after it was chosen to run and
before PendSV switches to it; routines return at any time. Correct: an event with work is in
one list, once; the list is ordered by urgency and first-in-first-out among equals; what is
chosen is still ready at the switch; events nest by urgency; nothing that may run waits.

*RTC timers.* Time passes while the alarm is being set. An alarm in the past never matches,
and the chip may miss one set for the next tick. Differences of times are kept in a list that
interrupts reorder by deferred calls. Correct: each timer expires, not before its time and in
order; a stop is final; the count of pending routines is exact.

*Serial transmit.* The driver's interrupt drains the ring that the thread fills, and each side
starts the next transfer when it thinks that the other does not. Correct: bytes leave once and
in order, none is left behind, each accepted asynchronous write completes after its last byte.

*Serial flash translation layer.* A flash programs bits to zero only and erases whole sectors, two cache
pages serve every operation, and power may fail between any two programs. Correct: a read returns what was
last written, a call cut short happened or did not, the tables in RAM are those the headers in flash
describe, and there is always a block to write.

*EEPROM driver.* A list is pushed by thread, callbacks and urgent interrupts and cut at its other end by
the flash interrupt, which also shares the controller with code that programs the flash itself. Correct: each
transaction is done once and in order, SUCCESS means that the words hold the data, the owner of the controller is
alone, and everybody is answered.

*I2C driver and Wire.* Slaves refuse at any byte, another master may win, a transaction may keep the bus for the
next one of its client. Correct: the status says what happened on the wire, the bus and the lock against stop
mode are given back, a kept bus is continued by its client only, and every call ends.

*USB serial port.* The host sends when it likes, may not answer, sleeps, resets the bus or is gone; the interrupt fills the ring
that the sketch empties, and each of them arms the endpoint when it thinks that the other does not. Correct: bytes are read once and in
order, the host is held off while there is no room and only then, and a transfer is called back once whatever happens to it.

`PROJECT.json` lists every component with its status and every hazard with its line.

## 2. Modules

    TaskQueue      abstract: a bounded FIFO of calls, run one at a time
    PendSv         the lock-free ring; refines TaskQueue
    PendSvMC       its instances                      PendSvProofs   its theorems
    ArmEvent       the event kernel on a FIFO of deferred calls
    ArmEventMC     its instances                      ArmEventProofs its theorems
    RtcTimer       the software timers on a FIFO of deferred calls
    RtcTimerMC     its instances                      RtcTimerProofs its theorems
    SerialTx       both write functions of Serial against the driver's interrupt
    SerialTxMC     its instances                      SerialTxProofs its theorems
    BlockStore     abstract: a block device under loss of power
    SflashFtl      the serial flash translation layer; implements BlockStore
    SflashFtlMC    its instances
    Eeprom         the EEPROM driver and its clients; implements TaskQueue
    EepromMC       its instances                      EepromProofs   its theorems
    I2cMaster      the I2C driver in master mode with Wire above it
    I2cMasterMC    its instances                      I2cMasterProofs its theorems
    UsbCdc         the USB serial port: driver, class above it, endpoints below
    UsbCdcMC       its instances                      UsbCdcProofs   its theorems
    ListFacts      lemmas about the operations on sequences that stand for linked lists

ArmEvent and RtcTimer contain the PendSV queue as a sequence `deferred` of bounded length: an
append is an accepted `armv6m_pendsv_enqueue`, no append a refused one, and the head is taken
when no other routine runs. That abstraction is `TaskQueue`, and theorem `Refinement` of
PendSvProofs is what entitles them to it.

### PendSv

A level of the model is an exception priority: 0 for SVC and PendSV, 1..Nest for what is above.
`pc[l]` says where the code of level l is; a level steps only while all above it are idle
(`Quiet`). The steps of `armv6m_pendsv_enqueue` are: read `queue_write` (`Enqueue`), test
for room (`EnqueueReject`, `EnqueueCheck`), compare-and-swap (`EnqueueCas`, `EnqueueCasFail`),
fill the slot (`EnqueueStore`), pend (`Pend`). The steps of `PendSV_Handler` are the two loads and
the branch (`HandlerEntry`), the loop of `armv6m_pendsv_dequeue` (`DequeueFetch`,
`DequeueAdvance`, the routine's body, `RoutineReturn`, `DequeueLoop`) and the callback
(`HandlerNoCallback`, `HandlerNotify`, `HandlerClear`, `HandlerCallback`). The body of a routine
may itself enqueue and notify, as event routines do. `fifo` and `accepted` are history variables:
the calls that won the compare-and-swap.

### ArmEvent

`control` is the control block, with the two circular lists as sequences, the frames on the stack
as the sequence of preempted events, and the notify callback of PendSV as a flag. The functions
`EventSchedule`, `EventInsert`, `EventRemove`, `EventSwitch` map the control block to the next one
and mirror the C functions, including their calls of each other; the `Svc...` operators are
the `armv6m_event_svc_...` functions. `Svc(op)` is a call from thread mode, `Isr(op)` one from a handler,
which `RunDeferred` performs later. `EnterCallback` and `Callback` are PendSV clearing and
running the callback, `Return` the end of an event routine, `Dequeue` the cooperative poll.
`Acquire` and `Release` keep the ceilings a routine holds in `saved`. `program`, fixed for a behaviour by one of
`Programs`, says what the application does: which events it uses and retunes, the ceilings it sets, how many calls it makes.
MostUrgentRuns and DueEventsRun are claims about programs that are `Plain`: no ceilings, no set_priority.

### RtcTimer

The list is a sequence with a function `delta`; `Link`, `Unlink`, `UnlinkRemoved` and `Expire` are the
list operations of insert, insert of a running timer, remove and callout. The list changes
in one step, because only SVC and PendSV routines change it. Arming the alarm is split where the
alarm's interrupt matters: `Alarm` (up to the critical section), `Arm` (the critical section),
`Check` (is it late, or the very next tick), `Wait`, `Late`. `Tick` is the RTC: time advances, and the
match of an alarm that is on raises the interrupt. An alarm set for the present tick may or may not match,
and one set for the next tick may be missed (`alrb = "mute"`), as the comment at stm32l0_rtc.c:650 says.
Times are RTC ticks, to which the code rounds every delay; STM32L0_RTC_TIMER_MAX_SECONDS is
`MaxDelta`. `SvcDestroy` and `IsrDestroy` are a remove that then calls the callback once more: for the list they are a stop, but a handler's
destroy leaves the callback in place until it is performed, so that StopIsFinal speaks of stops only. `due`,
`stopped` and `dropped` (an expiry found the queue full) are history variables.

### SerialTx

The thread's `write` is split at every access that the interrupt can see: the wait for an asynchronous write,
the count, the full ring, the copy with `_tx_write`, the atomic add, the kick; the
asynchronous write at the store of `_tx_size2` and the test of `_tx_busy`. The driver sends bytes
(`SendByte`) and then runs `_doneCallback` in one step (`DoneMore`, `DoneLast`, `DoneAsync`, one per branch). `Cdc`
selects the text of CDC.cpp where it differs: no test for an empty ring before the last
transfer. A byte is its number in the order of writing, so that order and loss show.

`mayFail`, fixed for a behaviour by one of `Failures`, lets the driver refuse a transfer or give one up; what is
promised of the bytes themselves holds if it is FALSE, that calls end holds of both but for one place. `Prompt` is an assumption about the
environment, not code: the thread is not held up, between the test for a full ring and that of
`_tx_busy`, or between the store of `_tx_size2` and that test, for as long as the driver takes to send
everything it was given (`InTime`). One entry of the interrupt there, or several, are in the model: a callback that takes the
buffer, starts the next packet, or finds its transfer refused or given up on a link that fails. The last of these may take the buffer before
write tests `_tx_busy` (`Forgotten`); CallsComplete is claimed of the behaviours where it does not. Section 4 says what happens there, and without Prompt.

### SflashFtl

`flash` maps each sector to its fields: the two identifications of a header, the entries with their erased
bit, type and data, and the two pages of each block; `Apply` is an erase or a program, and a program ANDs (`And`,
`AndEntry`). A type is the set of its bits that are still one, as the code clears them one after the other. `ram` is
`dosfs_sflash_t`. A call of the device is computed by an operator that mirrors the C function (`WriteBlock`, `DiscardBlock`,
`Reclaim`, `Merge` within `Prepare`, `MountSectors`, ...) on a record of flash, ram and the list of programs it
issues; the call then takes effect in flash one program per step (`Issue`), so that `PowerCut` comes between any two.
This is faithful because a call runs under the lock of the device (`Begin`, `Return`) and nothing else writes the
flash. `fate` records how a call would end: `ok`, `fails`, `spins` (no block is ever found) or `wild` (a pointer is
followed that names no block). After a power cut `Mount` recovers; if it fails, `dosfs_sflash_init` may format.

`BlockStore` is what the FAT layer relies on: a map from address to data, where a request that power cut
short took place or did not. `Promise` is the refinement mapping: what reads return stands for the map.
`Cuts` names the steps at which power may go besides those at which the recovery works; see section 4.

### Eeprom

Three contexts: the thread (`Enqueue...`, `WaitOver` of the core's `eeprom_write_block`, `Acquire`, `Unlock`, `Release` as
`stm32l0_flash_unlock` and `_lock` use them), an interrupt above the flash's (`UrgentEnqueue`), and the flash
interrupt (`Handler`), one action per step between which an urgent interrupt can push: the entry, the end of the
word, the callback, the search for the oldest transaction, the swap, the begin. `WordDone` is the controller. The list
is the linked list of the code (`head`, `next`), read by `Chain`. A refused unlock (:306) leaks its two locks, which
`refused` counts. The driver refines `TaskQueue`, the same abstraction as the PendSV ring.

### I2cMaster

One entry of the interrupt is one step, with one action per branch (`IrqArbitration`, `IrqNack`, `IrqByte`, `IrqReload`,
`IrqTurn`, `IrqEnds`, `IrqEnqueued`); `bus` is the peripheral with its NBYTES, RELOAD and AUTOEND and what went over the wire,
stepped by a slave that acknowledges or not and by another master (`OnBus`). Above it `Call`, `WireReturn` and `AsyncReturn` are
`TwoWire` (blocking) and `TwoWireTransaction` (its done callback), with `_xf_address` as `holding`. Any client may keep the bus; the driver
knows it by the address only. `Prompt` is an assumption about the environment: an asynchronous call is not held up, between the enqueue and the
store to `_xf_address` (Wire.cpp:584), until its transaction has ended and kept the bus (the guard of `Ends`).
The bytes of a message are numbered and those on the wire are recorded, so that one lost, doubled or out of order shows.

### UsbCdc

Each call of the USB stack is one step, as the USB interrupt runs to its end before the sketch goes on: `Configure`, `Detach`, `Suspend`,
`Resume`, `Sof` (the frame, which counts the timeout), `Control`, `RxReady` and `TxDone` are the functions of that name in
stm32l0_usbd_cdc.c. `CallBack` is the done callback of CDC.cpp, which may start its next transfer at once; what it defers is `deferred`, done by `PendSV`. The sketch
is split where the interrupt can see a difference: transmit at the test of the state, the swap of `tx_busy`, the store of the callback and `DoTransmit`; enable where it has looked at the bus (`Found`, one look at the handle,
`reset` and `suspended`), at the store of the state (`EnableStore`), at the arming of the endpoint and at `rx_busy`; receive at its loads, its stores, the subtraction, the test and the arming. `line` is what the vendored stack keeps: the buffer pointer, the place the OUT
endpoint is armed for, and a transfer on the IN endpoint. `unread`, `issued`, `asked` and `called` are history variables. SerialTx has the
transmit ring of CDC.cpp; here one transfer stands for one call of the driver.

`scene`, fixed for a behaviour by one of `Scenes`, is what host and sketch do: the lengths of packets and reads, how much may lie unread, whether packets
come inside of receive (`anytime`), and how many bytes, transfers and bus events there are. `Perils` names moments at which the driver does not hold what it should, and is empty in the run; section 4 says what each does.

## 3. Runs

| run | instance | what it shows |
|---|---|---|
| `pendsv` | ring of 3 (2 usable), 1 level above PendSV, 4 calls | RunsOldest, WorkIsPended, RejectsOnlyWhenFull, refinement of TaskQueue, NothingIsLost (accepted calls run, notifications arrive) |
| `arm_event` | two programs of 5 calls, queue of 2: 4 events (urgent, two equal, cooperative); 3 preemptive events of which one is retuned, destroyed and created again, and one ceiling | ListsSound (once in a list, in order, counts exact), NextIsReady, FifoAmongEquals in both; MostUrgentRuns and DueEventsRun in the first |
| `rtc_timer` | 3 interchangeable timers, delays 1 and 3, instant 2, cap 2, 3 starts, 7 ticks | DeltasAreDues, NoStall |
| `rtc_full` | 2 timers, one of them stopped and destroyed, queue of 4, 3 calls, 6 ticks | EventsMatch, DoneInThread, StopIsFinal when the queue overflows; TimersExpire |
| `serial_uart` | ring of 4, packets of 2, writes of 1 to 3, 8 bytes, links that fail and that do not | WireInOrder, CallbackAfterData, CallsComplete (on links that fail, unless one fails between :307 and :309 of Uart.cpp) |
| `sflash` | 3 sectors of 4 blocks, 2 values, 5 writes or discards | TablesMatchFlash, AllocationEnds, refinement of BlockStore by what reads return, through whatever is in the caches |
| `eeprom` | 4 transactions of 1 or 2 words, each accepted twice, one refusal | Undisturbed, SuccessIsStored, refinement of TaskQueue, EverythingEnds |
| `i2c` | a blocking and an asynchronous client which both keep the bus, at one address, 4 kinds of message, NBYTES_MAX 2, 3 calls | StatusIsTrue, KeptForItsClient, EverythingEnds |
| `usb` | ring of 3 packets of 2, timeout of 2 frames, three scenes: packets of 1 and 2 with a backlog of two packets; packets of 2 at any moment, reads of 1 and 3; 2 transfers and 5 bus events | RingIsQueue (contents, order, the endpoint given free memory), CalledOnce, EverythingEnds (transfers, calls, reads, reception) |
| `rtc_removed`, `serial_cdc`, `sflash_rewrite` | as above | the first three disagreements of section 4 |

Each run also checks the type invariant of its module once (`rtc_full` shares that of `rtc_timer`).

Every property has a mutant: an operator next to the definition it replaces, with the comment "Mutant",
that is the definition with a plausible slip. TLC finds the property violated when the
mutant replaces the definition, so no property holds for lack of cases.

### Why the bounds are enough

*PendSv.* Three slots are the smallest ring in which the pointers wrap while an enqueue is between its steps
and two calls wait; four calls fill it, are refused and reuse a slot. One level above PendSV preempts SVC and PendSV
at every instruction; that an enqueue is preempted by another that is preempted itself is covered by the proofs, which hold
for every number of levels and calls.

*ArmEvent.* Order among equals needs two equal events, preemption of a preempting event an urgent one. Five
calls allow enqueue, lock, enqueue again, unlock around one switch, or enqueue, retune, destroy, create, enqueue. The queue of two overflows.

*RtcTimer.* Three timers give a first, a middle and a last place. The delays lie on both sides of the cap, so that an
alarm is also set for less than the first timer's delay. Delay 1 is the next tick of the chip's issue.
Depth 7 holds every call and routine the instance can make, Depth 4 does not. Timers are interchangeable in
`rtc_timer`, where Stops is empty: symmetry is sound there, and it is used in no run with liveness. In `rtc_full` one timer may be
stopped, destroyed and started again beside another; with both, StopIsFinal does not hold (section 4). `Answerable` keeps starts away from the end of time, so the bound does not cut off an expiry.

*SerialTx.* The ring is two packets, and writes of three bytes do not divide it, so that packets are cut by the end of the buffer,
by the packet size and by the last byte. Eight bytes pass the ring twice.

*SflashFtl.* Three sectors are two of data and the one of reclaim, so that a victim is chosen among several. Twelve blocks less
the reserve of one sector, translation blocks and one spare leave the file system three addresses: one direct and two in one
translation block, so that direct and indirect entries, both tables of a segment and their merge occur. Five calls overwrite blocks and force
reclaims of sectors with live, deleted and translation blocks. The two values are interchangeable and no liveness is checked, so
symmetry is sound. Power may fail any number of times, also in what follows a recovery. A translation block has two entries, one in each page.

*Eeprom.* A save of two words repeated by its callback, a write of two words from the thread, an erase of the same words, in the other
order, from an urgent interrupt, and a read: a list of three, with pushes at both ends of a swap, words to skip and words to write.

*I2cMaster.* NBYTES_MAX 2 makes the write of three bytes and the read of three need a reload, the boundary the code has at 255. Messages cover a
scan (no bytes), a two-buffer write, a read, and a write followed by a read. Two addresses were checked for the safety
properties as well and add nothing, as the driver never compares addresses but for the kept bus, where equal ones are the hard case. Three calls let the asynchronous client keep the bus and give it back
and then the thread keep it; calls that give a kept bus back are not counted.

*UsbCdc.* Three packets are the least at which the ring wraps with one packet read, one unread and one to come; packets of one byte wrap it at 5
instead of 6. The backlog of Size - Packet of ShortPackets is the condition under which the driver is right with packets of any length (RingIsQueue alone holds with 11 bytes as well, which is as many as the overrun of section 4 takes); WholePackets sets none. Reads of
three bytes take the end of the ring and its start. Five bus events allow configure, suspend, resume, detach, configure around a transfer; the timeout of two frames can run out and be escaped.

Deadlock is checked for PendSv, where empty interrupts remain possible for ever. In the others the bounds on calls,
bytes and time end every behaviour, and CHECK_DEADLOCK is FALSE.

### Fairness

*PendSv*: strong fairness of the steps of each level, the return of handlers, and PendSV's entry. A level's step is disabled
whenever a more urgent handler runs and enabled again when it returns; handlers are finite, and a system whose interrupts
leave no time for PendSV does not work at all.
*ArmEvent*: weak fairness of PendSV, of the return of routines and of the release of a ceiling; none of the cooperative poll, which nothing in the repository calls: DueEventsRun is about preemptive events. *RtcTimer*: weak fairness of routines, of the alarm's interrupt and of time. *SerialTx*: weak fairness
of the driver and of the thread. *Eeprom*: weak fairness of the flash interrupt, of the controller, which ends each word or reports an
error, and of the thread inside a call. *I2cMaster*: weak fairness of the interrupt, of the bus and its slaves, of the returns, and that a client
which keeps the bus calls again, finally with a STOP: a client that keeps it for ever blocks the others by design. *UsbCdc*: weak fairness of frames while the bus is on, of PendSV and of
the steps of the sketch inside a call; strong fairness of the receive callback, which the PendSV queue calls whatever the sketch does; none of the host. *SflashFtl* needs
none: AllocationEnds is a property of the computation of each call. Otherwise no fairness is assumed of any call by the program.

## 4. Where code and promise disagree

1. `rtc_removed`. `stm32l0_rtc_timer_remove` (stm32l0_rtc.c:823) subtracts the delay of the timer it removes from the next one.
   Delays are relative to the predecessor, so it has to be added, as `stm32l0_rtc_timer_insert` does (:694). After a stop the timers
   behind expire early, against "at least" semantics (:735). Delays that are exact (DeltasAreDues) and alarms that are not late (NoStall) are therefore checked without stops in `rtc_timer`, and NotEarly is refuted with them here.
   What holds with stops (EventsMatch, DoneInThread, StopIsFinal, TimersExpire) is checked with them in `rtc_full`. StopIsFinal is so of timers started with a delay, where no other timer is stopped: one started for a time already past may expire
   after it was stopped, as its insertion and its removal are both deferred and the alarm's routine may have been queued between them. So may one that the
   removal of another timer made early in that place, another effect of :823: with `Stops = {t1, t2}`, Depth 6 and four calls TLC refutes StopIsFinal. The attempt to prove it found this; with fewer calls or a smaller queue the case does not occur.
2. `serial_cdc`. `CDC::write` (CDC.cpp:256) starts a transfer even when nothing is left to send. That transfer of no bytes has `_tx_size` 0, and its done callback
   takes the branch of the asynchronous write: one accepted meanwhile is ended and its data never sent. Uart.cpp:260 has the test.
3. `sflash_rewrite`. `dosfs_sflash_ftl_mount` (dosfs_sflash.c:1142) starts the allocator on the sector behind the reclaim sector and counts its DELETED
blocks as free, as the reclaim does (:187), but without the copy to an erased sector. After a remount a write programs such a block over its
old content and reads as the AND of both, against the assertion of every read at :1451. In the run `sflash` a device therefore goes on after a mount only if that left it `Sound`: free blocks erased, no block
lost, no address in both tables of its segment. The refuting run has `Cuts = {"rewrite"}`, which lets it go on always.

Further disagreements that a change of one constant reproduces:

- `Cuts = {"write"}` of SflashFtl. Power fails while a block is marked DATA_WRITTEN or DATA_DELETED. The mount completes the write through
  `cache[0]`, or reads the next header into `cache[0]` (:1126) without clearing its tag, and later takes a header for a translation table.
  TLC refutes AllocationEnds (`fate` is `wild`).
- `Cuts = {"reclaim"}`. Power fails during a reclaim. `info_entry &= ~DOSFS_SFLASH_INFO_TYPE_VICTIM` (:211) and its counterpart in the mount (:1064) clear the bits
  of the type they mean to set, so that the sector gets a type no mount knows; `cache[0] & MASK` (:1068) takes the identification for the sector.
  TLC refutes DataMounts, added to the invariants.
- `OneTableEach` or `NothingLeaked` left out of `Sound`. Power fails after the new block of a write is committed and before the old one is deleted, or between the copy of a
  table and its deletion in a merge: both tables then lead to a block. Reads are right, but a discard that follows (dosfs_sflash.c:1455) clears the entry and the block of
  the first table only, and the address shows its content still, or a deleted block. TLC refutes ImplementsBlockStore and TablesMatchFlash.
- `Careful = FALSE` of Eeprom. A transaction enqueued while a word is written in the other bank, from which the processor may go on, pends the flash
  interrupt, which drains the next transaction over the current one (stm32l0_eeprom.c:204). TLC refutes ImplementsTaskQueue.
- `Prompt = FALSE` of I2cMaster. `TwoWireTransaction` clears `_xf_address` after it handed the transaction to the driver (Wire.cpp:584); if the done
  callback of a transaction that keeps the bus ran before, the kept bus is forgotten. TLC refutes KeptForItsClient.
- `Prompt = FALSE` of SerialTx. In `Uart::write` with a callback, the last packet of the ring may end between the store of `_tx_size2` (:307) and the test of
  `_tx_busy` (:309); `_doneCallback` then sends the buffer itself. If that is finished too when the thread goes on, write starts a transfer of NULL and
  `_tx_busy` stays set. It takes a thread held up for the length of the buffer, for instance by a preemptive event. TLC refutes CallsComplete.
- `Forgotten` of SerialTx, with Prompt. On a link that fails one entry of the interrupt is enough: a transfer of the buffer refused between :307 and :309 (:424), or
  a packet before it (:405), or one given up there, ends the asynchronous write, and write goes on to start a transfer of NULL and no bytes: `_tx_busy` stays set, and later
  calls wait for ever. CallsComplete without `[]~Forgotten` is refuted so.

- A scene of UsbCdc with packets of 1 and 2, 11 bytes and a backlog of 6. `stm32l0_usbd_cdc_rx_ready` (stm32l0_usbd_cdc.c:271) wraps the ring when less than a packet is left at its
  end, whether or not its start has been read, and sets `rx_wrap` below what is counted. `rx_wrap - rx_count` (:279) is unsigned: it becomes huge, passes for room, and the endpoint is armed over unread bytes,
  where usbd_cdc.c:324 promises "next USB traffic being NAKed". It takes packets shorter than 64 bytes and a sketch that is slow. TLC refutes RingIsQueue.
- A scene with packets of one byte and `anytime`. receive stores the `rx_wrap` it loaded before the copy (:499) over the one that a packet has set meanwhile (RingIsQueue). With whole packets and
  `anytime` it sets `rx_busy` after arming the endpoint (:513), over the 0 of a packet that filled the ring, and reception stops: KeepsReceiving is claimed of scenes without `anytime`.
- A scene with bus events and a backlog above `Size - Packet`. `init` arms the endpoint without a test for room (:165), over unread bytes when less than a packet is free (RingIsQueue).
- `Perils = {"bus"}`. A reset of the bus between the test of the state in transmit (:541) and `do_transmit` makes the latter use a handle that is NULL and start a timeout for nothing (TransmitsToOpen, added to the
  properties); the comment at :521 says that running at this level avoids such conflicts. A suspend there, or before the first callback is stored, gives up a transfer nobody is told of (EverythingEnds).
  enable stores the state after it has looked at the bus (stm32l0_usbd_cdc.c:394 to 416): where the host comes in between, `init` still finds the port closed and arms for nobody, and enable, which saw no
  host, leaves it so: the port does not receive until the bus is reset (EverythingEnds). A suspend, a resume or a terminal that opens the port is overwritten there likewise.
- `Perils = {"full"}`. A transmit refused for a full PendSV queue (:561) leaves `tx_busy` set: no later one is accepted until the bus is reset (CalledOnce).
- `Perils = {"early"}`. `deinit` (:180) takes a port that was never enabled to RESET, so that begin fails; a reception armed before enable, or inside of it, has no buffer (RingIsQueue).
- `Perils = {"closed"}`. receive arms the endpoint through the NULL handle when there is no host (:510).

Seen while modelling and not a run: `CDC::begin` (CDC.cpp:89) on a port that is enabled sets `_enabled` to the false that enable returns, although the comment at :82 expects such a begin; `armv6m_event_dequeue` (armv6m_event.c:474) calls a cooperative routine with the routine for its argument where the context is meant;
`armv6m_event_release` (:457) does not schedule the event its ceiling held back; when the ring of Uart.cpp is full at :201 and drained at :207, a transfer of no bytes is
started, whose count the driver decrements below zero (stm32l0_uart.c:990); an alarm interrupt that finds the PendSV queue full (stm32l0_rtc.c:1431) leaves the timers
without an alarm. The hazards in `PROJECT.json` have the lines.

## 5. What is proved

Each module `XProofs` proves theorems about `X` for every value of its constants. The named assumptions of `X` on its constants are used; a theorem that supposes more says so.
The invariants and action properties that the passing runs check on these modules are all proved.

| module | supposes | theorem | states |
|---|---|---|---|
| PendSvProofs | | `TypeCorrect` | `TypeOK` |
| | | `RunsOldestAlways` | what the handler copies out is the oldest accepted call |
| | | `NoLostWakeup` | `WorkIsPended` and `NotifyIsPended` |
| | | `RejectsOnlyWhenFullAlways` | a call is refused only while Capacity-1 calls wait |
| | | `Refinement` | PendSv implements TaskQueue |
| ArmEventProofs | | `TypeCorrect`, `ListsAreSound` | each event that is due is once in the list of its priority, in order, and no other is |
| | | `TheNextEventIsReady` | the event chosen to run is still ready when PendSV comes to it |
| | | `TheMostUrgentRuns` | without ceilings and set_priority, nothing more urgent than what runs waits |
| | | `Fifo` | equals run in the order in which they were queued |
| RtcTimerProofs | | `EventsAreCounted` | `timer_events` counts the alarm routines that wait or run: at most one |
| | | `DoneIsRight` | `timer_done` tells timers in the list from those outside |
| | | `TypeCorrect` | `TypeOK` |
| | | `AlarmIsSet` | unless an expiry found the queue full, thread code finds the alarm on and in the future while a timer is in the list |
| | `Stops = {}` | `DeltasAreRight` | the delays of the list add up to the times the timers are due |
| | | `NoneIsEarly` | no timer expires before its time (`NotEarly`) |
| | | `NoTimerStalls` | unless an expiry found the queue full, the alarm of an idle system is on, in the future and not late (`NoStall`) |
| | one stopped, by delays | `StopsAreFinal` | a stopped timer is not called back |
| SerialTxProofs | `Uart` | `TypeCorrect`, `BytesLeaveInOrder` | every byte leaves once, in the order of writing |
| | | `CallbackComesLast` | a callback comes after the last byte of its write |
| EepromProofs | `TwoBanks` | `TypeCorrect`, `NobodyDisturbs` | who writes or owns the controller is alone |
| | | `SuccessMeansWritten` | SUCCESS only when every word has its value |
| | | `Refinement` | Eeprom implements TaskQueue |
| I2cMasterProofs | | `Order`, `TypeCorrect`, `StatusCorrect` | a status tells what happened on the wire, in any number of reloads |
| | | `OneLock` | the stop lock is held once exactly while the driver is not READY |
| | `Prompt` | `NobodyComesBetween` | the next transaction on a kept bus is of the client that kept it |
| | | `KeptCorrect` | and only that client continues it, and knows that it has to give it back |
| UsbCdcProofs | `Answered` | `CallsCorrect` | every accepted transfer is called back once |
| | | `TransmitsCorrect` | do_transmit always has a host |
| | `Roomy` | `RingCorrect` | the ring is a queue, and the endpoint is given none of what is unread |
| | both | `TypesCorrect` | `TypeOK` |

What the theorems suppose, and why:

- `Stops = {}` (RtcTimer): stm32l0_rtc.c:823 makes what follows a removed timer early, and `NotEarly` is refuted with one stop (section 4).
- One stopped, by delays (RtcTimer): at most one timer is ever stopped or destroyed, and timers are started for a delay of at least one tick, to which `stm32l0_rtc_timer_insert` (:735) rounds up every fraction.
  Section 4 says what happens otherwise. The run `rtc_full` is an instance.
- "Unless an expiry found the queue full" (RtcTimer): the theorems say `~dropped => ...`. An alarm interrupt that cannot queue its routine (stm32l0_rtc.c:1431) leaves the timers without an alarm.
- `Uart` (SerialTx): the UART's driver, and a thread that is not held up for the length of a buffer (`Prompt`). The other cases are the refuted ones of section 4. Both theorems on
  bytes are of links that do not fail.
- `TwoBanks` (Eeprom): `Careful`, interrupts enqueue only transactions in the bank that the program is fetched from, whose words stall them, and done
  callbacks only such of the other. It is what makes every word written alone (section 4, stm32l0_eeprom.c:204); the run is an instance.
- `Prompt` (I2cMaster): Wire.cpp:584 forgets the kept bus otherwise (section 4). Every client, blocking or asynchronous, may keep the bus.
- `Answered` and `Roomy` (UsbCdc): no bus failure inside of a call, nor any change of the bus between the two halves of enable (`StillSo`), and no full PendSV queue for the first; for the second no packet before enable, and either whole packets into a ring of a
  whole number of them (the code's is four), or packets of any length that leave room for one more. With bus events the room is needed with whole packets as well, as `init` arms without a test. The scenes
  of the run satisfy both. The bound on the backlog of whole packets is exact: one byte more in the instance of the run, and RingIsQueue fails. Short packets have a gap of one less: that a wrap leaves up to `Packet - 1`
  bytes at the end is counted in `LeastWrap`.

### The invariants

*PendSv.* `RunsOldest` is not inductive: that the slot at the read pointer holds the oldest call depends on who is filling which slot. `IInv` adds

- `ModeInv`: level 0 runs SVC or PendSV code and no interrupt level runs handler code;
- `RoomInv`: the calls waiting are as many as the slots between the pointers, and a handler about to swap still has room, because only PendSV moves `queue_read` and PendSV cannot
  run under a handler. This is why the test for room on a pointer that may be stale is safe;
- `LocalInv`: the local copy of `queue_write` lies in the used part of the ring or at its end;
- `ClaimInv`, `SlotInv`: each waiting call is in its slot or is being stored there by its owner;
- `HandlerInv`: the handler's copy of the read pointer is the shared one or its successor;
- `CallInv`: calls being enqueued are new and distinct.

The step that matters is DequeueFetch: PendSV runs only when no interrupt level is active, so no slot is claimed and not filled, except by level 0 itself, which is not in enqueue at that point; by `SlotInv` the slot
holds the oldest call. Each conjunct has a lemma with one step per action. `StepRefines` maps the winning compare-and-swap to `Accept`, the move of `queue_read` to `Start`, the return of the routine to `Finish`, and every other step to stuttering.

*ArmEvent.* `ListsInv` is ListsSound as the operations keep it: both lists have the due events of their kind as their members, without repetition (`Lists` of ListFacts), the preemptive one sorted. To that `ChoiceInv`
adds that the chosen event is the head of the list, `CountInv` that what is counted is owed to calls made, `AliveInv` that destroyed events count nothing or have their destruction queued behind all that is queued about them, `StackInv` that
only the bottom of the stack is the thread, and `PlainInv` that in plain programs the stack is strictly sorted and something is chosen exactly if the head is more urgent than what runs.
Each exported function is a function of control block and events; its lemma says that it keeps all that (`Sound`) and the order of equals that stay in place (`Ordered`), and is
used by the action that calls it and by the deferred one. `Fifo` is then one case for each.

*RtcTimer.* `EventsInv` counts the routines in the queue and in PendSV; `AlarmInv`: while one is counted the alarm is off, so that no second one comes; `ArmedInv`: a timer in the list which is
not armed has its removal under way; `WaitingInv`: one to be inserted is outside and has its insertion under way. With these, thread mode sees an empty queue and `timer_done` can trust the list.
Four more invariants are built on this one, each inductive given those before it.

- `TInv`: the types, and that `timer_busy` is set while the alarm is on, being armed or counted (`BusyInv`), so that the interrupt (:1429) and the routine do not take a match for a leftover.
- `CInv`: the alarm and the clock. An alarm that is over has passed (`OverInv`), a match is of the time that was set (`MatchInv`), and at each step of the arming it is known
  what the interrupt may have done before (`ReadyInv`, `SetInv`): where the code looks at the counter a second time, the alarm is on and will be noticed, or at most one tick away and muted,
  which are the cases in which the code waits for the tick or takes the alarm for late, and queues the routine itself. `AlarmIsSet` is `SetInv` for the reader.
- `DInv`: `DuesOK`, every timer expires at its due time by the sum of the delays before it; `Sorted`, no delay is negative; `FirstOK`, the alarm is not later than the first timer. The sums are
  the recursive function `Cum`. What an insertion, a removal or an expiry does to them (`LinkSums`, `UnlinkSums`, `ExpireSums`) comes from `CumSteps` and `CumUnique`: two functions with the
  same first value and steps are equal, as there is no least place at which they differ (`LeastNat`). `Expires` states sums by timer and not by place, so that the shift of places in an insertion is invisible.
  `RemovalsInv`: removals are of stopped timers only.
- `StInv`: a stopped timer has its removal behind every start of it, or is out and stays out (`EndsInv`); if a start made before the stop put it back while an alarm's routine is
  to run before the removal, it expires later than that alarm (`LaterInv`), since it was started for at least a tick after that alarm was over. `PlainInv` says that starts are by delays.

*SerialTx.* As bytes are numbered in the order of writing, the contents of the ring, of the buffer and of the wire follow from how many bytes are where: `RingInv`, `AsyncInv`, `FlightInv` and `WireInv` give each the
numbers it holds. `CountInv` relates the counter that both sides change to the two indices, including the write between copy and publish.

*Eeprom.* The proof follows a transaction from hand to hand: linked by the thread (`MineInv`), in the list (`ListInv`, `SeenInv`), taken by the handler and current (`CurrentInv`), reported (`StoredInv`). It has one place at a time, and only the last
changes its status. `AloneInv` and `OwnerInv` say whom the controller belongs to. That the pointers form a list is `ChainIs`, with an induction that needs only the least counterexample (`LeastNat` of ListFacts).
`Refinement` reads the list backwards, as the newest transaction is at its head: a successful compare-and-swap is `Accept`, the cut at the other end `Start`, the callback `Finish`.

*I2cMaster.* `TransferInv` says of a running transfer which bytes are sent, in the shift register, in TXDR and left in the two buffers, that NBYTES and RELOAD agree with what is left (`Counted`, `Register`), and what it means that a
flag is set (`SignalsOpen`, `StopFollows`, `Refusal`). `QueueInv` and `CurrentInv`: each transaction that is busy is queued or current, once. The parts are predicates of driver, peripheral and transactions, as the tail of an interrupt
(`Dispatch`) starts the next transaction in the same step. `KeepInv` adds whom the bus is kept for, in the driver and in the clients: a
client outside of a call that holds an address is the one the driver awaits (`Awaits`), so that a continuation accepted by address alone is of the client that kept the bus (`Keeps`). The two kinds of client differ in when they learn it: the
asynchronous one in its done callback, the thread when its call returns.

*UsbCdc.* `CallsInv`: a transfer is asked and not called back exactly if `tx_busy` is set without `tx_flush`, whoever is between the test and the swap (`CallsOf`). `HostInv`: without a host nothing is sent, armed or deferred. `FoundInv` and `StoreInv`: between the two halves of enable the host stays what it was found, and nobody uses the ring. `RingInv`: the unread bytes lie straight behind each other up to the write pointer
(`Straight`) or up to `rx_wrap` and then from 0 on (`Folded`), the count is theirs and what receive has taken and not subtracted yet, and the ring holds them. `ArmedInv`: the endpoint is armed for the write pointer only, with
room for a packet there. `ReceiveInv`: what receive has loaded is still true when it copies, although packets come meanwhile. The lemma that matters is `ReadyShape`: a packet that would wrap the ring does so behind the last unread byte.

### Only model-checked

- Liveness (EverythingEnds, DueEventsRun, TimersExpire, CallsComplete and the like), which needs fairness and ENABLED.
- SflashFtl with its refinement of BlockStore, TablesMatchFlash and AllocationEnds.
- The cases outside of the hypotheses above.

No module declares a RECURSIVE operator, so that all of them can be proved about.

## 6. What is not modelled

By far the largest part of the repository is not this project's own logic: register headers of the chip (CMSIS), ST's USB stack and HAL, Semtech's
LoRaMac, and a FAT file system whose substance is a disk format. The models cover the code that
coordinates concurrent contexts or survives a crash. In the parts that are modelled:

- ArmEvent: a destroy from a handler that finds the PendSV queue full (armv6m_event.c:389). It is dropped without notice, and the caller would give away a structure that is still queued.
- Widths: an event's count is 16 bits wide and wraps after 65535 enqueues, far beyond the bound on calls. `armv6m_event_dequeue`'s argument is not modelled.
- RtcTimer: a split of the two deferred calls of a start by another handler, and the store to `previous` by a handler during an insertion
  (stm32l0_rtc.c:910), both listed as hazards. Calendar arithmetic and rounding to ticks: RtcTimer counts ticks.
- SerialTx: the receive side, begin and end (UsbCdc has them for CDC); writes from handlers, and by a preemptive event in the middle of the thread's write, which the code does not support.
- SflashFtl: erase counts are left out, and whether a reclaim finds its victim less worn is a choice (`worn`). The device formats only
  after a mount that failed. A discard is of addresses beyond the direct ones, as the file system discards only its data area, and a write
  changes its block. One call writes one block: longer ones repeat it under the same lock. The flash chip behind `interface` is an array.
- Eeprom: a pending flash interrupt is taken before the next step of the thread; a push by a callback or an urgent interrupt is one step, as nothing that
  pushes preempts it; transactions of no bytes or of unaligned parts of a word are left out, and with them those that `stm32l0_eeprom_enqueue`
  refuses before it touches anything (:85 to :105: not initialised, beyond the end of the memory, an erase of unaligned words). A refusal
  of that kind changes no state.
- I2cMaster: master mode without DMA as a separate path (the interrupt and the DMA transfer differ in who moves the bytes); one entry of the interrupt is
  one step; the list's compare-and-swap is that of Eeprom and taken as one step; received data is counted, not compared; `_xf_status` and the PendSV call
  of the done callback are the status and AsyncReturn. Enable, disable, configure and reset, which test for READY in thread mode, and the slave side are left out.
- UsbCdc: peek, which stores nothing, `poll`, `destroy`, the restart into the boot loader (`dfu_timeout`), the line coding as data; what following a NULL pointer does (`DoTransmit` without
  a host sends nothing). The class shares the interrupt with HID and mass storage, which touch none of this state.
- The components with status `not_modelled` in `PROJECT.json`, each with its reason.

## 7. Plan

1. done: PendSv with its refinement, ArmEvent, RtcTimer, SerialTx; SflashFtl with BlockStore, Eeprom, I2cMaster, UsbCdc.
2. Proofs. Done: section 5. Left: types and TablesMatchFlash of SflashFtl, whose invariant is `Sound`, with the tables read as functions from addresses to blocks.
3. Candidates for further modules: SysTick (monotonic time under nested readers),
   TimerMillis on RtcTimer with the split start of two handlers.
