----------------------------- MODULE RtcTimer -----------------------------
(***************************************************************************)
(* stm32l0_rtc.c: the software timers multiplexed on alarm B of the RTC.   *)
(*                                                                         *)
(* Running timers form a list ordered by expiry, each with the delay after *)
(* its predecessor.  The list changes only in SVC and PendSV routines,     *)
(* which run one at a time; handlers defer to the PendSV queue (module     *)
(* PendSv, here the FIFO it implements).  The alarm handler preempts them  *)
(* anywhere, so the arming of the alarm is modelled in its steps.  Time is *)
(* counted in RTC ticks, to which the code rounds every delay.             *)
(***************************************************************************)
EXTENDS Integers, Sequences, SequencesExt

CONSTANTS
    Timer,     \* the timers of the program
    None,      \* NULL
    Delays,    \* relative delays timers are started with
    Instants,  \* absolute times timers are started with
    MaxDelta,  \* STM32L0_RTC_TIMER_MAX_SECONDS
    Stops,     \* timers the program stops or destroys before they expire
    Depth,     \* entries the PendSV queue holds
    MaxCalls,  \* bound on starts, stops and destroys
    MaxNow     \* bound on time

ASSUME RtcTimerAssumption ==
    /\ None \notin Timer /\ Stops \subseteq Timer
    /\ Delays \subseteq Nat /\ Instants \subseteq Nat
    /\ MaxDelta \in Nat \ {0} /\ Depth \in Nat /\ MaxCalls \in Nat /\ MaxNow \in Nat

VARIABLES
    now,           \* the RTC calendar
    timer_queue,   \* the list, first to expire first
    delta,         \* seconds and subseconds of each timer
    adjust,        \* the absolute flag insert_1 leaves for insert_2
    armed,         \* timers whose callback has bit 0 set
    waiting,       \* timers outside the list whose previous is ~0, not NULL
    timer_start, timer_stop, timer_busy, timer_events,
    alrb,          \* alarm B: "off", "on", or "mute" (on, and its match is missed)
    irq,           \* ALRBF is set and its interrupt not yet taken
    deferred,      \* the PendSV queue
    task,          \* the SVC or PendSV routine that is running
    pc,            \* where it is: "idle", "run" or in stm32l0_rtc_timer_alarm
    calls,         \* starts, stops and destroys so far
    due,           \* history: when each timer is to expire
    stopped,       \* history: timers whose last accepted call is a stop
    dropped        \* history: an expiry found the PendSV queue full

list  == <<timer_queue, delta, adjust, armed>>
alarm == <<timer_start, timer_stop, timer_busy, alrb>>
vars  == <<now, list, waiting, alarm, timer_events, irq, deferred, task, pc, calls, due, stopped, dropped>>

Idle == [kind |-> "idle", timer |-> None, at |-> 0, absolute |-> FALSE]

TypeOK ==
    /\ now \in 0..MaxNow /\ calls \in 0..MaxCalls
    /\ timer_queue \in Seq(Timer) /\ delta \in [Timer -> Int] /\ adjust \in [Timer -> BOOLEAN]
    /\ armed \subseteq Timer /\ waiting \subseteq Timer \ ToSet(timer_queue)
    /\ timer_start \in Int /\ timer_stop \in Int
    /\ timer_busy \in BOOLEAN /\ timer_events \in 0..Depth+1
    /\ alrb \in {"off", "on", "mute"} /\ irq \in BOOLEAN
    /\ Len(deferred) <= Depth
    /\ pc \in {"idle", "run", "arm", "check", "wait", "late"}
    /\ pc = "idle" <=> task = Idle
    /\ due \in [Timer -> Int] /\ stopped \subseteq Timer /\ dropped \in BOOLEAN

Init ==
    /\ now = 0 /\ calls = 0
    /\ timer_queue = <<>>
    /\ delta = [t \in Timer |-> 0] /\ adjust = [t \in Timer |-> FALSE]
    /\ armed = {} /\ waiting = {} /\ stopped = {} /\ dropped = FALSE
    /\ timer_start = 0 /\ timer_stop = 0
    /\ timer_busy = FALSE /\ timer_events = 0
    /\ alrb = "off" /\ irq = FALSE
    /\ deferred = <<>> /\ task = Idle /\ pc = "idle"
    /\ due = [t \in Timer |-> 0]

-----------------------------------------------------------------------------
(* The list, as functions of a list q and the delays d of its timers.       *)

\* When the i-th timer expires, counted from timer_start.
Cum(q, d, i) ==
    LET sum[j \in 0..Len(q)] == IF j = 0 THEN 0 ELSE sum[j - 1] + d[q[j]]
    IN  sum[i]

\* The first timer that expires later than after, or the place past the end.
Later(q, d, after) ==
    LET later == {i \in 1..Len(q) : Cum(q, d, i) > after}
    IN  IF later = {} THEN Len(q) + 1 ELSE CHOOSE i \in later : \A j \in later : i <= j

\* The delay of a timer that stm32l0_rtc_timer_insert takes out goes to the next.
Unlink(q, d, t) ==
    LET i == SelectInSeq(q, LAMBDA u : u = t)
    IN  [queue |-> RemoveAt(q, i),
         delta |-> [u \in Timer |-> IF u = t THEN 0
                                    ELSE IF i < Len(q) /\ u = q[i + 1] THEN d[u] + d[t] ELSE d[u]]]

\* stm32l0_rtc_timer_remove subtracts it instead.
UnlinkRemoved(q, d, t) ==
    LET i == SelectInSeq(q, LAMBDA u : u = t)
    IN  [queue |-> RemoveAt(q, i),
         delta |-> [u \in Timer |-> IF u = t THEN 0
                                    ELSE IF i < Len(q) /\ u = q[i + 1] THEN d[u] - d[t] ELSE d[u]]]

\* Mutant: the next timer keeps its delay after the timer before it.
LinkKeepsDelay(q, d, t, after) ==
    LET i == Later(q, d, after)
    IN  [queue |-> InsertAt(q, i, t), delta |-> [d EXCEPT ![t] = after - Cum(q, d, i - 1)]]

\* Timer t enters, to expire after ticks later than timer_start.
Link(q, d, t, after) ==
    LET i == Later(q, d, after)
    IN  [queue |-> InsertAt(q, i, t),
         delta |-> [u \in Timer |-> IF u = t THEN after - Cum(q, d, i - 1)
                                    ELSE IF i <= Len(q) /\ u = q[i] THEN Cum(q, d, i) - after
                                    ELSE d[u]]]

\* Mutant: the timer after the expired ones keeps its whole delay.
ExpireKeepsDelay(q, d, elapsed) ==
    LET i == Later(q, d, elapsed)
    IN  [queue |-> SubSeq(q, i, Len(q)),
         delta |-> [u \in Timer |-> IF \E j \in 1..i-1 : u = q[j] THEN 0 ELSE d[u]]]

\* stm32l0_rtc_timer_callout: the timers due within elapsed leave.
Expire(q, d, elapsed) ==
    LET i == Later(q, d, elapsed)
    IN  [queue |-> SubSeq(q, i, Len(q)),
         delta |-> [u \in Timer |-> IF \E j \in 1..i-1 : u = q[j] THEN 0
                                    ELSE IF i <= Len(q) /\ u = q[i] THEN Cum(q, d, i) - elapsed
                                    ELSE d[u]]]

-----------------------------------------------------------------------------
(* stm32l0_rtc_timer_alarm. *)

Done == pc' = "idle" /\ task' = Idle

\* Up to the critical section, on the list as it is after the step.
Alarm(start) ==
    LET head == delta'[Head(timer_queue')]
    IN  /\ timer_start' = start
        /\ timer_stop' = start + (IF head > MaxDelta THEN MaxDelta ELSE head)
        /\ pc' = "arm" /\ task' = task

\* The critical section.  An alarm set for the present tick may or may not
\* match; one set for the next tick may be missed, as the code's comment says.
Arm ==
    /\ pc = "arm"
    /\ IF timer_events = 0
       THEN /\ timer_busy' = TRUE
            /\ alrb' \in IF timer_stop = now + 1 THEN {"on", "mute"} ELSE {"on"}
            /\ irq' \in IF timer_stop = now THEN BOOLEAN ELSE {FALSE}
       ELSE UNCHANGED <<timer_busy, alrb, irq>>
    /\ IF timer_busy' THEN pc' = "check" /\ UNCHANGED task ELSE Done
    /\ UNCHANGED <<now, list, waiting, timer_start, timer_stop, timer_events, deferred, calls,
                   due, stopped, dropped>>

\* Mutant: an alarm for the next tick is trusted to interrupt.
CheckTrustsNextTick ==
    /\ pc = "check"
    /\ IF now >= timer_stop THEN pc' = "late" /\ UNCHANGED task ELSE Done
    /\ UNCHANGED <<now, list, waiting, alarm, timer_events, irq, deferred, calls, due, stopped, dropped>>

Check ==
    /\ pc = "check"
    /\ CASE now >= timer_stop    -> pc' = "late" /\ UNCHANGED task
         [] now = timer_stop - 1 -> pc' = "wait" /\ UNCHANGED task
         [] OTHER                -> Done
    /\ UNCHANGED <<now, list, waiting, alarm, timer_events, irq, deferred, calls, due, stopped, dropped>>

Wait ==
    /\ pc = "wait"
    /\ timer_events # 0 \/ now >= timer_stop
    /\ pc' = "late"
    /\ UNCHANGED <<now, list, waiting, alarm, timer_events, irq, deferred, task, calls, due, stopped, dropped>>

Room(n) == Len(deferred) + n <= Depth

EnqueueRoutine ==
    IF Room(1)
    THEN /\ deferred' = Append(deferred, [Idle EXCEPT !.kind = "routine"])
         /\ timer_events' = timer_events + 1
         /\ UNCHANGED dropped
    ELSE dropped' = TRUE /\ UNCHANGED <<deferred, timer_events>>

\* Mutant: the interrupt may have enqueued the routine before the alarm was off.
LateUntested ==
    /\ pc = "late"
    /\ alrb' = "off" /\ irq' = FALSE
    /\ EnqueueRoutine
    /\ Done
    /\ UNCHANGED <<now, list, waiting, timer_start, timer_stop, timer_busy, calls, due, stopped>>

Late ==
    /\ pc = "late"
    /\ alrb' = "off" /\ irq' = FALSE
    /\ IF timer_events = 0 THEN EnqueueRoutine ELSE UNCHANGED <<deferred, timer_events, dropped>>
    /\ Done
    /\ UNCHANGED <<now, list, waiting, timer_start, timer_stop, timer_busy, calls, due, stopped>>

\* RTC_IRQHandler, its alarm B part.
RtcIrq ==
    /\ irq
    /\ irq' = FALSE /\ alrb' = "off"
    /\ IF timer_busy THEN EnqueueRoutine ELSE UNCHANGED <<deferred, timer_events, dropped>>
    /\ UNCHANGED <<now, list, waiting, timer_start, timer_stop, timer_busy, task, pc, calls,
                   due, stopped>>

-----------------------------------------------------------------------------
(* The routines run by SVC and PendSV. *)

NewList(l) == timer_queue' = l.queue /\ delta' = l.delta

\* Mutant: bit 0 of the callback is not set.
ReleaseCallback(t) == UNCHANGED armed

ArmCallback(t) == armed' = armed \union {t}

\* stm32l0_rtc_timer_insert; an absolute time in the past expires at once.
Insert(t, at, absolute) ==
    LET ticks == IF ~absolute THEN at ELSE IF at <= now THEN 0 ELSE at - now
        old   == IF t \in ToSet(timer_queue) THEN Unlink(timer_queue, delta, t)
                 ELSE [queue |-> timer_queue, delta |-> delta]
        start == IF old.queue = <<>> THEN now ELSE timer_start
    IN  /\ NewList(Link(old.queue, old.delta, t, now - start + ticks))
        /\ ArmCallback(t)
        /\ waiting' = waiting \ {t}
        /\ due' = [due EXCEPT ![t] = now + ticks]
        /\ IF Head(timer_queue') = t
           THEN /\ alrb' = "off" /\ irq' = FALSE
                /\ IF timer_events = 0 THEN Alarm(start)
                   ELSE timer_start' = start /\ UNCHANGED timer_stop /\ Done
           ELSE timer_start' = start /\ UNCHANGED <<timer_stop, alrb, irq>> /\ Done
        /\ UNCHANGED <<adjust, timer_busy, timer_events>>

InsertAdjust(t, absolute) ==
    /\ adjust' = [adjust EXCEPT ![t] = absolute]
    /\ Done
    /\ UNCHANGED <<timer_queue, delta, armed, waiting, alarm, timer_events, irq, due>>

\* Mutant: the alarm is not set for the timer that is now first.
RemoveUnscheduled(t) ==
    /\ IF t \in ToSet(timer_queue)
       THEN /\ NewList(UnlinkRemoved(timer_queue, delta, t))
            /\ waiting' = waiting /\ alrb' = "off" /\ irq' = FALSE
       ELSE UNCHANGED <<timer_queue, delta, waiting, alrb, irq>>
    /\ Done
    /\ UNCHANGED <<timer_start, timer_stop, adjust, armed, timer_busy, timer_events, due>>

RemoveTimer(t) ==
    /\ IF t \in ToSet(timer_queue)
       THEN /\ NewList(UnlinkRemoved(timer_queue, delta, t))
            /\ waiting' = waiting /\ alrb' = "off" /\ irq' = FALSE
            /\ IF timer_queue' # <<>> /\ timer_events = 0 THEN Alarm(timer_start)
               ELSE UNCHANGED <<timer_start, timer_stop>> /\ Done
       ELSE UNCHANGED <<timer_queue, delta, waiting, timer_start, timer_stop, alrb, irq>> /\ Done
    /\ UNCHANGED <<adjust, armed, timer_busy, timer_events, due>>

\* stm32l0_rtc_timer_routine.
Routine ==
    /\ timer_busy' = FALSE
    /\ IF timer_busy THEN NewList(Expire(timer_queue, delta, timer_stop - timer_start))
       ELSE UNCHANGED <<timer_queue, delta>>
    /\ timer_events' = timer_events - 1
    /\ IF timer_events = 1 /\ timer_queue' # <<>> THEN Alarm(timer_stop)
       ELSE UNCHANGED <<timer_start, timer_stop>> /\ Done
    /\ UNCHANGED <<adjust, armed, waiting, alrb, irq, due>>

Run ==
    /\ pc = "run"
    /\ CASE task.kind = "insert_1" -> InsertAdjust(task.timer, task.absolute)
         [] task.kind = "insert_2" -> Insert(task.timer, task.at, adjust[task.timer])
         [] task.kind = "insert"   -> Insert(task.timer, task.at, task.absolute)
         [] task.kind \in {"remove", "release"} -> RemoveTimer(task.timer)
         [] task.kind = "routine"  -> Routine
    /\ UNCHANGED <<now, deferred, calls, stopped, dropped>>

\* PendSV takes the oldest deferred call.
Take ==
    /\ pc = "idle" /\ deferred # <<>>
    /\ task' = Head(deferred) /\ deferred' = Tail(deferred) /\ pc' = "run"
    /\ UNCHANGED <<now, list, waiting, alarm, timer_events, irq, calls, due, stopped, dropped>>

-----------------------------------------------------------------------------
(* The callers. *)

ThreadRuns == pc = "idle" /\ deferred = <<>>

Request == [at : Delays, absolute : {FALSE}] \union [at : Instants, absolute : {TRUE}]

Call == calls < MaxCalls /\ calls' = calls + 1

\* A start leaves time for the timer to expire before time ends.
Answerable(r) == r.at + (IF r.absolute THEN 0 ELSE now) < MaxNow

SvcStart(t, r) ==
    /\ ThreadRuns /\ Call /\ Answerable(r)
    /\ task' = [kind |-> "insert", timer |-> t, at |-> r.at, absolute |-> r.absolute]
    /\ pc' = "run"
    /\ stopped' = stopped \ {t}
    /\ UNCHANGED <<now, list, waiting, alarm, timer_events, irq, deferred, due, dropped>>

SvcStop(t) ==
    /\ ThreadRuns /\ Call
    /\ task' = [Idle EXCEPT !.kind = "remove", !.timer = t]
    /\ pc' = "run"
    /\ stopped' = stopped \union {t}
    /\ UNCHANGED <<now, list, waiting, alarm, timer_events, irq, deferred, due, dropped>>

\* Mutant: previous is overwritten in a timer that is in the list.
UnlinkedUntested(t) == TRUE

Unlinked(t) == t \notin ToSet(timer_queue)

\* A handler, or the callback of an expired timer.
IsrStart(t, r) ==
    /\ Call /\ Answerable(r)
    /\ LET first  == [Idle EXCEPT !.kind = "insert_1", !.timer = t, !.absolute = r.absolute]
           second == [Idle EXCEPT !.kind = "insert_2", !.timer = t, !.at = r.at]
       IN  deferred' = deferred \o (IF Room(2) THEN <<first, second>>
                                    ELSE IF Room(1) THEN <<first>> ELSE <<>>)
    /\ waiting' = IF Room(2) /\ Unlinked(t) THEN waiting \union {t} ELSE waiting
    /\ stopped' = IF Room(2) THEN stopped \ {t} ELSE stopped
    /\ UNCHANGED <<now, list, alarm, timer_events, irq, task, pc, due,
                   dropped>>

\* Mutant: the callback stays armed until the deferred removal.
IsrStopStaysArmed(t) ==
    /\ Call
    /\ IF Room(1)
       THEN /\ deferred' = Append(deferred, [Idle EXCEPT !.kind = "remove", !.timer = t])
            /\ stopped' = stopped \union {t}
       ELSE UNCHANGED <<deferred, stopped>>
    /\ UNCHANGED <<now, list, waiting, alarm, timer_events, irq, task, pc, due,
                   dropped>>

IsrStop(t) ==
    /\ Call
    /\ IF Room(1)
       THEN /\ deferred' = Append(deferred, [Idle EXCEPT !.kind = "remove", !.timer = t])
            /\ armed' = armed \ {t}
            /\ stopped' = stopped \union {t}
       ELSE UNCHANGED <<deferred, armed, stopped>>
    /\ UNCHANGED <<now, timer_queue, delta, adjust, waiting, alarm, timer_events, irq, task, pc, due,
                   dropped>>

\* stm32l0_rtc_timer_destroy: the timer is removed and its callback called once
\* more, which says that it is gone.
SvcDestroy(t) ==
    /\ ThreadRuns /\ Call
    /\ task' = [Idle EXCEPT !.kind = "release", !.timer = t] /\ pc' = "run"
    /\ UNCHANGED <<now, list, waiting, alarm, timer_events, irq, deferred, due, stopped, dropped>>

IsrDestroy(t) ==
    /\ Call /\ Room(1)
    /\ deferred' = Append(deferred, [Idle EXCEPT !.kind = "release", !.timer = t])
    /\ UNCHANGED <<now, list, waiting, alarm, timer_events, irq, task, pc, due, stopped, dropped>>

\* The interrupt is taken within the tick that raised it.
Tick ==
    /\ now < MaxNow /\ ~irq
    /\ now' = now + 1
    /\ irq' = (alrb = "on" /\ now + 1 = timer_stop)
    /\ UNCHANGED <<list, waiting, alarm, timer_events, deferred, task, pc, calls, due, stopped, dropped>>

-----------------------------------------------------------------------------
Kernel == Take \/ Run \/ Arm \/ Check \/ Wait \/ Late

Next ==
    \/ \E t \in Timer, r \in Request : SvcStart(t, r) \/ IsrStart(t, r)
    \/ \E t \in Stops : SvcStop(t) \/ IsrStop(t) \/ SvcDestroy(t) \/ IsrDestroy(t)
    \/ Kernel \/ RtcIrq \/ Tick

Spec == Init /\ [][Next]_vars

\* Time passes, interrupts are taken, and PendSV and SVC routines proceed.
LiveSpec == Spec /\ WF_vars(Kernel) /\ WF_vars(RtcIrq) /\ WF_vars(Tick)

-----------------------------------------------------------------------------
(* Properties. *)

timer_done(t) == t \notin ToSet(timer_queue) \union waiting \/ t \notin armed

\* timer_events counts the routines that wait or are about to run, never two.
EventsMatch ==
    LET routines == {i \in 1..Len(deferred) : deferred[i].kind = "routine"}
        running  == pc = "run" /\ task.kind = "routine"
    IN  timer_events = (IF routines = {} THEN 0 ELSE 1) + (IF running THEN 1 ELSE 0)
        /\ timer_events <= 1

\* The delays of the list add up to the time each timer is due, in order, while
\* timers are inserted, started again and expire, from thread and from handlers.
DeltasAreDues == \A i \in 1..Len(timer_queue) :
    /\ timer_start + Cum(timer_queue, delta, i) = due[timer_queue[i]]
    /\ delta[timer_queue[i]] >= 0

\* While nothing is left to run, the alarm is on, in the future, is going to be
\* noticed, and is not after the first timer's time: no timer is forgotten or late.
NoStall == ThreadRuns /\ ~irq /\ timer_queue # <<>> =>
    /\ alrb = "on" /\ timer_busy /\ now < timer_stop
    /\ timer_stop <= due[Head(timer_queue)]

RoutineRuns == pc = "run" /\ task.kind = "routine" /\ pc' # "run"
Left == ToSet(timer_queue) \ ToSet(timer_queue')

\* A timer does not expire before the time it was started for.
NotEarly == [][RoutineRuns => \A t \in Left : due[t] <= now]_vars

\* After stm32l0_rtc_timer_stop reported success, the callback is not called
\* until the timer is started again, although a start deferred before the stop
\* may still put it in the list.  This is so of timers started for a delay, when
\* no other timer is stopped: one started for a time already past may expire
\* between its insertion and its removal, when the alarm's routine was queued
\* between the two, and so may one that the removal of another made early.
StopIsFinal == [][RoutineRuns => Left \intersect armed \intersect stopped = {}]_vars

\* In thread mode stm32l0_rtc_timer_done is true exactly of the timers that are
\* not in the list, whatever handlers started and stopped before.
DoneInThread == ThreadRuns => \A t \in Timer : timer_done(t) <=> t \notin ToSet(timer_queue)

\* A timer in the list eventually leaves it, unless it is started again for a
\* time past the bound, or an expiry found the PendSV queue full: alarm B is off
\* then and nothing sets it again.
TimersExpire == \A t \in Timer :
    LET running == t \in ToSet(timer_queue) /\ due[t] < MaxNow IN running ~> ~running \/ dropped
=============================================================================
