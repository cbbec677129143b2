----------------------------- MODULE ArmEvent -----------------------------
(***************************************************************************)
(* armv6m_event.c: the event kernel.  An event is a routine with a         *)
(* priority; a preemptive event runs on top of whatever runs with less     *)
(* urgency, a cooperative one when the thread asks for it.                 *)
(*                                                                         *)
(* All changes of the kernel are made by SVC or PendSV routines, which run *)
(* at one exception priority and so one at a time.  Thread mode calls them *)
(* directly (SVC); interrupt handlers defer them to the PendSV queue       *)
(* (module PendSv, here the FIFO it implements) and ignore a refusal.      *)
(* Priorities are numbers, the smaller the more urgent.                    *)
(***************************************************************************)
EXTENDS Integers, Sequences, FiniteSets, SequencesExt

CONSTANTS
    Event,        \* the event structures
    None,         \* NULL
    Priorities,   \* priorities events are given, Cooperative among them or not
    Cooperative,  \* ARMV6M_EVENT_PRIORITY_COOPERATIVE, 255
    InitPriority, \* [Event -> Priorities], given at armv6m_event_create
    Depth,        \* entries the PendSV queue holds
    Programs      \* the programs that may be run, each with
                  \*   events    the events it creates
                  \*   retuned   those whose priority it changes or which it destroys
                  \*   ceilings  the priorities it calls armv6m_event_acquire with
                  \*   ops       a bound on its calls

ASSUME ArmEventAssumption ==
    /\ None \notin Event
    /\ Cooperative \in Nat /\ Priorities \subseteq 0..Cooperative
    /\ InitPriority \in [Event -> Priorities]
    /\ Depth \in Nat
    /\ \A g \in Programs : /\ g.retuned \subseteq g.events /\ g.events \subseteq Event
                          /\ g.ceilings \subseteq 0..Cooperative /\ g.ops \in Nat

VARIABLES
    program,   \* the program of this behaviour
    control,   \* armv6m_event_control
    event,     \* the event structures
    alive,     \* the events the program created and did not ask to destroy
    deferred,  \* calls waiting in the PendSV queue
    stage,     \* "thread", or "callback" when PendSV is about to run the callback
    saved,     \* ceilings the active routines hold, with the stack depth of each
    ops,       \* calls made so far
    owed       \* history: enqueues accepted and not yet executed, per event

vars == <<program, control, event, alive, deferred, stage, saved, ops, owed>>

TypeOK ==
    /\ control \in [self : Event \union {None}, next : Event \union {None},
                    stack : Seq(Event \union {None}),
                    preemptive : Seq(Event), cooperative : Seq(Event),
                    ceiling : 0..Cooperative, notify : BOOLEAN]
    /\ program \in Programs
    /\ event \in [Event -> [priority : 0..Cooperative, lock : BOOLEAN, count : 0..program.ops]]
    /\ alive \subseteq program.events
    /\ stage \in {"thread", "callback"}
    /\ ops \in 0..program.ops
    /\ owed \in [Event -> 0..program.ops]
    /\ Len(deferred) <= Depth

Init ==
    /\ program \in Programs
    /\ control = [self |-> None, next |-> None, stack |-> <<>>,
                  preemptive |-> <<>>, cooperative |-> <<>>,
                  ceiling |-> Cooperative, notify |-> FALSE]
    /\ event = [e \in Event |-> [priority |-> InitPriority[e], lock |-> FALSE, count |-> 0]]
    /\ alive = program.events
    /\ deferred = <<>>
    /\ stage = "thread"
    /\ saved = <<>>
    /\ ops = 0
    /\ owed = [e \in Event |-> 0]

-----------------------------------------------------------------------------
(* The scheduler, as functions of the control block c and the events v.     *)

More(v, e, f) == v[e].priority < v[f].priority

Eligible(c, v) ==
    /\ c.preemptive # <<>>
    /\ v[Head(c.preemptive)].priority < c.ceiling
    /\ c.self = None \/ More(v, Head(c.preemptive), c.self)

\* Mutant: an equally urgent event preempts the running one.
EventScheduleNotStrict(c, v) ==
    IF /\ c.preemptive # <<>>
       /\ v[Head(c.preemptive)].priority < c.ceiling
       /\ c.self = None \/ ~More(v, c.self, Head(c.preemptive))
    THEN [c EXCEPT !.next = Head(c.preemptive), !.notify = TRUE]
    ELSE [c EXCEPT !.next = None]

EventSchedule(c, v) ==
    IF Eligible(c, v)
    THEN [c EXCEPT !.next = Head(c.preemptive), !.notify = TRUE]
    ELSE [c EXCEPT !.next = None]

\* Mutant: before the first event that is not more urgent.
PlaceBeforeEquals(list, v, e) ==
    LET after == {i \in 1..Len(list) : ~More(v, list[i], e)}
    IN  IF after = {} THEN Len(list) + 1 ELSE CHOOSE i \in after : \A j \in after : i <= j

\* The place in the preemptive list: before the first less urgent event.
Place(list, v, e) ==
    LET after == {i \in 1..Len(list) : More(v, e, list[i])}
    IN  IF after = {} THEN Len(list) + 1 ELSE CHOOSE i \in after : \A j \in after : i <= j

\* armv6m_event_insert schedules only when the event becomes the first one.
EventInsert(c, v, e) ==
    IF v[e].priority = Cooperative
    THEN [c EXCEPT !.cooperative = Append(@, e)]
    ELSE LET d == [c EXCEPT !.preemptive = InsertAt(@, Place(@, v, e), e)]
         IN  IF Head(d.preemptive) = e THEN EventSchedule(d, v) ELSE d

\* Mutant: a removed event that was chosen to run stays chosen.
EventRemoveKeepsNext(c, v, e) ==
    [c EXCEPT !.cooperative = RemoveFirst(@, e), !.preemptive = RemoveFirst(@, e)]

EventRemove(c, v, e) ==
    LET d == IF v[e].priority = Cooperative
             THEN [c EXCEPT !.cooperative = RemoveFirst(@, e)]
             ELSE [c EXCEPT !.preemptive = RemoveFirst(@, e)]
    IN  IF c.next = e THEN EventSchedule(d, v) ELSE d

Queued(c, e) == e \in ToSet(c.preemptive) \union ToSet(c.cooperative)

-----------------------------------------------------------------------------
(* The svc_ routines: what a call does to [control, event].                 *)

Change(s, e, w) == [s.event EXCEPT ![e] = w]

SvcEnqueue(s, e) ==
    LET v == Change(s, e, [s.event[e] EXCEPT !.count = @ + 1])
    IN  [event |-> v,
         control |-> IF s.event[e].count = 0 /\ ~s.event[e].lock
                     THEN EventInsert(s.control, v, e) ELSE s.control]

SvcLock(s, e) ==
    [event |-> Change(s, e, [s.event[e] EXCEPT !.lock = TRUE]),
     control |-> IF Queued(s.control, e) THEN EventRemove(s.control, s.event, e) ELSE s.control]

SvcUnlock(s, e) ==
    LET v == Change(s, e, [s.event[e] EXCEPT !.lock = FALSE])
    IN  [event |-> v,
         control |-> IF v[e].count # 0 /\ ~Queued(s.control, e)
                     THEN EventInsert(s.control, v, e) ELSE s.control]

\* Mutant: the priority of a queued event changes in place.
SvcSetPriorityInPlace(s, e, p) ==
    [event |-> Change(s, e, [s.event[e] EXCEPT !.priority = p]), control |-> s.control]

SvcSetPriority(s, e, p) ==
    LET v == Change(s, e, [s.event[e] EXCEPT !.priority = p])
    IN  IF s.event[e].priority = p THEN s
        ELSE [event |-> v,
              control |-> IF Queued(s.control, e)
                          THEN EventInsert(EventRemove(s.control, s.event, e), v, e) ELSE s.control]

SvcDestroy(s, e) ==
    [event |-> Change(s, e, [priority |-> 0, lock |-> FALSE, count |-> 0]),
     control |-> IF Queued(s.control, e) THEN EventRemove(s.control, s.event, e) ELSE s.control]

Op == [kind : {"enqueue", "lock", "unlock"}, e : program.events, p : {0}]
      \union [kind : {"priority"}, e : program.retuned, p : Priorities]
      \union [kind : {"destroy"}, e : program.retuned, p : {0}]

Apply(op, s) ==
    CASE op.kind = "enqueue"  -> SvcEnqueue(s, op.e)
      [] op.kind = "lock"     -> SvcLock(s, op.e)
      [] op.kind = "unlock"   -> SvcUnlock(s, op.e)
      [] op.kind = "priority" -> SvcSetPriority(s, op.e, op.p)
      [] op.kind = "destroy"  -> SvcDestroy(s, op.e)

Perform(op) ==
    LET s == Apply(op, [control |-> control, event |-> event])
    IN  /\ control' = s.control
        /\ event' = s.event
        /\ owed' = CASE op.kind = "enqueue" -> [owed EXCEPT ![op.e] = @ + 1]
                     [] op.kind = "destroy" -> [owed EXCEPT ![op.e] = 0]
                     [] OTHER -> owed

-----------------------------------------------------------------------------
(* The callers.  PendSV preempts the thread: while calls are deferred or    *)
(* the callback is set, no thread code runs.                                *)

ThreadRuns == stage = "thread" /\ deferred = <<>> /\ ~control.notify

\* One call of the program, which uses no event it asked to destroy.
Call(op) ==
    /\ ops < program.ops /\ op.e \in alive
    /\ ops' = ops + 1
    /\ alive' = IF op.kind = "destroy" THEN alive \ {op.e} ELSE alive

Svc(op) ==
    /\ ThreadRuns
    /\ Call(op)
    /\ Perform(op)
    /\ UNCHANGED <<program, deferred, stage, saved>>

\* An interrupt handler, at any moment; the result of pendsv_enqueue is ignored.
\* Handlers destroy an event only while the queue has room: a destroy that a full
\* queue dropped would leave the caller with a structure that is still queued.
Isr(op) ==
    /\ op.kind = "destroy" => Len(deferred) < Depth
    /\ Call(op)
    /\ deferred' = IF Len(deferred) < Depth THEN Append(deferred, op) ELSE deferred
    /\ UNCHANGED <<program, control, event, stage, saved, owed>>

\* armv6m_event_create, on a structure whose destruction was carried out.
Create(e) ==
    /\ ThreadRuns /\ e \notin alive
    /\ alive' = alive \union {e}
    /\ event' = [event EXCEPT ![e] = [priority |-> InitPriority[e], lock |-> FALSE, count |-> 0]]
    /\ UNCHANGED <<program, control, deferred, stage, saved, ops, owed>>

RunDeferred ==
    /\ stage = "thread" /\ deferred # <<>>
    /\ Perform(Head(deferred))
    /\ deferred' = Tail(deferred)
    /\ UNCHANGED <<program, alive, stage, saved, ops>>

\* PendSV_Handler found the queue empty and clears notify_callback.
EnterCallback ==
    /\ stage = "thread" /\ deferred = <<>> /\ control.notify
    /\ stage' = "callback"
    /\ control' = [control EXCEPT !.notify = FALSE]
    /\ UNCHANGED <<program, alive, event, deferred, saved, ops, owed>>

\* Mutant: the event is executed and its count is not decremented.
EventSwitchKeepsCount(c, v) ==
    LET e == c.next
    IN  [event |-> v,
         control |-> EventInsert(EventRemove([c EXCEPT !.self = e, !.next = None], v, e), v, e)]

\* armv6m_event_switch, on the frame armv6m_event_notify pushed.
EventSwitch(c, v) ==
    LET e == c.next
        w == [v EXCEPT ![e].count = @ - 1]
        d == EventRemove([c EXCEPT !.self = e, !.next = None], v, e)
    IN  [event |-> w, control |-> IF w[e].count # 0 THEN EventInsert(d, w, e) ELSE d]

Callback ==
    /\ stage = "callback"
    /\ stage' = "thread"
    /\ IF control.next = None
       THEN UNCHANGED <<control, event, owed>>
       ELSE LET c == [control EXCEPT !.stack = Append(@, control.self)]
                s == EventSwitch(c, event)
            IN  /\ control' = s.control
                /\ event' = s.event
                /\ owed' = [owed EXCEPT ![control.next] = @ - 1]
    /\ UNCHANGED <<program, alive, deferred, saved, ops>>

\* Mutant: the interrupted event is resumed without looking for another one.
ReturnUnscheduled ==
    /\ ThreadRuns /\ control.self # None
    /\ ~\E i \in 1..Len(saved) : saved[i].depth = Len(control.stack)
    /\ control' = [control EXCEPT !.self = Last(control.stack), !.stack = Front(@)]
    /\ UNCHANGED <<program, alive, event, deferred, stage, saved, ops, owed>>

\* The routine of self ends: armv6m_event_return, armv6m_event_svcall.
Return ==
    /\ ThreadRuns /\ control.self # None
    /\ ~\E i \in 1..Len(saved) : saved[i].depth = Len(control.stack)
    /\ control' = EventSchedule([control EXCEPT !.self = Last(control.stack), !.stack = Front(@)],
                           event)
    /\ UNCHANGED <<program, alive, event, deferred, stage, saved, ops, owed>>

\* armv6m_event_dequeue: the count, then the list, then the routine runs.
Dequeue ==
    /\ ThreadRuns /\ control.cooperative # <<>>
    /\ LET e == Head(control.cooperative)
           v == [event EXCEPT ![e].count = @ - 1]
       IN  /\ event' = v
           /\ control' = IF v[e].count = 0 THEN EventRemove(control, v, e) ELSE control
           /\ owed' = [owed EXCEPT ![e] = @ - 1]
    /\ UNCHANGED <<program, alive, deferred, stage, saved, ops>>

Acquire(p) ==
    /\ ThreadRuns /\ ops < program.ops
    /\ ops' = ops + 1
    /\ saved' = Append(saved, [ceiling |-> control.ceiling, depth |-> Len(control.stack)])
    /\ control' = IF p < control.ceiling THEN [control EXCEPT !.ceiling = p] ELSE control
    /\ UNCHANGED <<program, alive, event, deferred, stage, owed>>

\* A routine releases what it acquired itself, last first.
Release ==
    /\ ThreadRuns /\ saved # <<>>
    /\ Last(saved).depth = Len(control.stack)
    /\ control' = [control EXCEPT !.ceiling = Last(saved).ceiling]
    /\ saved' = Front(saved)
    /\ UNCHANGED <<program, alive, event, deferred, stage, ops, owed>>

-----------------------------------------------------------------------------
PendSV == RunDeferred \/ EnterCallback \/ Callback

Next ==
    \/ \E op \in Op : Svc(op) \/ Isr(op)
    \/ \E e \in program.events : Create(e)
    \/ PendSV \/ Return \/ Dequeue \/ Release
    \/ \E p \in program.ceilings : Acquire(p)

Spec == Init /\ [][Next]_vars

\* PendSV runs when pended; event routines end, and release what they acquired.
LiveSpec == Spec /\ WF_vars(PendSV) /\ WF_vars(Return) /\ WF_vars(Release)

-----------------------------------------------------------------------------
(* Properties. *)

\* Each event with work to do and no lock is in exactly one list, once, and no
\* other event is in a list.
QueuedOnce == \A e \in Event :
    LET Times(list) == Cardinality({i \in 1..Len(list) : list[i] = e})
        due == event[e].count # 0 /\ ~event[e].lock
        polled == event[e].priority = Cooperative
    IN  /\ Times(control.preemptive) = IF due /\ ~polled THEN 1 ELSE 0
        /\ Times(control.cooperative) = IF due /\ polled THEN 1 ELSE 0

\* The preemptive list is ordered by urgency.
ListSorted == \A i, j \in 1..Len(control.preemptive) :
    i < j => ~More(event, control.preemptive[j], control.preemptive[i])

\* Every accepted enqueue is executed exactly once: what is counted is owed.
CountIsOwed == \A e \in Event : event[e].count = owed[e]

\* The lists hold what is due, once and in order, and no enqueue is lost or executed
\* twice, whatever enqueues, locks, changes of priority and destructions the
\* preemptions mixed.
ListsSound == QueuedOnce /\ ListSorted /\ CountIsOwed

\* The event the callback will switch to is still queued, first in the list,
\* unlocked and under the ceiling, whatever was deferred after it was chosen.
NextIsReady == control.next # None =>
    /\ control.preemptive # <<>> /\ control.next = Head(control.preemptive)
    /\ ~event[control.next].lock
    /\ event[control.next].priority < control.ceiling
    /\ control.notify \/ stage = "callback"

\* The program sets no ceiling and leaves priorities as they were created.
Plain == program.retuned = {} /\ program.ceilings = {}

\* Events nest by strictly increasing urgency, so no routine is ever re-entered,
\* as long as priorities stay what they were at armv6m_event_create.
NestedByUrgency ==
    LET running == Append(control.stack, control.self)
    IN  \A i, j \in 1..Len(running) :
           /\ i < j => running[j] # None
           /\ i < j /\ running[i] # None => More(event, running[j], running[i])

\* While thread code runs, no event that may preempt it waits.  This is so as long
\* as no ceiling is released: armv6m_event_release does not schedule.
NothingReadyWaits == ThreadRuns => ~Eligible(control, event)

\* The most urgent event runs, on top of less urgent ones only; the __BKPT of
\* armv6m_event_switch, for a switch to the event that runs, is never reached.
MostUrgentRuns == Plain => NestedByUrgency /\ NothingReadyWaits

\* A step that keeps the order of the events equally urgent.
KeepsOrder ==
    \A e, f \in program.events \ program.retuned :
       LET Before(l, a, b) == \E i, j \in 1..Len(l) : i < j /\ l[i] = a /\ l[j] = b
           list == control.preemptive
       IN  /\ e # f /\ event[e].priority = event[f].priority
           /\ e \in ToSet(list) /\ ~Before(list, f, e)
           /\ {e, f} \subseteq ToSet(control'.preemptive)
           => Before(control'.preemptive, e, f) \/ (stage = "callback" /\ control.next = e)

\* Events equally urgent start in the order in which they were queued: whoever
\* was queued first stays first, until it is executed.
FifoAmongEquals == [][KeepsOrder]_vars

\* A preemptive event that is due and stays unlocked is eventually executed, in a
\* program that sets no ceiling: nothing is scheduled when one is released.
DueEventsRun == \A e \in Event :
    LET due == Plain /\ event[e].priority # Cooperative /\ event[e].count > 0 /\ ~event[e].lock
    IN  due ~> ~due
=============================================================================
