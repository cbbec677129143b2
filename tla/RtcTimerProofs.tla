-------------------------- MODULE RtcTimerProofs --------------------------
(***************************************************************************)
(* Theorems about RtcTimer for every set of timers, every depth of the     *)
(* PendSV queue and every choice of delays.                                *)
(*                                                                         *)
(* Five invariants, each inductive given those before it: IInv, who is in  *)
(* the list and what is deferred; TInv, the types; CInv, the alarm and the *)
(* clock; DInv, the delays and the dues, of a program that stops no timer; *)
(* StInv, what becomes of a timer that is stopped.                         *)
(***************************************************************************)
EXTENDS RtcTimer, ListFacts

-----------------------------------------------------------------------------
(* The inductive invariant. *)

About == {"insert_1", "insert_2", "insert", "remove", "release"}

\* What PendSV and SVC run: work on a timer, or the routine of the alarm.
TimerWork == [kind : About, timer : Timer, at : Nat, absolute : BOOLEAN]

Work == TimerWork \union {[Idle EXCEPT !.kind = "routine"]}

Running == ToSet(timer_queue)

TypeInv ==
    /\ Lists(timer_queue, Running) /\ Running \subseteq Timer
    /\ armed \subseteq Timer /\ waiting \subseteq Timer
    /\ timer_busy \in BOOLEAN
    /\ alrb \in {"off", "on", "mute"} /\ irq \in BOOLEAN
    /\ deferred \in Seq(Work)
    /\ pc \in {"idle", "run", "arm", "check", "wait", "late"}
    /\ pc # "idle" => task \in Work

\* Work of kind k on timer t is among the deferred calls d.
Asks(d, k, t) == \E i \in 1..Len(d) : d[i].kind = k /\ d[i].timer = t

\* It is deferred, or about to be done.
Pending(k, t) == Asks(deferred, k, t) \/ (pc = "run" /\ task.kind = k /\ task.timer = t)

RoutineRunning == pc = "run" /\ task.kind = "routine"
Routines(d) == {i \in 1..Len(d) : d[i].kind = "routine"}

\* At most one routine of the alarm waits or is about to run.
EventsInv ==
    \/ timer_events = 0 /\ Routines(deferred) = {} /\ ~RoutineRunning
    \/ timer_events = 1 /\ Routines(deferred) = {} /\ RoutineRunning
    \/ timer_events = 1 /\ ~RoutineRunning /\ \E i \in 1..Len(deferred) : Routines(deferred) = {i}

\* Meanwhile the alarm is off, and cannot ask for another one.
AlarmInv == timer_events # 0 => alrb = "off" /\ ~irq

\* A timer in the list whose callback is disarmed is about to be removed.
ArmedInv == \A t \in Running \ armed : Pending("remove", t)

\* A timer that waits outside the list is about to be inserted.
WaitingInv == /\ waiting \intersect Running = {}
              /\ \A t \in waiting : Pending("insert_2", t)

IInv == TypeInv /\ EventsInv /\ AlarmInv /\ ArmedInv /\ WaitingInv

-----------------------------------------------------------------------------
(* The operations on the list: who is in it. *)

\* A timer's place is in the list or past its end, whatever its delays are.
LEMMA LaterFacts ==
  ASSUME NEW q, NEW M, Lists(q, M), NEW d, NEW after
  PROVE  Later(q, d, after) \in 1..Len(q) + 1
<1> DEFINE later == {i \in 1..Len(q) : Cum(q, d, i) > after}
<1>0. Len(q) \in Nat
  BY ListsHead
<1>1. CASE later = {}
  BY <1>0, <1>1 DEF Later
<1>2. CASE later # {}
  <2>1. \E i \in later : \A j \in later : i <= j
    <3>1. later \in SUBSET Nat
      BY <1>0
    <3> HIDE DEF later
    <3> QED
      BY <1>2, <3>1, LeastNat
  <2>2. Later(q, d, after) \in later
    <3>1. Later(q, d, after) = CHOOSE i \in later : \A j \in later : i <= j
      BY <1>2 DEF Later
    <3> HIDE DEF later
    <3> QED
      BY <2>1, <3>1
  <2> QED
    BY <1>0, <2>2
<1> QED
  BY <1>1, <1>2

\* A timer that is unlinked leaves the list, and no other does.
LEMMA UnlinkFacts ==
  ASSUME NEW q, NEW M, Lists(q, M), NEW t \in M, NEW d
  PROVE  /\ Lists(Unlink(q, d, t).queue, M \ {t})
         /\ UnlinkRemoved(q, d, t).queue = Unlink(q, d, t).queue
<1> DEFINE removed == RemoveAt(q, SelectInSeq(q, LAMBDA u : u = t))
<1>1. Unlink(q, d, t).queue = removed
  BY DEF Unlink
<1>2. UnlinkRemoved(q, d, t).queue = removed
  BY DEF UnlinkRemoved
<1>3. \E i \in 1..Len(q) : q[i] = t
  BY DEF Lists
<1>4. RemoveFirst(q, t) = removed
  <2> DEFINE I == {i \in 1..Len(q) : q[i] = t}
  <2>1. SelectInSeq(q, LAMBDA u : u = t) = Min(I)
    BY <1>3 DEF SelectInSeq
  <2>2. RemoveFirst(q, t) = RemoveAt(q, Min(I))
    BY <1>3 DEF RemoveFirst, SelectInSeq
  <2> QED
    BY <2>1, <2>2
<1>5. Lists(RemoveFirst(q, t), M \ {t})
  BY RemoveLists
<1> HIDE DEF removed
<1> QED
  BY <1>1, <1>2, <1>4, <1>5

\* A timer that is linked enters the list.
LEMMA LinkFacts ==
  ASSUME NEW q, NEW M, Lists(q, M), NEW t, t \notin M, NEW d, NEW after
  PROVE  Lists(Link(q, d, t, after).queue, M \cup {t})
<1> DEFINE p == Later(q, d, after)
<1>1. p \in 1..Len(q) + 1
  BY LaterFacts
<1>2. Link(q, d, t, after).queue = InsertAt(q, p, t)
  BY DEF Link
<1> HIDE DEF p
<1>3. Lists(InsertAt(q, p, t), M \cup {t})
  BY <1>1, InsertLists, Zenon
<1> QED
  BY <1>2, <1>3

\* Timers that expire leave the list.
LEMMA ExpireFacts ==
  ASSUME NEW q, NEW M, Lists(q, M), NEW d, NEW elapsed
  PROVE  LET new == Expire(q, d, elapsed).queue
         IN  ToSet(new) \subseteq M /\ Lists(new, ToSet(new))
<1> DEFINE p == Later(q, d, elapsed)
           new == Expire(q, d, elapsed).queue
<1>1. p \in 1..Len(q) + 1
  BY LaterFacts
<1>2. new = SubSeq(q, p, Len(q))
  BY DEF Expire
<1> HIDE DEF p, new
<1>3. ToSet(new) \subseteq M /\ Lists(new, ToSet(new))
  BY <1>1, <1>2, SuffixLists
<1> QED
  BY <1>3 DEF new

-----------------------------------------------------------------------------
(* The deferred calls. *)

\* What is appended is asked for, and nothing else is lost or added.
LEMMA AppendFacts ==
  ASSUME NEW d \in Seq(Work), NEW w \in Work
  PROVE  /\ Append(d, w) \in Seq(Work)
         /\ \A k, t : Asks(d, k, t) => Asks(Append(d, w), k, t)
         /\ Asks(Append(d, w), w.kind, w.timer)
         /\ Routines(Append(d, w)) =
               IF w.kind = "routine" THEN Routines(d) \union {Len(d) + 1} ELSE Routines(d)
         /\ Len(Append(d, w)) = Len(d) + 1 /\ Len(d) \in Nat
<1> DEFINE n == Len(d)
           new == Append(d, w)
<1>1. /\ n \in Nat /\ new \in Seq(Work) /\ Len(new) = n + 1
      /\ new[n + 1] = w /\ \A i \in 1..n : new[i] = d[i]
  BY AppendProperties, LenProperties
<1> HIDE DEF new
<1>2. \A i \in 1..n + 1 : i \in 1..n \/ i = n + 1
  BY <1>1
<1>3. \A i \in 1..n : i \in 1..n + 1
  BY <1>1
<1>4. \A k, t : Asks(d, k, t) => Asks(new, k, t)
  BY <1>1, <1>3 DEF Asks
<1>5. n + 1 \in 1..n + 1
  BY <1>1
<1>6. Asks(new, w.kind, w.timer)
  BY <1>1, <1>5 DEF Asks
<1>7. Routines(new) = IF w.kind = "routine" THEN Routines(d) \union {n + 1} ELSE Routines(d)
  BY <1>1, <1>2, <1>3, <1>5 DEF Routines
<1> QED
  BY <1>1, <1>4, <1>6, <1>7 DEF new

\* What PendSV takes is the head, the others stay asked for.
LEMMA TailFacts ==
  ASSUME NEW d \in Seq(Work), d # <<>>
  PROVE  /\ Head(d) \in Work /\ Tail(d) \in Seq(Work)
         /\ \A k, t : Asks(d, k, t) =>
               Asks(Tail(d), k, t) \/ (Head(d).kind = k /\ Head(d).timer = t)
         /\ \A i \in 1..Len(d) : Routines(d) = {i} =>
               IF Head(d).kind = "routine" THEN Routines(Tail(d)) = {}
               ELSE \E j \in 1..Len(Tail(d)) : Routines(Tail(d)) = {j}
         /\ Routines(d) = {} => Routines(Tail(d)) = {} /\ Head(d).kind # "routine"
<1> DEFINE n == Len(d)
           new == Tail(d)
<1>1. /\ n \in Nat \ {0} /\ Head(d) \in Work /\ Head(d) = d[1]
      /\ new \in Seq(Work) /\ Len(new) = n - 1
      /\ \A i \in 1..n - 1 : new[i] = d[i + 1]
  BY HeadTailProperties, LenProperties, EmptySeq
<1> HIDE DEF new, n
<1>2. /\ \A i \in 1..n : i = 1 \/ (i - 1 \in 1..n - 1 /\ new[i - 1] = d[i])
      /\ \A i \in 1..n - 1 : i + 1 \in 1..n /\ i + 1 # 1
      /\ 1 \in 1..n
  BY <1>1
<1>3. \A k, t : Asks(d, k, t) => Asks(new, k, t) \/ (d[1].kind = k /\ d[1].timer = t)
  BY <1>1, <1>2 DEF Asks, n
<1>4. ASSUME NEW i \in 1..n, Routines(d) = {i}
      PROVE  IF d[1].kind = "routine" THEN Routines(new) = {}
             ELSE \E j \in 1..Len(new) : Routines(new) = {j}
  <2>1. CASE d[1].kind = "routine"
    <3>1. i = 1
      BY <1>2, <1>4, <2>1 DEF Routines, n
    <3>2. \A j \in 1..n - 1 : new[j].kind # "routine"
      <4> SUFFICES ASSUME NEW j \in 1..n - 1, new[j].kind = "routine" PROVE FALSE
        OBVIOUS
      <4>1. j + 1 \in Routines(d)
        BY <1>1, <1>2 DEF Routines, n
      <4> QED
        BY <1>2, <1>4, <3>1, <4>1
    <3> QED
      BY <1>1, <2>1, <3>2 DEF Routines
  <2>2. CASE d[1].kind # "routine"
    <3>1. i # 1 /\ d[i].kind = "routine"
      BY <1>4, <2>2 DEF Routines, n
    <3>2. i - 1 \in 1..n - 1 /\ new[i - 1].kind = "routine"
      BY <1>2, <3>1
    <3>3. \A j \in 1..n - 1 : new[j].kind = "routine" => j = i - 1
      <4> SUFFICES ASSUME NEW j \in 1..n - 1, new[j].kind = "routine" PROVE j = i - 1
        OBVIOUS
      <4>1. j + 1 \in Routines(d)
        BY <1>1, <1>2 DEF Routines, n
      <4> QED
        BY <1>1, <1>4, <4>1
    <3>4. Routines(new) = {i - 1}
      BY <1>1, <3>2, <3>3 DEF Routines
    <3> QED
      BY <1>1, <2>2, <3>2, <3>4
  <2> QED
    BY <2>1, <2>2
<1>5. Routines(d) = {} => Routines(new) = {} /\ d[1].kind # "routine"
  <2> SUFFICES ASSUME Routines(d) = {} PROVE Routines(new) = {} /\ d[1].kind # "routine"
    OBVIOUS
  <2>1. \A i \in 1..n : d[i].kind # "routine"
    BY DEF Routines, n
  <2>2. \A i \in 1..n - 1 : new[i].kind # "routine"
    BY <1>1, <1>2, <2>1
  <2> QED
    BY <1>1, <1>2, <2>1, <2>2 DEF Routines
<1>6. \A i \in 1..Len(d) : Routines(d) = {i} =>
         IF Head(d).kind = "routine" THEN Routines(new) = {}
         ELSE \E j \in 1..Len(new) : Routines(new) = {j}
  BY <1>1, <1>4 DEF n
<1>7. \A k, t : Asks(d, k, t) => Asks(new, k, t) \/ (Head(d).kind = k /\ Head(d).timer = t)
  BY <1>1, <1>3
<1>8. Routines(d) = {} => Routines(new) = {} /\ Head(d).kind # "routine"
  BY <1>1, <1>5
<1>9. Head(d) \in Work /\ new \in Seq(Work)
  BY <1>1
<1> QED
  BY <1>6, <1>7, <1>8, <1>9, Zenon DEF new

-----------------------------------------------------------------------------
(* The steps. *)

\* Steps that neither change the list nor begin or end a routine that does.
LEMMA QuietInv ==
  ASSUME IInv, UNCHANGED <<timer_queue, armed, waiting, deferred, timer_events>>,
         (pc # "run" /\ pc' # "run") \/ UNCHANGED <<pc, task>>,
         TypeInv', AlarmInv'
  PROVE  IInv'
<1>1. \A k, t : Pending(k, t) => Pending(k, t)'
  BY DEF Pending
<1>2. RoutineRunning' = RoutineRunning
  BY DEF RoutineRunning
<1>3. EventsInv'
  BY <1>2 DEF IInv, EventsInv
<1>4. Running' = Running
  BY DEF Running
<1>5. ArmedInv' /\ WaitingInv'
  BY <1>1, <1>4 DEF IInv, ArmedInv, WaitingInv
<1> QED
  BY <1>3, <1>5 DEF IInv

\* The alarm's routine is enqueued by the alarm only when none waits or runs.
LEMMA EnqueueRoutineInv ==
  ASSUME IInv, EnqueueRoutine, timer_events = 0,
         alrb' = "off", irq' = FALSE,
         UNCHANGED <<timer_queue, armed, waiting, timer_busy>>,
         (pc # "run" /\ pc' = "idle") \/ UNCHANGED <<pc, task>>
  PROVE  IInv'
<1>1. CASE Room(1)
  <2> DEFINE w == [Idle EXCEPT !.kind = "routine"]
  <2>1. /\ deferred \in Seq(Work) /\ w \in Work /\ w.kind = "routine"
        /\ deferred' = Append(deferred, w) /\ timer_events' = 1
    BY <1>1 DEF EnqueueRoutine, IInv, TypeInv, Work, Idle
  <2> HIDE DEF w
  <2> DEFINE new == Append(deferred, w)
             n == Len(deferred)
  <2>2. /\ new \in Seq(Work) /\ Len(new) = n + 1 /\ n \in Nat
        /\ Routines(new) = Routines(deferred) \union {n + 1}
    BY <2>1, AppendFacts
  <2>3. \A k, t : Asks(deferred, k, t) => Asks(new, k, t)
    BY <2>1, AppendFacts
  <2>4. deferred' = new
    BY <2>1
  <2> HIDE DEF new, n
  <2>5. \A k, t : Pending(k, t) => Pending(k, t)'
    BY <2>3, <2>4 DEF Pending
  <2>6. Routines(deferred) = {} /\ ~RoutineRunning
    BY DEF IInv, EventsInv
  <2>7. ~RoutineRunning'
    BY <2>6 DEF RoutineRunning
  <2>8. Routines(deferred') = {n + 1} /\ n + 1 \in 1..Len(deferred')
    BY <2>2, <2>4, <2>6
  <2>9. EventsInv'
    BY <2>1, <2>7, <2>8 DEF EventsInv
  <2>10. TypeInv'
    BY <2>2, <2>4 DEF IInv, TypeInv, Running
  <2>11. ArmedInv' /\ WaitingInv' /\ AlarmInv'
    BY <2>5 DEF IInv, ArmedInv, WaitingInv, AlarmInv, Running
  <2> QED
    BY <2>9, <2>10, <2>11 DEF IInv
<1>2. CASE ~Room(1)
  <2>1. UNCHANGED <<deferred, timer_events>>
    BY <1>2 DEF EnqueueRoutine
  <2>2. TypeInv'
    BY <2>1 DEF IInv, TypeInv, Running
  <2>3. AlarmInv'
    BY <2>1 DEF AlarmInv
  <2> QED
    BY <2>1, <2>2, <2>3, QuietInv
<1> QED
  BY <1>1, <1>2

\* The critical section turns the alarm on only while no routine waits or runs.
LEMMA ArmInv ==
  ASSUME IInv, Arm
  PROVE  IInv'
<1>1. /\ pc = "arm" /\ UNCHANGED <<timer_queue, armed, waiting, deferred, timer_events>>
  BY DEF Arm, list
<1>2. /\ timer_busy' \in BOOLEAN /\ alrb' \in {"off", "on", "mute"} /\ irq' \in BOOLEAN
      /\ timer_events # 0 => UNCHANGED <<alrb, irq>>
  BY DEF Arm, IInv, TypeInv
<1>3. (pc' = "check" /\ UNCHANGED task) \/ pc' = "idle"
  BY DEF Arm, Done
<1>4. TypeInv' /\ AlarmInv'
  BY <1>1, <1>2, <1>3 DEF IInv, TypeInv, AlarmInv, Running
<1> QED
  BY <1>1, <1>3, <1>4, QuietInv

\* Looking at the clock changes nothing.
LEMMA CheckInv ==
  ASSUME IInv, Check \/ Wait
  PROVE  IInv'
<1>1. /\ pc \in {"check", "wait"}
      /\ UNCHANGED <<timer_queue, armed, waiting, deferred, timer_events, timer_busy, alrb, irq>>
  BY DEF Check, Wait, list, alarm
<1>2. (pc' \in {"wait", "late"} /\ UNCHANGED task) \/ pc' = "idle"
  BY DEF Check, Wait, Done
<1>3. TypeInv' /\ AlarmInv'
  BY <1>1, <1>2 DEF IInv, TypeInv, AlarmInv, Running
<1> QED
  BY <1>1, <1>2, <1>3, QuietInv

\* The alarm was missed: the routine is enqueued unless the interrupt did so.
LEMMA LateInv ==
  ASSUME IInv, Late
  PROVE  IInv'
<1>1. /\ pc = "late" /\ pc' = "idle" /\ alrb' = "off" /\ irq' = FALSE
      /\ UNCHANGED <<timer_queue, armed, waiting, timer_busy>>
      /\ IF timer_events = 0 THEN EnqueueRoutine ELSE UNCHANGED <<deferred, timer_events, dropped>>
  BY DEF Late, Done, list
<1>2. CASE timer_events = 0
  BY <1>1, <1>2, EnqueueRoutineInv
<1>3. CASE timer_events # 0
  <2>1. UNCHANGED <<deferred, timer_events>>
    BY <1>1, <1>3
  <2>2. TypeInv' /\ AlarmInv'
    BY <1>1, <2>1 DEF IInv, TypeInv, AlarmInv, Running
  <2> QED
    BY <1>1, <2>1, <2>2, QuietInv
<1> QED
  BY <1>2, <1>3

\* The alarm's interrupt: it is pending only while no routine waits or runs.
LEMMA RtcIrqInv ==
  ASSUME IInv, RtcIrq
  PROVE  IInv'
<1>1. /\ irq /\ alrb' = "off" /\ irq' = FALSE
      /\ UNCHANGED <<timer_queue, armed, waiting, timer_busy, pc, task>>
      /\ IF timer_busy THEN EnqueueRoutine ELSE UNCHANGED <<deferred, timer_events, dropped>>
  BY DEF RtcIrq, list
<1>2. CASE timer_busy
  <2>1. timer_events = 0
    BY <1>1 DEF IInv, AlarmInv
  <2> QED
    BY <1>1, <1>2, <2>1, EnqueueRoutineInv
<1>3. CASE ~timer_busy
  <2>1. UNCHANGED <<deferred, timer_events>>
    BY <1>1, <1>3
  <2>2. TypeInv' /\ AlarmInv'
    BY <1>1, <2>1 DEF IInv, TypeInv, AlarmInv, Running
  <2> QED
    BY <1>1, <2>1, <2>2, QuietInv
<1> QED
  BY <1>2, <1>3

\* Time passes; only an alarm that is on asks for its interrupt.
LEMMA TickInv ==
  ASSUME IInv, Tick
  PROVE  IInv'
<1>1. /\ UNCHANGED <<timer_queue, armed, waiting, deferred, timer_events, timer_busy, alrb,
                     pc, task>>
      /\ irq' \in BOOLEAN /\ (irq' => alrb = "on")
  BY DEF Tick, list, alarm
<1>2. TypeInv'
  BY <1>1 DEF IInv, TypeInv, Running
<1>3. AlarmInv'
  BY <1>1 DEF IInv, AlarmInv
<1> QED
  BY <1>1, <1>2, <1>3, QuietInv

\* PendSV takes the oldest call: what was pending still is.
LEMMA TakeInv ==
  ASSUME IInv, Take
  PROVE  IInv'
<1> DEFINE w == Head(deferred)
           rest == Tail(deferred)
<1>1. /\ pc = "idle" /\ deferred # <<>> /\ task' = w /\ deferred' = rest /\ pc' = "run"
      /\ UNCHANGED <<timer_queue, armed, waiting, timer_events, timer_busy, alrb, irq>>
  BY DEF Take, list, alarm
<1>2. deferred \in Seq(Work)
  BY DEF IInv, TypeInv
<1>3. /\ w \in Work /\ rest \in Seq(Work)
      /\ \A k, t : Asks(deferred, k, t) => Asks(rest, k, t) \/ (w.kind = k /\ w.timer = t)
  BY <1>1, <1>2, TailFacts
<1>4. \A i \in 1..Len(deferred) : Routines(deferred) = {i} =>
         IF w.kind = "routine" THEN Routines(rest) = {}
         ELSE \E j \in 1..Len(rest) : Routines(rest) = {j}
  BY <1>1, <1>2, TailFacts
<1>5. Routines(deferred) = {} => Routines(rest) = {} /\ w.kind # "routine"
  BY <1>1, <1>2, TailFacts
<1> HIDE DEF w, rest
<1>6. \A k, t : Pending(k, t) => Pending(k, t)'
  BY <1>1, <1>3 DEF Pending
<1>7. ~RoutineRunning /\ (RoutineRunning' <=> w.kind = "routine")
  BY <1>1 DEF RoutineRunning
<1>8. EventsInv'
  <2>1. CASE timer_events = 0 /\ Routines(deferred) = {}
    BY <1>1, <1>5, <1>7, <2>1 DEF EventsInv
  <2>2. CASE timer_events = 1 /\ \E i \in 1..Len(deferred) : Routines(deferred) = {i}
    <3>1. CASE w.kind = "routine"
      <4>1. Routines(rest) = {}
        BY <1>4, <2>2, <3>1
      <4> QED
        BY <1>1, <1>7, <2>2, <3>1, <4>1 DEF EventsInv
    <3>2. CASE w.kind # "routine"
      <4>1. \E j \in 1..Len(rest) : Routines(rest) = {j}
        BY <1>4, <2>2, <3>2
      <4> QED
        BY <1>1, <1>7, <2>2, <3>2, <4>1 DEF EventsInv
    <3> QED
      BY <3>1, <3>2
  <2> QED
    BY <1>7, <2>1, <2>2 DEF IInv, EventsInv
<1>9. TypeInv'
  BY <1>1, <1>3 DEF IInv, TypeInv, Running
<1>10. ArmedInv' /\ WaitingInv' /\ AlarmInv'
  BY <1>1, <1>6 DEF IInv, ArmedInv, WaitingInv, AlarmInv, Running
<1> QED
  BY <1>8, <1>9, <1>10 DEF IInv

\* While thread code runs nothing is pending.
LEMMA NothingPending ==
  ASSUME IInv, ThreadRuns
  PROVE  \A k, t : ~Pending(k, t)
  BY DEF ThreadRuns, Pending, Asks

\* A call of thread code runs at once.
LEMMA SvcInv ==
  ASSUME IInv, ThreadRuns, pc' = "run", task' \in Work, task'.kind # "routine",
         UNCHANGED <<list, waiting, alarm, timer_events, irq, deferred>>
  PROVE  IInv'
<1>1. UNCHANGED <<timer_queue, armed, waiting, timer_events, timer_busy, alrb, irq, deferred>>
  BY DEF list, alarm
<1>2. ~RoutineRunning /\ ~RoutineRunning'
  BY DEF RoutineRunning, ThreadRuns
<1>3. EventsInv'
  BY <1>1, <1>2 DEF IInv, EventsInv
<1>4. Running \subseteq armed /\ waiting = {}
  BY NothingPending DEF IInv, ArmedInv, WaitingInv
<1>5. ArmedInv' /\ WaitingInv' /\ AlarmInv'
  BY <1>1, <1>4 DEF IInv, ArmedInv, WaitingInv, AlarmInv, Running
<1>6. TypeInv'
  BY <1>1 DEF IInv, TypeInv, Running
<1> QED
  BY <1>3, <1>5, <1>6 DEF IInv

\* A start by thread code.
LEMMA SvcStartInv ==
  ASSUME IInv, NEW t \in Timer, NEW r \in Request, SvcStart(t, r)
  PROVE  IInv'
<1>1. r.at \in Nat /\ r.absolute \in BOOLEAN
  BY RtcTimerAssumption DEF Request
<1>2. task' \in Work /\ task'.kind # "routine"
  BY <1>1 DEF SvcStart, Work, TimerWork, About
<1> QED
  BY <1>2, SvcInv DEF SvcStart

\* A stop or a destroy by thread code.
LEMMA SvcStopInv ==
  ASSUME IInv, NEW t \in Timer, SvcStop(t) \/ SvcDestroy(t)
  PROVE  IInv'
<1>1. task' \in Work /\ task'.kind # "routine"
  <2>1. \E k \in {"remove", "release"} : task' = [Idle EXCEPT !.kind = k, !.timer = t]
    BY DEF SvcStop, SvcDestroy
  <2>2. PICK k \in About : task' = [Idle EXCEPT !.kind = k, !.timer = t]
    BY <2>1 DEF About
  <2>3. task' \in TimerWork
    BY <2>2 DEF TimerWork, Idle
  <2>4. task'.kind = k
    BY <2>2 DEF Idle
  <2> QED
    BY <2>3, <2>4 DEF Work, About
<1>2. ThreadRuns /\ pc' = "run" /\ UNCHANGED <<list, waiting, alarm, timer_events, irq, deferred>>
  BY DEF SvcStop, SvcDestroy
<1> QED
  BY <1>1, <1>2, SvcInv

\* What a handler defers leaves what was pending pending, and is no routine of
\* the alarm.
LEMMA DeferInv ==
  ASSUME IInv, UNCHANGED <<timer_queue, timer_busy, timer_events, alrb, irq, pc, task>>,
         deferred' \in Seq(Work), Routines(deferred') = Routines(deferred),
         Len(deferred') >= Len(deferred),
         \A k, t : Asks(deferred, k, t) => Asks(deferred', k, t),
         armed' \subseteq armed,
         \A t \in armed \ armed' : Asks(deferred', "remove", t),
         waiting' \subseteq Timer,
         \A t \in waiting' \ waiting : t \notin Running /\ Asks(deferred', "insert_2", t)
  PROVE  IInv'
<1>1. \A k, t : Pending(k, t) => Pending(k, t)'
  BY DEF Pending
<1>2. \A k, t : Asks(deferred', k, t) => Pending(k, t)'
  BY DEF Pending
<1>3. RoutineRunning' = RoutineRunning /\ Running' = Running
  BY DEF RoutineRunning, Running
<1>4. EventsInv'
  <2>1. Len(deferred) \in Nat /\ Len(deferred') \in Nat
    BY LenProperties DEF IInv, TypeInv
  <2>2. \A i \in 1..Len(deferred) : i \in 1..Len(deferred')
    BY <2>1
  <2> QED
    BY <1>3, <2>2 DEF IInv, EventsInv
<1>5. TypeInv'
  BY <1>3 DEF IInv, TypeInv
<1>6. ArmedInv'
  BY <1>1, <1>2, <1>3 DEF IInv, ArmedInv
<1>7. WaitingInv'
  BY <1>1, <1>2, <1>3 DEF IInv, WaitingInv
<1>8. AlarmInv'
  BY DEF IInv, AlarmInv
<1> QED
  BY <1>4, <1>5, <1>6, <1>7, <1>8 DEF IInv

\* A call on a timer is appended to the deferred ones.
LEMMA AppendWork ==
  ASSUME NEW d \in Seq(Work), NEW w \in TimerWork
  PROVE  /\ Append(d, w) \in Seq(Work) /\ Routines(Append(d, w)) = Routines(d)
         /\ Len(Append(d, w)) = Len(d) + 1 /\ Len(d) \in Nat
         /\ \A l, u : Asks(d, l, u) => Asks(Append(d, w), l, u)
         /\ Asks(Append(d, w), w.kind, w.timer)
<1> DEFINE new == Append(d, w)
<1>1. w \in Work /\ w.kind # "routine"
  BY DEF Work, TimerWork, About
<1>2. new \in Seq(Work) /\ Len(new) = Len(d) + 1 /\ Len(d) \in Nat /\ Asks(new, w.kind, w.timer)
  BY <1>1, AppendFacts
<1>3. Routines(new) = Routines(d)
  BY <1>1, AppendFacts
<1>4. \A l, u : Asks(d, l, u) => Asks(new, l, u)
  BY <1>1, AppendFacts
<1> QED
  BY <1>1, <1>2, <1>3, <1>4 DEF new

\* A handler's start: two calls, or less if the queue is full.
LEMMA IsrStartInv ==
  ASSUME IInv, NEW t \in Timer, NEW r \in Request, IsrStart(t, r)
  PROVE  IInv'
<1> DEFINE first  == [Idle EXCEPT !.kind = "insert_1", !.timer = t, !.absolute = r.absolute]
           second == [Idle EXCEPT !.kind = "insert_2", !.timer = t, !.at = r.at]
           one == Append(deferred, first)
           two == Append(one, second)
<1>0. /\ UNCHANGED <<timer_queue, timer_busy, timer_events, alrb, irq, pc, task, armed>>
      /\ deferred' = deferred \o (IF Room(2) THEN <<first, second>>
                                  ELSE IF Room(1) THEN <<first>> ELSE <<>>)
      /\ waiting' = IF Room(2) /\ Unlinked(t) THEN waiting \union {t} ELSE waiting
  BY DEF IsrStart, list, alarm
<1>1. /\ first \in TimerWork /\ second \in TimerWork
      /\ second.kind = "insert_2" /\ second.timer = t
  <2>1. r.at \in Nat /\ r.absolute \in BOOLEAN /\ "insert_1" \in About /\ "insert_2" \in About
    BY RtcTimerAssumption DEF Request, About
  <2>2. first \in TimerWork
    BY <2>1 DEF Idle, TimerWork
  <2>3. second \in TimerWork
    BY <2>1 DEF Idle, TimerWork
  <2>4. second.kind = "insert_2" /\ second.timer = t
    BY DEF Idle
  <2> HIDE DEF first, second
  <2> QED
    BY <2>2, <2>3, <2>4
<1> HIDE DEF first, second
<1>2. deferred \in Seq(Work) /\ waiting \subseteq Timer /\ first \in Work /\ second \in Work
  BY <1>1 DEF IInv, TypeInv, Work
<1>3. /\ one \in Seq(Work) /\ Routines(one) = Routines(deferred)
      /\ Len(one) = Len(deferred) + 1 /\ Len(deferred) \in Nat
      /\ \A l, u : Asks(deferred, l, u) => Asks(one, l, u)
  BY <1>1, <1>2, AppendWork
<1>4. deferred' = IF Room(2) THEN two ELSE IF Room(1) THEN one ELSE deferred
  <2>1. deferred \o <<first, second>> = two
    BY <1>2
  <2>2. deferred \o <<first>> = one /\ deferred \o <<>> = deferred
    BY <1>2
  <2> QED
    BY <1>0, <2>1, <2>2
<1> HIDE DEF one
<1>5. /\ two \in Seq(Work) /\ Routines(two) = Routines(one) /\ Len(two) = Len(one) + 1
      /\ \A l, u : Asks(one, l, u) => Asks(two, l, u)
      /\ Asks(two, "insert_2", t)
  <2>1. Asks(two, second.kind, second.timer)
    BY <1>1, <1>3, AppendWork
  <2>2. \A l, u : Asks(one, l, u) => Asks(two, l, u)
    BY <1>1, <1>3, AppendWork
  <2>3. two \in Seq(Work) /\ Routines(two) = Routines(one) /\ Len(two) = Len(one) + 1
    BY <1>1, <1>3, AppendWork
  <2> QED
    BY <1>1, <2>1, <2>2, <2>3
<1> HIDE DEF two
<1>6. /\ deferred' \in Seq(Work) /\ Routines(deferred') = Routines(deferred)
      /\ Len(deferred') >= Len(deferred)
      /\ \A l, u : Asks(deferred, l, u) => Asks(deferred', l, u)
      /\ Room(2) => Asks(deferred', "insert_2", t)
  BY <1>2, <1>3, <1>4, <1>5
<1>7. /\ waiting' \subseteq Timer
      /\ \A u \in waiting' \ waiting : u \notin Running /\ Asks(deferred', "insert_2", u)
  BY <1>0, <1>2, <1>6 DEF Unlinked, Running
<1> QED
  BY <1>0, <1>6, <1>7, DeferInv

\* A handler's stop: the removal is deferred and the callback disarmed.  A
\* destroy leaves the callback.
LEMMA IsrStopInv ==
  ASSUME IInv, NEW t \in Timer, IsrStop(t) \/ IsrDestroy(t)
  PROVE  IInv'
<1>1. deferred \in Seq(Work) /\ waiting \subseteq Timer
  BY DEF IInv, TypeInv
<1>2. UNCHANGED <<timer_queue, timer_busy, timer_events, alrb, irq, pc, task, waiting>>
  BY DEF IsrStop, IsrDestroy, list, alarm
<1>3. \/ \E k \in {"remove", "release"} :
            /\ deferred' = Append(deferred, [Idle EXCEPT !.kind = k, !.timer = t])
            /\ armed' = armed \/ (k = "remove" /\ armed' = armed \ {t})
      \/ deferred' = deferred /\ armed' = armed
  BY DEF IsrStop, IsrDestroy, list
<1>4. CASE deferred' = deferred /\ armed' = armed
  BY <1>1, <1>2, <1>4, LenProperties, DeferInv
<1>5. ASSUME NEW k \in {"remove", "release"},
             deferred' = Append(deferred, [Idle EXCEPT !.kind = k, !.timer = t]),
             armed' = armed \/ (k = "remove" /\ armed' = armed \ {t})
      PROVE  IInv'
  <2> DEFINE w == [Idle EXCEPT !.kind = k, !.timer = t]
  <2>1. w \in TimerWork /\ w.kind = k /\ w.timer = t
    <3>1. k \in About
      BY DEF About
    <3>2. w \in TimerWork
      BY <3>1 DEF TimerWork, Idle
    <3>3. w.kind = k /\ w.timer = t
      BY DEF Idle
    <3> QED
      BY <3>2, <3>3
  <2>2. deferred' = Append(deferred, w)
    BY <1>5
  <2> HIDE DEF w
  <2>3. /\ deferred' \in Seq(Work) /\ Routines(deferred') = Routines(deferred)
        /\ Len(deferred') = Len(deferred) + 1 /\ Len(deferred) \in Nat
    BY <1>1, <2>1, <2>2, AppendWork
  <2>4. \A l, u : Asks(deferred, l, u) => Asks(deferred', l, u)
    BY <1>1, <2>1, <2>2, AppendWork
  <2>5. Asks(deferred', w.kind, w.timer)
    BY <1>1, <2>1, <2>2, AppendWork
  <2>6. armed' \subseteq armed /\ \A u \in armed \ armed' : Asks(deferred', "remove", u)
    BY <1>5, <2>1, <2>5
  <2> QED
    BY <1>1, <1>2, <2>3, <2>4, <2>6, DeferInv
<1> QED
  BY <1>3, <1>4, <1>5

-----------------------------------------------------------------------------
(* The routines. *)

\* A routine of a timer ends: what was pending still is, but for itself.
LEMMA RoutineEnds ==
  ASSUME pc = "run", deferred' = deferred, NEW k, NEW t, Pending(k, t),
         ~(task.kind = k /\ task.timer = t)
  PROVE  Pending(k, t)'
  BY DEF Pending

\* What the routines of a timer keep.
LEMMA TimerRoutineInv ==
  ASSUME IInv, pc = "run", task.kind # "routine",
         UNCHANGED <<deferred, timer_busy, timer_events>>,
         (pc' = "arm" /\ task' = task) \/ pc' = "idle",
         (alrb' = "off" /\ irq' = FALSE) \/ UNCHANGED <<alrb, irq>>,
         NEW M, Lists(timer_queue', M), M \subseteq Timer,
         armed' \subseteq Timer,
         \A u \in M \ armed' : Pending("remove", u)',
         waiting' \intersect M = {}, waiting' \subseteq waiting,
         \A u \in waiting' : Pending("insert_2", u)'
  PROVE  IInv'
<1>1. Running' = M
  BY ListsHead DEF Running
<1>2. ~RoutineRunning /\ ~RoutineRunning'
  BY DEF RoutineRunning
<1>3. EventsInv'
  BY <1>2 DEF IInv, EventsInv
<1>4. TypeInv'
  BY <1>1 DEF IInv, TypeInv
<1>5. AlarmInv'
  BY DEF IInv, AlarmInv
<1>6. ArmedInv' /\ WaitingInv'
  BY <1>1 DEF ArmedInv, WaitingInv
<1> QED
  BY <1>3, <1>4, <1>5, <1>6 DEF IInv

\* stm32l0_rtc_timer_insert: the timer is in the list, armed, and waits no more.
LEMMA InsertInv ==
  ASSUME IInv, pc = "run", NEW t \in Timer, NEW at, NEW absolute, Insert(t, at, absolute),
         task.timer = t, task.kind \in {"insert_2", "insert"}, UNCHANGED deferred
  PROVE  IInv'
<1> DEFINE old == IF t \in Running THEN Unlink(timer_queue, delta, t)
                  ELSE [queue |-> timer_queue, delta |-> delta]
           start == IF old.queue = <<>> THEN now ELSE timer_start
           ticks == IF ~absolute THEN at ELSE IF at <= now THEN 0 ELSE at - now
           M == Running \union {t}
<1>0. /\ Lists(timer_queue, Running) /\ Running \subseteq Timer
      /\ armed \subseteq Timer /\ waiting \subseteq Timer
  BY DEF IInv, TypeInv
<1>1. /\ timer_queue' = Link(old.queue, old.delta, t, now - start + ticks).queue
      /\ armed' = armed \union {t} /\ waiting' = waiting \ {t}
      /\ UNCHANGED <<timer_busy, timer_events>>
  BY DEF Insert, NewList, ArmCallback, Running
<1>2. (pc' = "arm" /\ task' = task) \/ pc' = "idle"
  BY DEF Insert, Alarm, Done
<1>3. (alrb' = "off" /\ irq' = FALSE) \/ UNCHANGED <<alrb, irq>>
  BY DEF Insert
<1>4. Lists(old.queue, Running \ {t})
  <2>1. CASE t \in Running
    BY <1>0, <2>1, UnlinkFacts
  <2>2. CASE t \notin Running
    <3>1. Running \ {t} = Running
      BY <2>2
    <3> QED
      BY <1>0, <2>2, <3>1
  <2> QED
    BY <2>1, <2>2
<1> HIDE DEF old, start, ticks
<1>5. Lists(timer_queue', M)
  <2>1. Lists(timer_queue', (Running \ {t}) \union {t})
    BY <1>1, <1>4, LinkFacts
  <2>2. (Running \ {t}) \union {t} = M
    OBVIOUS
  <2> QED
    BY <2>1, <2>2
<1>6. M \subseteq Timer /\ armed' \subseteq Timer
  BY <1>0, <1>1
<1>7. \A u \in M \ armed' : Pending("remove", u)'
  <2> SUFFICES ASSUME NEW u \in M \ armed' PROVE Pending("remove", u)'
    OBVIOUS
  <2>1. Pending("remove", u) /\ task.kind # "remove"
    BY <1>1 DEF IInv, ArmedInv
  <2> QED
    BY <2>1, RoutineEnds
<1>8. waiting' \intersect M = {} /\ waiting' \subseteq waiting
  BY <1>1 DEF IInv, WaitingInv
<1>9. \A u \in waiting' : Pending("insert_2", u)'
  <2> SUFFICES ASSUME NEW u \in waiting' PROVE Pending("insert_2", u)'
    OBVIOUS
  <2>1. Pending("insert_2", u) /\ u # t
    BY <1>1 DEF IInv, WaitingInv
  <2> QED
    BY <2>1, RoutineEnds
<1> HIDE DEF M
<1>10. task.kind # "routine"
  OBVIOUS
<1> QED
  BY <1>1, <1>2, <1>3, <1>5, <1>6, <1>7, <1>8, <1>9, <1>10, TimerRoutineInv

\* stm32l0_rtc_timer_insert_1 keeps the flag and leaves the list alone.
LEMMA InsertAdjustInv ==
  ASSUME IInv, pc = "run", NEW t, NEW absolute, InsertAdjust(t, absolute),
         task.kind = "insert_1", UNCHANGED deferred
  PROVE  IInv'
<1>1. /\ UNCHANGED <<timer_queue, armed, waiting, timer_busy, timer_events, alrb, irq>>
      /\ pc' = "idle"
  BY DEF InsertAdjust, Done, alarm
<1>2. /\ Lists(timer_queue', Running) /\ Running \subseteq Timer /\ armed' \subseteq Timer
      /\ waiting' \intersect Running = {} /\ waiting' \subseteq waiting
  BY <1>1 DEF IInv, TypeInv, WaitingInv
<1>3. \A u \in Running \ armed' : Pending("remove", u)'
  BY <1>1, RoutineEnds DEF IInv, ArmedInv
<1>4. \A u \in waiting' : Pending("insert_2", u)'
  BY <1>1, RoutineEnds DEF IInv, WaitingInv
<1>5. task.kind # "routine"
  OBVIOUS
<1> QED
  BY <1>1, <1>2, <1>3, <1>4, <1>5, TimerRoutineInv

\* stm32l0_rtc_timer_remove and stm32l0_rtc_timer_release: the timer is not in the
\* list.
LEMMA RemoveInv ==
  ASSUME IInv, pc = "run", NEW t, RemoveTimer(t),
         task.timer = t, task.kind \in {"remove", "release"}, UNCHANGED deferred
  PROVE  IInv'
<1> DEFINE M == Running \ {t}
<1>0. /\ Lists(timer_queue, Running) /\ Running \subseteq Timer
      /\ armed \subseteq Timer /\ waiting \subseteq Timer
  BY DEF IInv, TypeInv
<1>1. UNCHANGED <<armed, timer_busy, timer_events, waiting>>
  BY DEF RemoveTimer
<1>2. (pc' = "arm" /\ task' = task) \/ pc' = "idle"
  BY DEF RemoveTimer, Alarm, Done
<1>3. (alrb' = "off" /\ irq' = FALSE) \/ UNCHANGED <<alrb, irq>>
  BY DEF RemoveTimer
<1>4. Lists(timer_queue', M)
  <2>1. CASE t \in Running
    <3>1. timer_queue' = UnlinkRemoved(timer_queue, delta, t).queue
      BY <2>1 DEF RemoveTimer, NewList, Running
    <3> QED
      BY <1>0, <2>1, <3>1, UnlinkFacts
  <2>2. CASE t \notin Running
    <3>1. timer_queue' = timer_queue /\ M = Running
      BY <2>2 DEF RemoveTimer, Running
    <3> QED
      BY <1>0, <3>1
  <2> QED
    BY <2>1, <2>2
<1>5. M \subseteq Timer /\ armed' \subseteq Timer
  BY <1>0, <1>1
<1>6. \A u \in M \ armed' : Pending("remove", u)'
  <2> SUFFICES ASSUME NEW u \in M \ armed' PROVE Pending("remove", u)'
    OBVIOUS
  <2>1. Pending("remove", u) /\ u # t
    BY <1>1 DEF IInv, ArmedInv
  <2> QED
    BY <2>1, RoutineEnds
<1>7. waiting' \intersect M = {} /\ waiting' \subseteq waiting
  BY <1>1 DEF IInv, WaitingInv
<1>8. \A u \in waiting' : Pending("insert_2", u)'
  <2> SUFFICES ASSUME NEW u \in waiting' PROVE Pending("insert_2", u)'
    OBVIOUS
  <2>1. Pending("insert_2", u) /\ task.kind # "insert_2"
    BY <1>1 DEF IInv, WaitingInv
  <2> QED
    BY <2>1, RoutineEnds
<1> HIDE DEF M
<1>9. task.kind # "routine"
  OBVIOUS
<1> QED
  BY <1>1, <1>2, <1>3, <1>4, <1>5, <1>6, <1>7, <1>8, <1>9, TimerRoutineInv

\* stm32l0_rtc_timer_routine: timers leave, and no routine is left.
LEMMA RoutineInv ==
  ASSUME IInv, pc = "run", Routine, task.kind = "routine", UNCHANGED deferred
  PROVE  IInv'
<1>0. /\ Lists(timer_queue, Running) /\ Running \subseteq Timer
  BY DEF IInv, TypeInv
<1>1. /\ UNCHANGED <<armed, waiting, alrb, irq>> /\ timer_busy' = FALSE
      /\ timer_events' = timer_events - 1
      /\ (pc' = "arm" /\ task' = task) \/ pc' = "idle"
  BY DEF Routine, Alarm, Done
<1>2. timer_events = 1 /\ Routines(deferred) = {}
  BY DEF IInv, EventsInv, RoutineRunning
<1>3. timer_events' = 0
  BY <1>1, <1>2
<1>4. Lists(timer_queue', Running') /\ Running' \subseteq Running
  <2>1. CASE timer_busy
    <3>1. timer_queue' = Expire(timer_queue, delta, timer_stop - timer_start).queue
      BY <2>1 DEF Routine, NewList
    <3> QED
      BY <1>0, <3>1, ExpireFacts DEF Running
  <2>2. CASE ~timer_busy
    BY <1>0, <2>2 DEF Routine, Running
  <2> QED
    BY <2>1, <2>2
<1>5. TypeInv'
  BY <1>0, <1>1, <1>4 DEF IInv, TypeInv
<1>6. EventsInv' /\ AlarmInv'
  BY <1>1, <1>2, <1>3 DEF EventsInv, AlarmInv, RoutineRunning
<1>7. ArmedInv'
  <2> SUFFICES ASSUME NEW u \in Running \ armed PROVE Pending("remove", u)'
    BY <1>1, <1>4 DEF ArmedInv
  <2>1. Pending("remove", u)
    BY DEF IInv, ArmedInv
  <2> QED
    BY <2>1, RoutineEnds
<1>8. WaitingInv'
  <2>1. waiting \intersect Running' = {}
    BY <1>4 DEF IInv, WaitingInv
  <2>2. ASSUME NEW u \in waiting PROVE Pending("insert_2", u)'
    <3>1. Pending("insert_2", u)
      BY DEF IInv, WaitingInv
    <3> QED
      BY <3>1, RoutineEnds
  <2> QED
    BY <1>1, <2>1, <2>2 DEF WaitingInv
<1> QED
  BY <1>5, <1>6, <1>7, <1>8 DEF IInv

\* Whatever routine is run.
LEMMA RunInv ==
  ASSUME IInv, Run
  PROVE  IInv'
<1>1. pc = "run" /\ task \in Work /\ UNCHANGED deferred
  BY DEF Run, IInv, TypeInv
<1>2. CASE task.kind = "routine"
  <2>1. Routine
    BY <1>2 DEF Run
  <2> QED
    BY <1>1, <1>2, <2>1, RoutineInv
<1>3. CASE task.kind # "routine"
  <2>1. task.kind \in About /\ task.timer \in Timer
    BY <1>1, <1>3 DEF Work, TimerWork, Idle
  <2>2. CASE task.kind = "insert_1"
    <3>1. InsertAdjust(task.timer, task.absolute)
      BY <2>2 DEF Run
    <3> QED
      BY <1>1, <2>2, <3>1, InsertAdjustInv
  <2>3. CASE task.kind = "insert_2"
    <3>1. Insert(task.timer, task.at, adjust[task.timer])
      BY <2>3 DEF Run
    <3> QED
      BY <1>1, <2>1, <2>3, <3>1, InsertInv
  <2>4. CASE task.kind = "insert"
    <3>1. Insert(task.timer, task.at, task.absolute)
      BY <2>4 DEF Run
    <3> QED
      BY <1>1, <2>1, <2>4, <3>1, InsertInv
  <2>5. CASE task.kind \in {"remove", "release"}
    <3>1. RemoveTimer(task.timer)
      BY <2>5 DEF Run
    <3> QED
      BY <1>1, <2>5, <3>1, RemoveInv
  <2> QED
    BY <2>1, <2>2, <2>3, <2>4, <2>5 DEF About
<1> QED
  BY <1>2, <1>3

-----------------------------------------------------------------------------
(* The theorems. *)

\* The invariant holds at reset, with an empty list.
LEMMA InitInv == Init => IInv
<1> SUFFICES ASSUME Init PROVE IInv
  OBVIOUS
<1>1. /\ timer_queue = <<>> /\ armed = {} /\ waiting = {} /\ timer_busy = FALSE
      /\ timer_events = 0 /\ alrb = "off" /\ irq = FALSE /\ deferred = <<>> /\ pc = "idle"
  BY DEF Init
<1>2. Lists(timer_queue, {}) /\ Running = {}
  BY <1>1, EmptyLists, ListsHead DEF Running
<1>3. TypeInv
  <2>1. deferred \in Seq(Work)
    BY <1>1
  <2>2. Lists(timer_queue, Running) /\ Running \subseteq Timer
    BY <1>2
  <2> QED
    BY <1>1, <2>1, <2>2 DEF TypeInv
<1>4. EventsInv
  BY <1>1 DEF EventsInv, Routines, RoutineRunning
<1> QED
  BY <1>1, <1>2, <1>3, <1>4 DEF IInv, AlarmInv, ArmedInv, WaitingInv

\* Every step keeps the invariant.
LEMMA NextInv == IInv /\ [Next]_vars => IInv'
<1> SUFFICES ASSUME IInv, [Next]_vars PROVE IInv'
  OBVIOUS
<1>1. ASSUME NEW t \in Timer, NEW r \in Request, SvcStart(t, r) \/ IsrStart(t, r) PROVE IInv'
  BY <1>1, SvcStartInv, IsrStartInv
<1>2. ASSUME NEW t \in Stops, SvcStop(t) \/ IsrStop(t) \/ SvcDestroy(t) \/ IsrDestroy(t)
      PROVE  IInv'
  <2>1. t \in Timer
    BY RtcTimerAssumption
  <2> QED
    BY <1>2, <2>1, SvcStopInv, IsrStopInv
<1>3. CASE Kernel
  BY <1>3, TakeInv, RunInv, ArmInv, CheckInv, LateInv DEF Kernel
<1>4. CASE RtcIrq \/ Tick
  BY <1>4, RtcIrqInv, TickInv
<1>5. CASE UNCHANGED vars
  <2>1. /\ UNCHANGED <<timer_queue, armed, waiting, deferred, timer_events, timer_busy, alrb,
                       irq, pc, task>>
    BY <1>5 DEF vars, list, alarm
  <2>2. TypeInv' /\ AlarmInv'
    BY <2>1 DEF IInv, TypeInv, AlarmInv, Running
  <2> QED
    BY <2>1, <2>2, QuietInv
<1> QED
  BY <1>1, <1>2, <1>3, <1>4, <1>5 DEF Next

\* The inductive invariant holds of every behaviour.
THEOREM Invariance == Spec => []IInv
  BY InitInv, NextInv, PTL DEF Spec

\* timer_events is the number of routines of the alarm that wait or are about to
\* run: the interrupt and the routine that waits for a near alarm never enqueue
\* two, whatever the depth of the queue and whatever it refuses.
THEOREM EventsAreCounted == Spec => []EventsMatch
<1>1. IInv => EventsMatch
  <2> SUFFICES ASSUME IInv PROVE EventsMatch
    OBVIOUS
  <2>1. \A i : Routines(deferred) = {i} => Routines(deferred) # {}
    OBVIOUS
  <2> QED
    BY <2>1 DEF IInv, EventsInv, EventsMatch, Routines, RoutineRunning
<1> QED
  BY <1>1, Invariance, PTL

\* In thread mode stm32l0_rtc_timer_done tells the timers outside the list from
\* those in it, whatever handlers started, stopped and destroyed before.
THEOREM DoneIsRight == Spec => []DoneInThread
<1>1. IInv => DoneInThread
  <2> SUFFICES ASSUME IInv, ThreadRuns, NEW t \in Timer
               PROVE  timer_done(t) <=> t \notin Running
    BY DEF DoneInThread, Running
  <2>1. Running \subseteq armed /\ waiting = {}
    BY NothingPending DEF IInv, ArmedInv, WaitingInv
  <2> QED
    BY <2>1 DEF timer_done, Running
<1> QED
  BY <1>1, Invariance, PTL

\* The function g adds up the first n delays of the list q.
AddsUp(g, q, d, n) == g = [j \in 0..n |-> IF j = 0 THEN 0 ELSE g[j - 1] + d[q[j]]]

\* Delays can be added up to any place.
LEMMA SumExists ==
  ASSUME NEW q, NEW d
  PROVE  \A n \in Nat : \E g : AddsUp(g, q, d, n)
<1> DEFINE T == {n \in Nat : ~\E g : AddsUp(g, q, d, n)}
<1> SUFFICES ASSUME T # {} PROVE FALSE
  OBVIOUS
<1>1. T \in SUBSET Nat
  OBVIOUS
<1>2. PICK n \in T : \A m \in T : n <= m
  <2> HIDE DEF T
  <2> QED
    BY <1>1, LeastNat
<1>3. n # 0
  <2>1. AddsUp([j \in 0..0 |-> 0], q, d, 0)
    BY DEF AddsUp
  <2> QED
    BY <2>1
<1>4. n - 1 \in Nat /\ n - 1 \notin T
  BY <1>2, <1>3
<1>5. PICK g : AddsUp(g, q, d, n - 1)
  BY <1>4
<1> DEFINE h == [j \in 0..n |-> IF j = n THEN g[n - 1] + d[q[n]] ELSE g[j]]
<1>6. ASSUME NEW j \in 0..n
      PROVE  h[j] = IF j = 0 THEN 0 ELSE h[j - 1] + d[q[j]]
  <2>1. CASE j = 0
    BY <1>3, <1>5, <2>1 DEF AddsUp
  <2>2. CASE j # 0 /\ j # n
    <3>1. j \in 0..n - 1 /\ j - 1 \in 0..n /\ j - 1 # n
      BY <2>2
    <3>2. g[j] = g[j - 1] + d[q[j]]
      BY <1>5, <2>2, <3>1 DEF AddsUp
    <3> QED
      BY <2>2, <3>1, <3>2
  <2>3. CASE j = n
    <3>1. j # 0 /\ j - 1 \in 0..n /\ j - 1 # n
      BY <1>3, <2>3
    <3> QED
      BY <2>3, <3>1
  <2> QED
    BY <2>1, <2>2, <2>3
<1>7. AddsUp(h, q, d, n)
  BY <1>6 DEF AddsUp
<1> QED
  BY <1>7

\* A sum is 0 at the start of the list, and grows by each timer's delay.
LEMMA CumSteps ==
  ASSUME NEW q, NEW d, Len(q) \in Nat
  PROVE  /\ Cum(q, d, 0) = 0
         /\ \A i \in 1..Len(q) : Cum(q, d, i) = Cum(q, d, i - 1) + d[q[i]]
<1> DEFINE sum == CHOOSE g : AddsUp(g, q, d, Len(q))
<1>1. \A i : Cum(q, d, i) = sum[i]
  BY DEF Cum, AddsUp
<1>2. AddsUp(sum, q, d, Len(q))
  <2>1. \E g : AddsUp(g, q, d, Len(q))
    BY SumExists
  <2> QED
    BY <2>1
<1> HIDE DEF sum
<1>3. \A j \in 0..Len(q) : sum[j] = IF j = 0 THEN 0 ELSE sum[j - 1] + d[q[j]]
  BY <1>2 DEF AddsUp
<1>4. \A i \in 1..Len(q) : i \in 0..Len(q) /\ i # 0
  OBVIOUS
<1> QED
  BY <1>1, <1>3, <1>4

\* F is 0 at the start of a list of n timers and grows by each timer's delay.
Grows(F, q, d, n) ==
    Len(q) = n /\ F[0] = 0 /\ \A i \in 1..n : F[i] = F[i - 1] + d[q[i]]

\* Nothing does so but the sum.
LEMMA CumUnique ==
  ASSUME NEW q, NEW d, NEW n \in Nat, NEW F, Grows(F, q, d, n)
  PROVE  \A i \in 0..n : Cum(q, d, i) = F[i]
<1>0. Len(q) = n /\ F[0] = 0 /\ \A i \in 1..n : F[i] = F[i - 1] + d[q[i]]
  BY DEF Grows
<1> DEFINE T == {i \in 0..n : Cum(q, d, i) # F[i]}
<1> SUFFICES ASSUME T # {} PROVE FALSE
  OBVIOUS
<1>1. T \in SUBSET Nat
  OBVIOUS
<1>2. PICK i \in T : \A j \in T : i <= j
  <2> HIDE DEF T
  <2> QED
    BY <1>1, LeastNat
<1>3. i \in 0..n /\ Cum(q, d, i) # F[i]
  BY <1>2
<1>4. Cum(q, d, 0) = 0 /\ \A j \in 1..n : Cum(q, d, j) = Cum(q, d, j - 1) + d[q[j]]
  BY <1>0, CumSteps
<1>5. i # 0
  BY <1>0, <1>3, <1>4
<1>6. i \in 1..n /\ i - 1 \in 0..n /\ ~(i <= i - 1)
  BY <1>3, <1>5
<1>7. i - 1 \notin T
  BY <1>2, <1>6
<1>8. Cum(q, d, i - 1) = F[i - 1]
  BY <1>6, <1>7
<1> QED
  BY <1>0, <1>3, <1>4, <1>6, <1>8

\* The sums of delays that are numbers are numbers.
LEMMA CumInt ==
  ASSUME NEW q, NEW d, NEW n \in Nat, Len(q) = n, \A i \in 1..n : d[q[i]] \in Int
  PROVE  \A i \in 0..n : Cum(q, d, i) \in Int
<1> DEFINE T == {i \in 0..n : Cum(q, d, i) \notin Int}
<1> SUFFICES ASSUME T # {} PROVE FALSE
  OBVIOUS
<1>1. T \in SUBSET Nat
  OBVIOUS
<1>2. PICK i \in T : \A j \in T : i <= j
  <2> HIDE DEF T
  <2> QED
    BY <1>1, LeastNat
<1>3. i \in 0..n /\ Cum(q, d, i) \notin Int
  BY <1>2
<1>4. Cum(q, d, 0) = 0 /\ \A j \in 1..n : Cum(q, d, j) = Cum(q, d, j - 1) + d[q[j]]
  BY CumSteps
<1>5. i # 0
  BY <1>3, <1>4
<1>6. i \in 1..n /\ i - 1 \in 0..n /\ ~(i <= i - 1)
  BY <1>3, <1>5
<1>7. i - 1 \notin T
  BY <1>2, <1>6
<1>8. Cum(q, d, i - 1) \in Int /\ d[q[i]] \in Int
  BY <1>6, <1>7
<1> QED
  BY <1>3, <1>4, <1>6, <1>8

-----------------------------------------------------------------------------
(* The operations on the list: when its timers expire. *)

\* What is known of a list q of the timers M, with delays d.
Timed(q, M, d) == Lists(q, M) /\ M \subseteq Timer /\ d \in [Timer -> Int]

\* The entries and the sums of such a list.
LEMMA TimedFacts ==
  ASSUME NEW q, NEW M, NEW d, Timed(q, M, d)
  PROVE  /\ Len(q) \in Nat /\ q \in Seq(Timer)
         /\ \A i \in 1..Len(q) : q[i] \in M /\ q[i] \in Timer /\ d[q[i]] \in Int
         /\ \A i, j \in 1..Len(q) : q[i] = q[j] => i = j
         /\ \A i \in 0..Len(q) : Cum(q, d, i) \in Int
         /\ Cum(q, d, 0) = 0
         /\ \A i \in 1..Len(q) : Cum(q, d, i) = Cum(q, d, i - 1) + d[q[i]]
<1> DEFINE n == Len(q)
<1>1. q \in Seq(M) /\ M \subseteq Timer /\ d \in [Timer -> Int] /\ n \in Nat
  BY LenProperties DEF Timed, Lists
<1>2. \A i \in 1..n : q[i] \in M
  BY <1>1, ElementOfSeq
<1>3. \A i \in 1..n : q[i] \in Timer /\ d[q[i]] \in Int
  BY <1>1, <1>2
<1>4. q \in Seq(Timer)
  BY <1>1, SeqMonotonic
<1>5. \A i, j \in 1..n : q[i] = q[j] => i = j
  BY DEF Timed, Lists
<1> HIDE DEF n
<1>6. \A i \in 0..n : Cum(q, d, i) \in Int
  BY <1>1, <1>3, CumInt DEF n
<1>7. Cum(q, d, 0) = 0 /\ \A i \in 1..n : Cum(q, d, i) = Cum(q, d, i - 1) + d[q[i]]
  BY <1>1, CumSteps DEF n
<1> QED
  BY <1>1, <1>2, <1>3, <1>4, <1>5, <1>6, <1>7 DEF n

\* No timer before the place found is later; the one at the place is.
LEMMA LaterIsLater ==
  ASSUME NEW q, NEW M, NEW d, Timed(q, M, d), NEW after \in Int
  PROVE  LET p == Later(q, d, after)
         IN  /\ p \in 1..Len(q) + 1
             /\ \A i \in 1..Len(q) : i < p => Cum(q, d, i) <= after
             /\ p <= Len(q) => Cum(q, d, p) > after
<1> DEFINE later == {i \in 1..Len(q) : Cum(q, d, i) > after}
           n == Len(q)
           p == Later(q, d, after)
<1>1. n \in Nat /\ \A i \in 1..n : Cum(q, d, i) \in Int
  BY TimedFacts
<1>2. CASE later = {}
  <2>1. p = n + 1
    BY <1>2 DEF Later
  <2> HIDE DEF p
  <2>2. \A i \in 1..n : Cum(q, d, i) <= after
    BY <1>1, <1>2
  <2> QED
    BY <1>1, <2>1, <2>2 DEF p
<1>3. CASE later # {}
  <2>1. later \in SUBSET Nat
    BY <1>1
  <2>2. p = CHOOSE i \in later : \A j \in later : i <= j
    BY <1>3 DEF Later
  <2>3. p \in later /\ \A j \in later : p <= j
    <3> HIDE DEF later, p
    <3>1. \E i \in later : \A j \in later : i <= j
      BY <1>3, <2>1, LeastNat
    <3> QED
      BY <2>2, <3>1
  <2> HIDE DEF p
  <2>4. p \in 1..n /\ Cum(q, d, p) > after
    BY <2>3
  <2>5. ASSUME NEW i \in 1..n, i < p PROVE Cum(q, d, i) <= after
    <3>1. i \notin later
      BY <2>3, <2>4, <2>5, <1>1
    <3> QED
      BY <1>1, <3>1
  <2> QED
    BY <1>1, <2>4, <2>5 DEF p
<1> QED
  BY <1>2, <1>3

\* The timer u of a list expires c after timer_start.
Expires(q, d, u, c) == \E i \in 1..Len(q) : q[i] = u /\ Cum(q, d, i) = c

\* No delay is negative: the list is in the order in which its timers expire.
Sorted(q, d) == \A i \in 1..Len(q) : d[q[i]] >= 0

\* A timer that is linked expires when asked, and the others when they did.
LEMMA LinkSums ==
  ASSUME NEW q, NEW M, NEW d, Timed(q, M, d), NEW t \in Timer, t \notin M, NEW after \in Int
  PROVE  LET l == Link(q, d, t, after)
         IN  /\ Timed(l.queue, M \union {t}, l.delta)
             /\ Expires(l.queue, l.delta, t, after)
             /\ \A u, c : Expires(q, d, u, c) => Expires(l.queue, l.delta, u, c)
             /\ Sorted(q, d) /\ after >= 0 => Sorted(l.queue, l.delta)
<1> DEFINE n == Len(q)
           p == Later(q, d, after)
           a == Link(q, d, t, after).queue
           e == Link(q, d, t, after).delta
           C(i) == Cum(q, d, i)
<1>1. /\ n \in Nat /\ q \in Seq(Timer) /\ d \in [Timer -> Int]
      /\ \A i \in 1..n : q[i] \in Timer /\ q[i] # t
      /\ \A i, j \in 1..n : q[i] = q[j] => i = j
  <2>1. /\ n \in Nat /\ q \in Seq(Timer)
        /\ \A i \in 1..n : q[i] \in M /\ q[i] \in Timer
        /\ \A i, j \in 1..n : q[i] = q[j] => i = j
    BY TimedFacts
  <2> HIDE DEF n
  <2> QED
    BY <2>1 DEF Timed
<1>2. /\ \A i \in 0..n : C(i) \in Int
      /\ C(0) = 0 /\ \A i \in 1..n : C(i) = C(i - 1) + d[q[i]]
  BY TimedFacts
<1>3. p \in 1..n + 1 /\ \A i \in 1..n : i < p => C(i) <= after
  BY LaterIsLater
<1>4. p <= n => C(p) > after
  BY LaterIsLater
<1>5. a = InsertAt(q, p, t)
  BY DEF Link
<1>6. e = [u \in Timer |-> IF u = t THEN after - C(p - 1)
                           ELSE IF p <= n /\ u = q[p] THEN C(p) - after ELSE d[u]]
  BY DEF Link
<1> HIDE DEF n, p, a, e, C
<1>7. /\ Len(a) = n + 1
      /\ \A k \in 1..n + 1 : a[k] = IF k < p THEN q[k] ELSE IF k = p THEN t ELSE q[k - 1]
  <2>1. p \in 1..Len(q) + 1
    BY <1>3 DEF n
  <2>2. Len(InsertAt(q, p, t)) = Len(q) + 1
    <3>1. q \in Seq(Timer)
      BY <1>1
    <3> QED
      BY <2>1, <3>1, InsertAtEntries, Zenon
  <2>3. \A k \in 1..Len(q) + 1 : InsertAt(q, p, t)[k] =
           IF k < p THEN q[k] ELSE IF k = p THEN t ELSE q[k - 1]
    BY <1>1, <2>1, InsertAtEntries
  <2> QED
    BY <1>5, <2>2, <2>3 DEF n
<1>8. p - 1 \in 0..n /\ (p <= n => p \in 1..n)
  BY <1>1, <1>3
<1>9. e \in [Timer -> Int]
  BY <1>1, <1>2, <1>6, <1>8
<1>10. Timed(a, M \union {t}, e)
  <2>1. Lists(a, M \union {t})
    BY LinkFacts DEF Timed, a
  <2> QED
    BY <1>9, <2>1 DEF Timed
<1> DEFINE F == [i \in 0..n + 1 |-> IF i < p THEN C(i) ELSE IF i = p THEN after ELSE C(i - 1)]
<1>11. ASSUME NEW i \in 1..n + 1 PROVE F[i] = F[i - 1] + e[a[i]]
  <2>0. i \in 0..n + 1 /\ i - 1 \in 0..n + 1
    BY <1>1
  <2>1. CASE i < p
    <3>1. i \in 1..n /\ a[i] = q[i] /\ i - 1 < p
      BY <1>1, <1>3, <1>7, <2>1
    <3>2. e[q[i]] = d[q[i]]
      <4>1. ~(p <= n /\ q[i] = q[p])
        BY <1>1, <1>3, <2>1, <3>1
      <4> QED
        BY <1>1, <1>6, <3>1, <4>1
    <3>3. F[i] = C(i) /\ F[i - 1] = C(i - 1)
      BY <2>0, <2>1, <3>1
    <3> QED
      BY <1>2, <3>1, <3>2, <3>3
  <2>2. CASE i = p
    <3>1. a[i] = t /\ e[t] = after - C(p - 1)
      BY <1>3, <1>6, <1>7, <2>2
    <3>2. F[i] = after /\ F[i - 1] = C(p - 1)
      BY <1>3, <2>0, <2>2
    <3>3. C(p - 1) \in Int
      BY <1>2, <1>8
    <3> QED
      BY <3>1, <3>2, <3>3
  <2>3. CASE i = p + 1
    <3>1. p <= n /\ p \in 1..n /\ a[i] = q[p]
      BY <1>1, <1>3, <1>7, <2>3
    <3>2. e[q[p]] = C(p) - after
      BY <1>1, <1>6, <3>1
    <3>3. F[i] = C(p) /\ F[i - 1] = after
      BY <1>3, <2>0, <2>3
    <3>4. C(p) \in Int
      BY <1>1, <1>2, <3>1
    <3> QED
      BY <3>1, <3>2, <3>3, <3>4
  <2>4. CASE i > p + 1
    <3>1. i - 1 \in 1..n /\ a[i] = q[i - 1] /\ i - 1 # p /\ ~(i - 1 <= p)
      BY <1>1, <1>3, <1>7, <2>4
    <3>2. e[q[i - 1]] = d[q[i - 1]]
      <4>1. ~(p <= n /\ q[i - 1] = q[p])
        BY <1>1, <1>8, <3>1
      <4> QED
        BY <1>1, <1>6, <3>1, <4>1
    <3>3. F[i] = C(i - 1) /\ F[i - 1] = C(i - 1 - 1)
      BY <1>3, <2>0, <2>4
    <3> QED
      BY <1>2, <3>1, <3>2, <3>3
  <2> QED
    BY <1>3, <2>1, <2>2, <2>3, <2>4
<1>12. F[0] = 0
  BY <1>1, <1>2, <1>3
<1>13. \A i \in 0..n + 1 : Cum(a, e, i) = F[i]
  <2> DEFINE m == n + 1
  <2>1. m \in Nat /\ Len(a) = m
    BY <1>1, <1>7
  <2>2. \A i \in 1..m : F[i] = F[i - 1] + e[a[i]]
    BY <1>11
  <2> HIDE DEF F, m
  <2>3. Grows(F, a, e, m)
    BY <1>12, <2>1, <2>2 DEF Grows
  <2>4. \A i \in 0..m : Cum(a, e, i) = F[i]
    BY <2>1, <2>3, CumUnique
  <2> QED
    BY <2>4 DEF m
<1>14. Expires(a, e, t, after)
  <2>1. p \in 1..n + 1 /\ p \in 0..n + 1 /\ a[p] = t
    BY <1>1, <1>3, <1>7
  <2>2. F[p] = after
    BY <1>3, <2>1
  <2> QED
    BY <1>7, <1>13, <2>1, <2>2 DEF Expires
<1>15. ASSUME NEW u, NEW c, Expires(q, d, u, c) PROVE Expires(a, e, u, c)
  <2>1. PICK i \in 1..n : q[i] = u /\ C(i) = c
    BY <1>15 DEF Expires, n, C
  <2>2. CASE i < p
    <3>1. i \in 1..n + 1 /\ i \in 0..n + 1 /\ a[i] = q[i] /\ F[i] = C(i)
      BY <1>1, <1>7, <2>2
    <3> QED
      BY <1>7, <1>13, <2>1, <3>1 DEF Expires
  <2>3. CASE ~(i < p)
    <3>1. /\ i + 1 \in 1..n + 1 /\ i + 1 \in 0..n + 1 /\ ~(i + 1 < p) /\ i + 1 # p
          /\ i + 1 - 1 = i
      BY <1>1, <1>3, <2>3
    <3>2. a[i + 1] = q[i] /\ F[i + 1] = C(i)
      BY <1>7, <3>1
    <3> QED
      BY <1>7, <1>13, <2>1, <3>1, <3>2 DEF Expires
  <2> QED
    BY <2>2, <2>3
<1>16. ASSUME Sorted(q, d), after >= 0 PROVE Sorted(a, e)
  <2>1. ASSUME NEW i \in 1..n, ~(p <= n /\ q[i] = q[p]) PROVE e[q[i]] >= 0
    BY <1>1, <1>6, <1>16, <2>1 DEF Sorted, n
  <2>2. e[t] >= 0
    <3>1. C(p - 1) <= after
      <4>1. CASE p = 1
        BY <1>2, <1>16, <4>1
      <4>2. CASE p # 1
        <5>1. p - 1 \in 1..n /\ p - 1 < p
          BY <1>1, <1>3, <4>2
        <5> QED
          BY <1>3, <5>1
      <4> QED
        BY <4>1, <4>2
    <3>2. C(p - 1) \in Int /\ e[t] = after - C(p - 1)
      BY <1>2, <1>6, <1>8
    <3> QED
      BY <3>1, <3>2
  <2>3. p <= n => e[q[p]] >= 0
    BY <1>1, <1>2, <1>4, <1>6, <1>8
  <2>4. ASSUME NEW k \in 1..n + 1 PROVE e[a[k]] >= 0
    <3>1. CASE k = p
      BY <1>3, <1>7, <2>2, <3>1
    <3>2. CASE k # p
      <4>1. PICK i \in 1..n : a[k] = q[i]
        <5>1. CASE k < p
          <6>1. k \in 1..n /\ a[k] = q[k]
            BY <1>1, <1>3, <1>7, <5>1
          <6> QED
            BY <6>1
        <5>2. CASE ~(k < p)
          <6>1. k - 1 \in 1..n /\ a[k] = q[k - 1]
            BY <1>1, <1>3, <1>7, <3>2, <5>2
          <6> QED
            BY <6>1
        <5> QED
          BY <5>1, <5>2
      <4> QED
        BY <2>1, <2>3, <4>1
    <3> QED
      BY <3>1, <3>2
  <2> QED
    BY <1>7, <2>4 DEF Sorted
<1> QED
  BY <1>10, <1>14, <1>15, <1>16 DEF a, e

\* The others expire when they did once a timer is unlinked, the next of them no
\* earlier than the first did.
LEMMA UnlinkSums ==
  ASSUME NEW q, NEW M, NEW d, Timed(q, M, d), NEW t \in M
  PROVE  LET l == Unlink(q, d, t)
         IN  /\ Timed(l.queue, M \ {t}, l.delta)
             /\ \A u, c : u # t /\ Expires(q, d, u, c) => Expires(l.queue, l.delta, u, c)
             /\ Sorted(q, d) => Sorted(l.queue, l.delta)
             /\ Sorted(q, d) /\ l.queue # <<>> =>
                   \E c \in Int : Cum(q, d, 1) <= c /\ Expires(q, d, Head(l.queue), c)
<1> DEFINE n == Len(q)
           k == SelectInSeq(q, LAMBDA u : u = t)
           a == Unlink(q, d, t).queue
           e == Unlink(q, d, t).delta
           C(i) == Cum(q, d, i)
<1>1. /\ n \in Nat /\ q \in Seq(Timer)
      /\ \A i \in 1..n : q[i] \in M /\ q[i] \in Timer /\ d[q[i]] \in Int
      /\ \A i, j \in 1..n : q[i] = q[j] => i = j
  BY TimedFacts
<1>2. /\ \A i \in 0..n : C(i) \in Int
      /\ C(0) = 0 /\ \A i \in 1..n : C(i) = C(i - 1) + d[q[i]]
  BY TimedFacts
<1>3. k \in 1..n /\ q[k] = t
  <2> DEFINE I == {i \in 1..Len(q) : q[i] = t}
  <2>1. I # {}
    BY DEF Timed, Lists
  <2>2. k = Min(I)
    BY <2>1 DEF SelectInSeq
  <2>3. I \in SUBSET Nat
    BY <1>1
  <2>4. \E x \in I : \A y \in I : x <= y
    <3> HIDE DEF I
    <3> QED
      BY <2>1, <2>3, LeastNat
  <2>5. Min(I) \in I
    BY <2>4 DEF Min
  <2> QED
    BY <2>2, <2>5
<1>4. a = RemoveAt(q, k)
  BY DEF Unlink
<1>5. e = [u \in Timer |-> IF u = t THEN 0
                           ELSE IF k < n /\ u = q[k + 1] THEN d[u] + d[t] ELSE d[u]]
  BY DEF Unlink
<1> HIDE DEF n, k, a, e, C
<1>6. /\ Len(a) = n - 1
      /\ \A i \in 1..n - 1 : a[i] = IF i < k THEN q[i] ELSE q[i + 1]
  <2>0. q \in Seq(Timer) /\ k \in 1..Len(q)
    BY <1>1, <1>3 DEF n
  <2>1. Len(RemoveAt(q, k)) = Len(q) - 1
    BY <2>0, RemoveAtEntries, Zenon
  <2>2. \A i \in 1..Len(q) - 1 : RemoveAt(q, k)[i] = IF i < k THEN q[i] ELSE q[i + 1]
    BY <2>0, RemoveAtEntries
  <2> QED
    BY <1>4, <2>1, <2>2 DEF n
<1>7. t \in Timer /\ d \in [Timer -> Int]
  BY DEF Timed
<1>8. e \in [Timer -> Int]
  BY <1>5, <1>7
<1>9. Timed(a, M \ {t}, e)
  <2>1. Lists(a, M \ {t})
    BY UnlinkFacts DEF Timed, a
  <2> QED
    BY <1>8, <2>1 DEF Timed
<1> DEFINE F == [i \in 0..n - 1 |-> IF i < k THEN C(i) ELSE C(i + 1)]
<1>10. ASSUME NEW i \in 1..n - 1 PROVE F[i] = F[i - 1] + e[a[i]]
  <2>0. i \in 0..n - 1 /\ i - 1 \in 0..n - 1 /\ i \in 1..n /\ i + 1 \in 1..n
    BY <1>1
  <2>1. CASE i < k
    <3>1. a[i] = q[i] /\ i - 1 < k
      BY <1>1, <1>3, <1>6, <2>1
    <3>2. e[q[i]] = d[q[i]]
      <4>1. q[i] # t
        BY <1>1, <1>3, <2>0, <2>1
      <4>2. ~(k < n /\ q[i] = q[k + 1])
        BY <1>1, <1>3, <2>0, <2>1
      <4> QED
        BY <1>1, <1>5, <2>0, <4>1, <4>2
    <3>3. F[i] = C(i) /\ F[i - 1] = C(i - 1)
      BY <2>0, <2>1, <3>1
    <3> QED
      BY <1>2, <2>0, <3>1, <3>2, <3>3
  <2>2. CASE i = k
    <3>1. a[i] = q[k + 1] /\ k < n /\ k + 1 \in 1..n
      BY <1>1, <1>3, <1>6, <2>2
    <3>2. e[q[k + 1]] = d[q[k + 1]] + d[t]
      <4>1. q[k + 1] # t
        BY <1>1, <1>3, <3>1
      <4> QED
        BY <1>1, <1>5, <3>1, <4>1
    <3>3. F[i] = C(k + 1) /\ F[i - 1] = C(k - 1)
      BY <1>3, <2>0, <2>2
    <3>4. C(k) = C(k - 1) + d[t]
      BY <1>2, <1>3
    <3>5. C(k + 1) = C(k) + d[q[k + 1]]
      <4>1. k = k + 1 - 1
        BY <1>3
      <4>2. \A j \in 1..n : \A l : l = j - 1 => C(j) = C(l) + d[q[j]]
        BY <1>2
      <4> QED
        BY <1>3, <3>1, <4>1, <4>2
    <3>6. C(k - 1) \in Int /\ d[t] \in Int /\ d[q[k + 1]] \in Int
      BY <1>1, <1>2, <1>3, <3>1
    <3> QED
      BY <3>1, <3>2, <3>3, <3>4, <3>5, <3>6
  <2>3. CASE i > k
    <3>1. a[i] = q[i + 1] /\ ~(i < k) /\ ~(i - 1 < k)
      BY <1>1, <1>3, <1>6, <2>3
    <3>2. e[q[i + 1]] = d[q[i + 1]]
      <4>1. q[i + 1] # t
        BY <1>1, <1>3, <2>0, <2>3
      <4>2. ~(k < n /\ q[i + 1] = q[k + 1])
        <5>1. k < n => k + 1 \in 1..n /\ k + 1 # i + 1
          BY <1>1, <1>3, <2>3
        <5> QED
          BY <1>1, <2>0, <5>1
      <4> QED
        BY <1>1, <1>5, <2>0, <4>1, <4>2
    <3>3. F[i] = C(i + 1) /\ F[i - 1] = C(i - 1 + 1)
      BY <2>0, <2>3, <3>1
    <3>4. i - 1 + 1 = i /\ i + 1 - 1 = i
      BY <2>0
    <3> QED
      BY <1>2, <2>0, <3>1, <3>2, <3>3, <3>4
  <2> QED
    BY <1>3, <2>1, <2>2, <2>3
<1>11. F[0] = 0
  BY <1>1, <1>2, <1>3
<1>12. \A i \in 0..n - 1 : Cum(a, e, i) = F[i]
  <2> DEFINE m == n - 1
  <2>1. m \in Nat /\ Len(a) = m
    BY <1>1, <1>3, <1>6
  <2>2. \A i \in 1..m : F[i] = F[i - 1] + e[a[i]]
    BY <1>10
  <2> HIDE DEF F, m
  <2>3. Grows(F, a, e, m)
    BY <1>11, <2>1, <2>2 DEF Grows
  <2>4. \A i \in 0..m : Cum(a, e, i) = F[i]
    BY <2>1, <2>3, CumUnique
  <2> QED
    BY <2>4 DEF m
<1>13. ASSUME NEW u, NEW c, u # t, Expires(q, d, u, c) PROVE Expires(a, e, u, c)
  <2>1. PICK i \in 1..n : q[i] = u /\ C(i) = c
    BY <1>13 DEF Expires, n, C
  <2>2. CASE i < k
    <3>1. i \in 1..n - 1 /\ i \in 0..n - 1 /\ a[i] = q[i] /\ F[i] = C(i)
      BY <1>1, <1>3, <1>6, <2>2
    <3> QED
      BY <1>6, <1>12, <2>1, <3>1 DEF Expires
  <2>3. CASE i > k
    <3>1. i - 1 \in 1..n - 1 /\ i - 1 \in 0..n - 1 /\ ~(i - 1 < k) /\ i - 1 + 1 = i
      BY <1>1, <1>3, <2>3
    <3>2. a[i - 1] = q[i] /\ F[i - 1] = C(i)
      BY <1>6, <3>1
    <3> QED
      BY <1>6, <1>12, <2>1, <3>1, <3>2 DEF Expires
  <2> QED
    BY <1>3, <1>13, <2>1, <2>2, <2>3
<1>14. ASSUME Sorted(q, d) PROVE Sorted(a, e)
  <2>1. \A i \in 1..n : d[q[i]] >= 0
    BY <1>14 DEF Sorted, n
  <2>2. d[t] >= 0 /\ d[t] \in Int
    BY <1>1, <1>3, <2>1
  <2>3. ASSUME NEW i \in 1..n PROVE e[q[i]] >= 0
    <3>1. d[q[i]] \in Int /\ d[q[i]] >= 0 /\ q[i] \in Timer
      BY <1>1, <2>1
    <3>2. e[q[i]] \in {0, d[q[i]] + d[t], d[q[i]]}
      BY <1>5, <3>1
    <3> QED
      BY <2>2, <3>1, <3>2
  <2>4. ASSUME NEW i \in 1..n - 1 PROVE e[a[i]] >= 0
    <3>1. i \in 1..n /\ i + 1 \in 1..n
      BY <1>1
    <3> QED
      BY <1>6, <2>3, <3>1
  <2> QED
    BY <1>6, <2>4 DEF Sorted
<1>15. ASSUME Sorted(q, d), a # <<>>
       PROVE  \E c \in Int : Cum(q, d, 1) <= c /\ Expires(q, d, Head(a), c)
  <2>1. Head(a) = a[1] /\ Len(a) \in Nat /\ Len(a) # 0
    BY <1>9, <1>15, ListsHead DEF Timed
  <2>2. 1 \in 1..n - 1 /\ 1 \in 1..n /\ 2 \in 1..n
    BY <1>1, <1>6, <2>1
  <2>3. CASE 1 < k
    <3>1. Head(a) = q[1] /\ C(1) \in Int
      BY <1>1, <1>2, <1>6, <2>1, <2>2, <2>3
    <3> QED
      BY <2>2, <3>1 DEF Expires, n, C
  <2>4. CASE ~(1 < k)
    <3>1. Head(a) = q[2]
      BY <1>6, <2>1, <2>2, <2>4
    <3>2. C(2) = C(1) + d[q[2]]
      BY <1>2, <2>2
    <3>3. C(1) \in Int /\ C(2) \in Int /\ d[q[2]] \in Int /\ d[q[2]] >= 0
      BY <1>1, <1>2, <1>15, <2>2 DEF Sorted, n
    <3>4. C(1) <= C(2)
      BY <3>2, <3>3
    <3> QED
      BY <2>2, <3>1, <3>3, <3>4 DEF Expires, n, C
  <2> QED
    BY <2>3, <2>4
<1> QED
  BY <1>9, <1>13, <1>14, <1>15 DEF a, e

\* Those that stay when time elapses expire that much sooner, those that leave
\* were due.
LEMMA ExpireSums ==
  ASSUME NEW q, NEW M, NEW d, Timed(q, M, d), NEW elapsed \in Int
  PROVE  LET l == Expire(q, d, elapsed)
             N == ToSet(l.queue)
         IN  /\ Timed(l.queue, N, l.delta) /\ N \subseteq M
             /\ \A u \in N : \A c : Expires(q, d, u, c) => Expires(l.queue, l.delta, u, c - elapsed)
             /\ \A u \in M \ N : \A c : Expires(q, d, u, c) => c <= elapsed
             /\ Sorted(q, d) => Sorted(l.queue, l.delta)
<1> DEFINE n == Len(q)
           p == Later(q, d, elapsed)
           a == Expire(q, d, elapsed).queue
           e == Expire(q, d, elapsed).delta
           N == ToSet(a)
           C(i) == Cum(q, d, i)
<1>1. /\ n \in Nat /\ q \in Seq(Timer)
      /\ \A i \in 1..n : q[i] \in M /\ q[i] \in Timer /\ d[q[i]] \in Int
      /\ \A i, j \in 1..n : q[i] = q[j] => i = j
  BY TimedFacts
<1>2. /\ \A i \in 0..n : C(i) \in Int
      /\ C(0) = 0 /\ \A i \in 1..n : C(i) = C(i - 1) + d[q[i]]
  BY TimedFacts
<1>3. p \in 1..n + 1 /\ \A i \in 1..n : i < p => C(i) <= elapsed
  BY LaterIsLater
<1>4. p <= n => C(p) > elapsed
  BY LaterIsLater
<1>5. a = SubSeq(q, p, n)
  BY DEF Expire
<1>6. e = [u \in Timer |-> IF \E j \in 1..p - 1 : u = q[j] THEN 0
                           ELSE IF p <= n /\ u = q[p] THEN C(p) - elapsed ELSE d[u]]
  BY DEF Expire
<1>7. d \in [Timer -> Int] /\ M \subseteq Timer
  BY DEF Timed
<1>8. N \subseteq M /\ Lists(a, N)
  BY ExpireFacts DEF Timed
<1> HIDE DEF n, p, a, e, C
<1>9. /\ Len(a) = n - p + 1
      /\ \A i \in 1..n - p + 1 : a[i] = q[p + i - 1]
  BY <1>1, <1>3, <1>5 DEF n
<1>10. e \in [Timer -> Int]
  <2>1. p <= n => C(p) \in Int
    BY <1>1, <1>2, <1>3
  <2> QED
    BY <1>6, <1>7, <2>1
<1>11. Timed(a, N, e)
  BY <1>7, <1>8, <1>10 DEF Timed
<1> HIDE DEF N
<1> DEFINE m == n - p + 1
           F == [i \in 0..m |-> IF i = 0 THEN 0 ELSE C(p + i - 1) - elapsed]
<1>12. m \in Nat /\ \A i \in 1..m : p + i - 1 \in 1..n /\ p + i - 1 >= p
  BY <1>1, <1>3
<1>13. ASSUME NEW i \in 1..m PROVE F[i] = F[i - 1] + e[a[i]]
  <2>0. i \in 0..m /\ i - 1 \in 0..m /\ i # 0
    BY <1>12
  <2>1. a[i] = q[p + i - 1] /\ F[i] = C(p + i - 1) - elapsed
    BY <1>9, <2>0
  <2>2. q[p + i - 1] \in Timer /\ ~\E j \in 1..p - 1 : q[p + i - 1] = q[j]
    <3>1. \A j \in 1..p - 1 : j \in 1..n /\ j # p + i - 1
      BY <1>1, <1>3, <1>12
    <3> QED
      BY <1>1, <1>12, <3>1
  <2>3. CASE i = 1
    <3>1. p + i - 1 = p /\ p <= n /\ F[i - 1] = 0
      BY <1>3, <1>12, <2>0, <2>3
    <3>2. e[q[p]] = C(p) - elapsed
      BY <1>6, <2>2, <3>1
    <3>3. C(p) \in Int
      BY <1>1, <1>2, <1>3, <3>1
    <3> QED
      BY <2>1, <3>1, <3>2, <3>3
  <2>4. CASE i # 1
    <3>1. p + (i - 1) - 1 \in 1..n /\ p + (i - 1) - 1 = p + i - 1 - 1 /\ i - 1 # 0
      BY <1>3, <1>12, <2>0, <2>4
    <3>2. F[i - 1] = C(p + i - 1 - 1) - elapsed
      BY <2>0, <3>1
    <3>3. e[q[p + i - 1]] = d[q[p + i - 1]]
      <4>1. ~(p <= n /\ q[p + i - 1] = q[p])
        <5>1. p <= n => p \in 1..n /\ p # p + i - 1
          BY <1>1, <1>3, <2>0, <2>4
        <5> QED
          BY <1>1, <1>12, <5>1
      <4> QED
        BY <1>6, <2>2, <4>1
    <3>4. C(p + i - 1) = C(p + i - 1 - 1) + d[q[p + i - 1]]
      <4>1. p + i - 1 \in 1..n
        BY <1>12
      <4> QED
        BY <1>2, <1>3, <2>0, <4>1
    <3>5. C(p + i - 1 - 1) \in Int /\ d[q[p + i - 1]] \in Int
      <4>1. p + i - 1 - 1 \in 0..n
        BY <3>1
      <4> QED
        BY <1>1, <1>2, <1>12, <4>1
    <3> QED
      BY <2>1, <3>2, <3>3, <3>4, <3>5
  <2> QED
    BY <2>3, <2>4
<1>14. F[0] = 0
  BY <1>12
<1>15. \A i \in 0..m : Cum(a, e, i) = F[i]
  <2>1. m \in Nat /\ Len(a) = m
    BY <1>9, <1>12
  <2>2. \A i \in 1..m : F[i] = F[i - 1] + e[a[i]]
    BY <1>13
  <2> HIDE DEF F, m
  <2>3. Grows(F, a, e, m)
    BY <1>14, <2>1, <2>2 DEF Grows
  <2> QED
    BY <2>1, <2>3, CumUnique
<1>16. \A i \in 1..n : q[i] \in N <=> ~(i < p)
  <2> SUFFICES ASSUME NEW i \in 1..n PROVE q[i] \in N <=> ~(i < p)
    OBVIOUS
  <2>1. (\A x \in N : \E j \in 1..m : x = a[j]) /\ \A j \in 1..m : a[j] \in N
    <3>1. a \in Seq(N) /\ \A x \in N : \E j \in 1..Len(a) : a[j] = x
      BY <1>8 DEF Lists
    <3>2. \A j \in 1..Len(a) : a[j] \in N
      BY <3>1, ElementOfSeq
    <3> QED
      BY <1>9, <3>1, <3>2
  <2>2. ASSUME ~(i < p) PROVE q[i] \in N
    <3>1. i - p + 1 \in 1..m /\ p + (i - p + 1) - 1 = i
      BY <1>1, <1>3, <2>2
    <3>2. a[i - p + 1] = q[i]
      BY <1>9, <3>1
    <3> QED
      BY <2>1, <3>1, <3>2
  <2>3. ASSUME q[i] \in N PROVE ~(i < p)
    <3>1. PICK j \in 1..m : q[i] = a[j]
      BY <2>1, <2>3
    <3>2. q[i] = q[p + j - 1]
      BY <1>9, <3>1
    <3>3. i = p + j - 1
      BY <1>1, <1>12, <3>2
    <3> QED
      BY <1>3, <3>3
  <2> QED
    BY <2>2, <2>3
<1>17. ASSUME NEW u \in N, NEW c, Expires(q, d, u, c) PROVE Expires(a, e, u, c - elapsed)
  <2>1. PICK i \in 1..n : q[i] = u /\ C(i) = c
    BY <1>17 DEF Expires, n, C
  <2>2. ~(i < p)
    BY <1>16, <2>1
  <2>3. i - p + 1 \in 1..m /\ i - p + 1 \in 0..m /\ i - p + 1 # 0 /\ p + (i - p + 1) - 1 = i
    BY <1>1, <1>3, <2>2
  <2>4. a[i - p + 1] = q[i] /\ F[i - p + 1] = C(i) - elapsed
    BY <1>9, <2>3
  <2> QED
    BY <1>9, <1>15, <2>1, <2>3, <2>4 DEF Expires
<1>18. ASSUME NEW u \in M \ N, NEW c, Expires(q, d, u, c) PROVE c <= elapsed
  <2>1. PICK i \in 1..n : q[i] = u /\ C(i) = c
    BY <1>18 DEF Expires, n, C
  <2> QED
    BY <1>3, <1>16, <2>1
<1>19. ASSUME Sorted(q, d) PROVE Sorted(a, e)
  <2>1. ASSUME NEW i \in 1..n PROVE e[q[i]] >= 0
    <3>1. d[q[i]] >= 0 /\ d[q[i]] \in Int /\ q[i] \in Timer
      BY <1>1, <1>19 DEF Sorted, n
    <3>2. p <= n => C(p) \in Int /\ C(p) - elapsed >= 0
      BY <1>1, <1>2, <1>3, <1>4
    <3>3. \/ e[q[i]] = 0
          \/ p <= n /\ e[q[i]] = C(p) - elapsed
          \/ e[q[i]] = d[q[i]]
      BY <1>6, <3>1
    <3> QED
      BY <3>1, <3>2, <3>3
  <2> QED
    BY <1>9, <1>12, <2>1 DEF Sorted
<1> QED
  BY <1>8, <1>11, <1>17, <1>18, <1>19 DEF N, a, e

-----------------------------------------------------------------------------
(* The types. *)

\* Times, delays and counts are numbers.
NumbersOK ==
    /\ now \in 0..MaxNow /\ calls \in 0..MaxCalls
    /\ timer_start \in Int /\ timer_stop \in Int
    /\ delta \in [Timer -> Int] /\ due \in [Timer -> Int]

\* The rest of TypeOK that the first invariant does not tell.
RestOK ==
    /\ adjust \in [Timer -> BOOLEAN]
    /\ Len(deferred) <= Depth
    /\ pc = "idle" => task = Idle
    /\ stopped \subseteq Timer /\ dropped \in BOOLEAN

\* Together they are the type invariant.
LEMMA TypeFollows ==
  ASSUME IInv, NumbersOK, RestOK
  PROVE  TypeOK
<1>1. /\ timer_queue \in Seq(Timer) /\ armed \subseteq Timer /\ timer_busy \in BOOLEAN
      /\ alrb \in {"off", "on", "mute"} /\ irq \in BOOLEAN
      /\ pc \in {"idle", "run", "arm", "check", "wait", "late"}
  <2>1. timer_queue \in Seq(Timer)
    BY SeqMonotonic DEF IInv, TypeInv, Lists
  <2> QED
    BY <2>1 DEF IInv, TypeInv
<1>2. waiting \subseteq Timer \ ToSet(timer_queue)
  BY DEF IInv, TypeInv, WaitingInv, Running
<1>3. timer_events \in 0..Depth + 1
  <2>1. timer_events \in {0, 1}
    BY DEF IInv, EventsInv
  <2> QED
    BY <2>1, RtcTimerAssumption
<1>4. pc = "idle" <=> task = Idle
  <2>1. \A w \in Work : w # Idle
    BY DEF Work, TimerWork, About, Idle
  <2> QED
    BY <2>1 DEF IInv, TypeInv, RestOK
<1> QED
  BY <1>1, <1>2, <1>3, <1>4 DEF TypeOK, NumbersOK, RestOK

\* The list as the invariant knows it.
LEMMA QueueTimed ==
  ASSUME IInv, NumbersOK
  PROVE  Timed(timer_queue, Running, delta)
  BY DEF IInv, TypeInv, NumbersOK, Timed

\* The head of a list that is not empty, and its delay.
LEMMA TimedHead ==
  ASSUME NEW q, NEW M, NEW d, Timed(q, M, d), q # <<>>
  PROVE  /\ Head(q) \in M /\ Head(q) \in Timer /\ d[Head(q)] \in Int
         /\ Cum(q, d, 1) = d[Head(q)] /\ Expires(q, d, Head(q), d[Head(q)])
<1>1. Head(q) \in M /\ Head(q) = q[1] /\ Len(q) \in Nat /\ Len(q) # 0
  BY ListsHead DEF Timed
<1>2. 1 \in 1..Len(q)
  BY <1>1
<1>3. Cum(q, d, 0) = 0 /\ d[q[1]] \in Int /\ q[1] \in Timer
  BY <1>2, TimedFacts
<1>4. Cum(q, d, 1) = Cum(q, d, 0) + d[q[1]]
  <2>1. \A i \in 1..Len(q) : Cum(q, d, i) = Cum(q, d, i - 1) + d[q[i]]
    BY TimedFacts
  <2>2. Cum(q, d, 1) = Cum(q, d, 1 - 1) + d[q[1]]
    BY <1>2, <2>1
  <2>3. 1 - 1 = 0
    OBVIOUS
  <2> QED
    BY <2>2, <2>3
<1>5. Cum(q, d, 1) = d[q[1]]
  BY <1>3, <1>4
<1> QED
  BY <1>1, <1>2, <1>3, <1>5 DEF Expires

\* The alarm is set for the first timer, or sooner.
LEMMA AlarmTimes ==
  ASSUME NEW M, Timed(timer_queue', M, delta'), timer_queue' # <<>>,
         NEW start \in Int, Alarm(start)
  PROVE  /\ timer_start' = start /\ timer_stop' \in Int
         /\ timer_stop' <= start + delta'[Head(timer_queue')]
<1> DEFINE head == delta'[Head(timer_queue')]
<1>1. head \in Int
  BY TimedHead
<1>2. /\ timer_start' = start
      /\ timer_stop' = start + (IF head > MaxDelta THEN MaxDelta ELSE head)
  BY DEF Alarm
<1> HIDE DEF head
<1>3. MaxDelta \in Int
  BY RtcTimerAssumption
<1>4. timer_stop' \in Int /\ timer_stop' <= start + head
  BY <1>1, <1>2, <1>3
<1> QED
  BY <1>2, <1>4 DEF head

\* A linked timer is the first, or the first stays.
LEMMA LinkHead ==
  ASSUME NEW q, NEW M, NEW d, Timed(q, M, d), NEW t \in Timer, t \notin M, NEW after \in Int
  PROVE  LET l == Link(q, d, t, after)
         IN  l.queue # <<>> /\ (Head(l.queue) = t \/ (q # <<>> /\ Head(l.queue) = Head(q)))
<1> DEFINE p == Later(q, d, after)
           a == Link(q, d, t, after).queue
<1>1. p \in 1..Len(q) + 1
  BY LaterIsLater
<1>2. a = InsertAt(q, p, t)
  BY DEF Link
<1>3. Lists(q, M)
  BY DEF Timed
<1> HIDE DEF p, a
<1>4. Head(a) = t \/ (q # <<>> /\ Head(a) = Head(q))
  <2>1. \/ Head(InsertAt(q, p, t)) = t
        \/ q # <<>> /\ Head(InsertAt(q, p, t)) = Head(q)
    BY <1>1, <1>3, InsertLists, Zenon
  <2> QED
    BY <1>2, <2>1
<1>5. a # <<>>
  <2>1. Lists(a, M \union {t})
    BY <1>3, LinkFacts DEF a
  <2> QED
    BY <2>1, ListsHead
<1> QED
  BY <1>4, <1>5 DEF a

\* stm32l0_rtc_timer_insert: the timer is to expire when asked, the others when
\* they were; what is known of the first timer of the list.
LEMMA InsertTimes ==
  ASSUME IInv, NumbersOK, NEW t \in Timer, NEW at \in Nat, NEW absolute, Insert(t, at, absolute)
  PROVE  /\ Timed(timer_queue', Running \union {t}, delta') /\ due' \in [Timer -> Int]
         /\ timer_start' \in Int /\ timer_stop' \in Int
         /\ timer_start' \in {now, timer_start}
         /\ due'[t] \in Nat /\ due'[t] >= now /\ \A u \in Timer \ {t} : due'[u] = due[u]
         /\ Expires(timer_queue', delta', t, due'[t] - timer_start')
         /\ \A u \in Running \ {t} : timer_start' = timer_start
         /\ \A u \in Running \ {t} : \A c :
               Expires(timer_queue, delta, u, c) => Expires(timer_queue', delta', u, c)
         /\ Sorted(timer_queue, delta) /\ timer_start <= now => Sorted(timer_queue', delta')
         /\ timer_queue' # <<>>
         /\ Head(timer_queue') # t => timer_queue # <<>> /\ Head(timer_queue') \in Running
         /\ Head(timer_queue') # t /\ Sorted(timer_queue, delta) =>
               \E c \in Int : /\ Cum(timer_queue, delta, 1) <= c
                              /\ Expires(timer_queue, delta, Head(timer_queue'), c)
         /\ Head(timer_queue') = t /\ timer_events = 0 =>
               timer_stop' <= timer_start' + delta'[Head(timer_queue')]
<1> DEFINE old == IF t \in Running THEN Unlink(timer_queue, delta, t)
                  ELSE [queue |-> timer_queue, delta |-> delta]
           start == IF old.queue = <<>> THEN now ELSE timer_start
           ticks == IF ~absolute THEN at ELSE IF at <= now THEN 0 ELSE at - now
           after == now - start + ticks
           l == Link(old.queue, old.delta, t, after)
           M == Running \ {t}
<1>1. now \in Nat /\ timer_start \in Int /\ timer_stop \in Int /\ due \in [Timer -> Int]
  BY RtcTimerAssumption DEF NumbersOK
<1>2. Timed(timer_queue, Running, delta)
  BY QueueTimed
<1>3. ticks \in Nat
  BY <1>1
<1>4. start \in Int /\ start \in {now, timer_start}
  BY <1>1
<1>5. timer_queue' = l.queue /\ delta' = l.delta /\ due' = [due EXCEPT ![t] = now + ticks]
  BY DEF Insert, NewList, Running
<1>6. timer_start' = start
  BY DEF Insert, Alarm, Running
<1>7. Head(timer_queue') = t /\ timer_events = 0 => Alarm(start)
  BY DEF Insert, Running
<1>8. ~(Head(timer_queue') = t /\ timer_events = 0) => timer_stop' = timer_stop
  BY DEF Insert, Running
<1>9. Timed(old.queue, M, old.delta)
  <2>1. CASE t \in Running
    BY <1>2, <2>1, UnlinkSums
  <2>2. CASE t \notin Running
    <3>1. M = Running /\ old.queue = timer_queue /\ old.delta = delta
      BY <2>2
    <3> QED
      BY <1>2, <3>1
  <2> QED
    BY <2>1, <2>2
<1>10. ASSUME NEW u \in M, NEW c, Expires(timer_queue, delta, u, c)
       PROVE  Expires(old.queue, old.delta, u, c)
  <2>1. CASE t \in Running
    <3>1. u # t
      OBVIOUS
    <3> QED
      BY <1>2, <1>10, <2>1, <3>1, UnlinkSums
  <2>2. CASE t \notin Running
    BY <1>10, <2>2
  <2> QED
    BY <2>1, <2>2
<1>11. Sorted(timer_queue, delta) => Sorted(old.queue, old.delta)
  <2>1. CASE t \in Running
    BY <1>2, <2>1, UnlinkSums
  <2>2. CASE t \notin Running
    BY <2>2
  <2> QED
    BY <2>1, <2>2
<1>12. old.queue # <<>> => timer_queue # <<>>
  <2>1. CASE t \in Running
    BY <1>2, <2>1, ListsHead DEF Timed
  <2>2. CASE t \notin Running
    BY <2>2
  <2> QED
    BY <2>1, <2>2
<1>13. old.queue # <<>> /\ Sorted(timer_queue, delta) =>
          \E c \in Int : /\ Cum(timer_queue, delta, 1) <= c
                         /\ Expires(timer_queue, delta, Head(old.queue), c)
  <2>1. CASE t \in Running
    BY <1>2, <2>1, UnlinkSums
  <2>2. CASE t \notin Running
    <3> SUFFICES ASSUME timer_queue # <<>>
                 PROVE  \E c \in Int : /\ Cum(timer_queue, delta, 1) <= c
                                       /\ Expires(timer_queue, delta, Head(timer_queue), c)
      BY <2>2
    <3> DEFINE c == delta[Head(timer_queue)]
    <3>1. c \in Int /\ Cum(timer_queue, delta, 1) = c
      BY <1>2, TimedHead
    <3>2. Expires(timer_queue, delta, Head(timer_queue), c)
      BY <1>2, TimedHead
    <3> HIDE DEF c
    <3>3. Cum(timer_queue, delta, 1) <= c
      BY <3>1
    <3> QED
      BY <3>1, <3>2, <3>3
  <2> QED
    BY <2>1, <2>2
<1>14. after \in Int /\ (start <= now => after >= 0)
  BY <1>1, <1>3, <1>4
<1>15. start + after = now + ticks
  BY <1>1, <1>3, <1>4
<1>16. old.queue # <<>> => start = timer_start
  OBVIOUS
<1>17. old.queue = <<>> => start = now
  OBVIOUS
<1>18. M # {} => old.queue # <<>>
  BY <1>9, ListsHead DEF Timed
<1> HIDE DEF old, start, ticks, after
<1>19. t \notin M /\ M \union {t} = Running \union {t}
  OBVIOUS
<1>20. Timed(l.queue, M \union {t}, l.delta)
  BY <1>9, <1>14, <1>19, LinkSums
<1>21. Expires(l.queue, l.delta, t, after)
  BY <1>9, <1>14, <1>19, LinkSums
<1>22. \A u, c : Expires(old.queue, old.delta, u, c) => Expires(l.queue, l.delta, u, c)
  BY <1>9, <1>14, <1>19, LinkSums
<1>23. Sorted(old.queue, old.delta) /\ after >= 0 => Sorted(l.queue, l.delta)
  BY <1>9, <1>14, <1>19, LinkSums
<1>24. /\ l.queue # <<>>
       /\ Head(l.queue) = t \/ (old.queue # <<>> /\ Head(l.queue) = Head(old.queue))
  BY <1>9, <1>14, <1>19, LinkHead
<1> HIDE DEF l, M
<1>25. due'[t] = now + ticks /\ \A u \in Timer \ {t} : due'[u] = due[u]
  BY <1>1, <1>5
<1>26. due'[t] \in Nat /\ due'[t] >= now /\ due' \in [Timer -> Int]
  BY <1>1, <1>3, <1>5
<1>27. after = due'[t] - timer_start'
  BY <1>4, <1>6, <1>14, <1>15, <1>25
<1>28. Timed(timer_queue', Running \union {t}, delta') /\ timer_queue' # <<>>
  BY <1>5, <1>19, <1>20, <1>24
<1>29. /\ timer_stop' \in Int
       /\ Head(timer_queue') = t /\ timer_events = 0 =>
               timer_stop' <= timer_start' + delta'[Head(timer_queue')]
  <2>1. CASE Head(timer_queue') = t /\ timer_events = 0
    <3>1. Alarm(start)
      BY <1>7, <2>1
    <3> QED
      BY <1>4, <1>28, <3>1, AlarmTimes
  <2>2. CASE ~(Head(timer_queue') = t /\ timer_events = 0)
    BY <1>1, <1>8, <2>2
  <2> QED
    BY <2>1, <2>2
<1>30. Expires(timer_queue', delta', t, due'[t] - timer_start')
  BY <1>5, <1>21, <1>27
<1>31. \A u \in M : timer_start' = timer_start
  BY <1>6, <1>16, <1>18
<1>32. \A u \in M : \A c :
          Expires(timer_queue, delta, u, c) => Expires(timer_queue', delta', u, c)
  BY <1>5, <1>10, <1>22
<1>33. Sorted(timer_queue, delta) /\ timer_start <= now => Sorted(timer_queue', delta')
  <2>1. timer_start <= now => start <= now
    BY <1>1, <1>4
  <2> QED
    BY <1>5, <1>11, <1>14, <1>23, <2>1
<1>34. Head(timer_queue') # t => old.queue # <<>> /\ Head(timer_queue') = Head(old.queue)
  BY <1>5, <1>24
<1>35. old.queue # <<>> => Head(old.queue) \in Running
  <2>1. old.queue # <<>> => Head(old.queue) \in M
    BY <1>9, ListsHead DEF Timed
  <2> QED
    BY <2>1 DEF M
<1>36. Head(timer_queue') # t => timer_queue # <<>> /\ Head(timer_queue') \in Running
  BY <1>12, <1>34, <1>35
<1>37. Head(timer_queue') # t /\ Sorted(timer_queue, delta) =>
               \E c \in Int : /\ Cum(timer_queue, delta, 1) <= c
                              /\ Expires(timer_queue, delta, Head(timer_queue'), c)
  BY <1>13, <1>34
<1>38. timer_start' \in Int /\ timer_start' \in {now, timer_start}
  BY <1>4, <1>6
<1> QED
  BY <1>25, <1>26, <1>28, <1>29, <1>30, <1>31, <1>32, <1>33, <1>36, <1>37, <1>38 DEF M

\* stm32l0_rtc_timer_routine: the timers that are left expire when they were to,
\* those that leave were due when the alarm went off.
LEMMA RoutineTimes ==
  ASSUME IInv, NumbersOK, Routine, timer_events = 1, timer_busy
  PROVE  /\ Timed(timer_queue', Running', delta') /\ Running' \subseteq Running
         /\ timer_start' \in Int /\ timer_stop' \in Int
         /\ timer_start' \in {timer_start, timer_stop}
         /\ \A u \in Running' : timer_start' = timer_stop
         /\ \A u \in Running' : \A c \in Int :
               Expires(timer_queue, delta, u, c - timer_start) =>
                  Expires(timer_queue', delta', u, c - timer_start')
         /\ \A u \in Running \ Running' : \A c \in Int :
               Expires(timer_queue, delta, u, c - timer_start) => c <= timer_stop
         /\ Sorted(timer_queue, delta) => Sorted(timer_queue', delta')
         /\ timer_queue' # <<>> =>
               timer_stop' <= timer_start' + delta'[Head(timer_queue')]
<1> DEFINE elapsed == timer_stop - timer_start
           l == Expire(timer_queue, delta, elapsed)
<1>1. timer_start \in Int /\ timer_stop \in Int /\ elapsed \in Int
  BY DEF NumbersOK
<1>2. Timed(timer_queue, Running, delta)
  BY QueueTimed
<1>3. timer_queue' = l.queue /\ delta' = l.delta
  BY DEF Routine, NewList
<1>4. timer_queue' # <<>> => Alarm(timer_stop)
  BY DEF Routine
<1>5. timer_queue' = <<>> => UNCHANGED <<timer_start, timer_stop>>
  BY DEF Routine
<1> HIDE DEF elapsed, l
<1>6. Timed(l.queue, ToSet(l.queue), l.delta) /\ ToSet(l.queue) \subseteq Running
  BY <1>1, <1>2, ExpireSums DEF l
<1>7. \A u \in ToSet(l.queue) : \A c :
         Expires(timer_queue, delta, u, c) => Expires(l.queue, l.delta, u, c - elapsed)
  BY <1>1, <1>2, ExpireSums DEF l
<1>8. \A u \in Running \ ToSet(l.queue) : \A c :
         Expires(timer_queue, delta, u, c) => c <= elapsed
  BY <1>1, <1>2, ExpireSums DEF l
<1>9. Sorted(timer_queue, delta) => Sorted(l.queue, l.delta)
  BY <1>1, <1>2, ExpireSums DEF l
<1>10. Running' = ToSet(l.queue)
  BY <1>3 DEF Running
<1>11. Timed(timer_queue', Running', delta') /\ Running' \subseteq Running
  BY <1>3, <1>6, <1>10
<1>12. timer_queue' # <<>> =>
          /\ timer_start' = timer_stop /\ timer_stop' \in Int
          /\ timer_stop' <= timer_start' + delta'[Head(timer_queue')]
  <2> SUFFICES ASSUME timer_queue' # <<>>
               PROVE  /\ timer_start' = timer_stop /\ timer_stop' \in Int
                      /\ timer_stop' <= timer_start' + delta'[Head(timer_queue')]
    OBVIOUS
  <2>1. Alarm(timer_stop)
    BY <1>4
  <2>2. timer_start' = timer_stop /\ timer_stop' \in Int
    BY <1>1, <1>11, <2>1, AlarmTimes
  <2>3. timer_stop' <= timer_stop + delta'[Head(timer_queue')]
    BY <1>1, <1>11, <2>1, AlarmTimes
  <2> QED
    BY <2>2, <2>3
<1>13. /\ timer_start' \in Int /\ timer_stop' \in Int
       /\ timer_start' \in {timer_start, timer_stop}
  BY <1>1, <1>5, <1>12
<1>14. \A u \in Running' : timer_start' = timer_stop
  <2>1. Running' # {} => timer_queue' # <<>>
    BY <1>11, ListsHead DEF Timed
  <2> QED
    BY <1>12, <2>1
<1>15. ASSUME NEW u \in Running', NEW c \in Int, Expires(timer_queue, delta, u, c - timer_start)
       PROVE  Expires(timer_queue', delta', u, c - timer_start')
  <2>1. Expires(l.queue, l.delta, u, (c - timer_start) - elapsed)
    BY <1>7, <1>10, <1>15
  <2>2. (c - timer_start) - elapsed = c - timer_start'
    BY <1>1, <1>14 DEF elapsed
  <2> QED
    BY <1>3, <2>1, <2>2
<1>16. ASSUME NEW u \in Running \ Running', NEW c \in Int,
              Expires(timer_queue, delta, u, c - timer_start)
       PROVE  c <= timer_stop
  <2>1. c - timer_start <= elapsed
    BY <1>8, <1>10, <1>16
  <2> QED
    BY <1>1, <2>1 DEF elapsed
<1>17. Sorted(timer_queue, delta) => Sorted(timer_queue', delta')
  BY <1>3, <1>9
<1> QED
  BY <1>11, <1>12, <1>13, <1>14, <1>15, <1>16, <1>17

\* Alarm B is on, the alarm is looked at, and its routine waits or runs, only
\* while timer_busy is set.
BusyInv ==
    timer_events # 0 \/ alrb # "off" \/ pc \in {"check", "wait", "late"} => timer_busy

TInv == NumbersOK /\ RestOK /\ BusyInv

\* Steps that leave the list and the times alone.
LEMMA KeepsNumbers ==
  ASSUME TInv, UNCHANGED <<delta, due, timer_start, timer_stop, adjust>>,
         now' \in 0..MaxNow, calls' \in 0..MaxCalls, Len(deferred') <= Depth,
         pc' = "idle" => task' = Idle, stopped' \subseteq Timer, dropped' \in BOOLEAN, BusyInv'
  PROVE  TInv'
<1>1. NumbersOK'
  BY DEF TInv, NumbersOK
<1>2. RestOK'
  BY DEF TInv, RestOK
<1> QED
  BY <1>1, <1>2 DEF TInv

\* The alarm's steps and the clock's.
LEMMA ArmTypes ==
  ASSUME IInv, TInv, Arm
  PROVE  TInv'
<1>1. /\ pc = "arm"
      /\ UNCHANGED <<delta, due, timer_start, timer_stop, adjust, now, calls, deferred, stopped,
                     dropped, timer_events>>
  BY DEF Arm, list
<1>2. \/ timer_busy' /\ pc' = "check"
      \/ ~timer_busy' /\ pc' = "idle" /\ task' = Idle /\ UNCHANGED <<timer_busy, alrb>>
  BY DEF Arm, Done
<1>3. BusyInv'
  BY <1>1, <1>2 DEF TInv, BusyInv
<1>4. /\ now \in 0..MaxNow /\ calls \in 0..MaxCalls /\ Len(deferred) <= Depth
      /\ stopped \subseteq Timer /\ dropped \in BOOLEAN
  BY DEF TInv, NumbersOK, RestOK
<1> QED
  BY <1>1, <1>2, <1>3, <1>4, KeepsNumbers

\* The look at the clock, and the wait for a near alarm.
LEMMA CheckTypes ==
  ASSUME IInv, TInv, Check \/ Wait
  PROVE  TInv'
<1>1. /\ pc \in {"check", "wait"}
      /\ UNCHANGED <<delta, due, timer_start, timer_stop, adjust, now, calls, deferred, stopped,
                     dropped, timer_events, timer_busy, alrb>>
  BY DEF Check, Wait, list, alarm
<1>2. pc' \in {"wait", "late"} \/ (pc' = "idle" /\ task' = Idle)
  BY DEF Check, Wait, Done
<1>3. BusyInv'
  BY <1>1, <1>2 DEF TInv, BusyInv
<1>4. /\ now \in 0..MaxNow /\ calls \in 0..MaxCalls /\ Len(deferred) <= Depth
      /\ stopped \subseteq Timer /\ dropped \in BOOLEAN
  BY DEF TInv, NumbersOK, RestOK
<1> QED
  BY <1>1, <1>2, <1>3, <1>4, KeepsNumbers

\* The routine is enqueued if there is room for it.
LEMMA EnqueueTypes ==
  ASSUME IInv, TInv, EnqueueRoutine
  PROVE  Len(deferred') <= Depth /\ dropped' \in BOOLEAN
<1>1. deferred \in Seq(Work) /\ dropped \in BOOLEAN /\ Len(deferred) <= Depth
  BY DEF IInv, TypeInv, TInv, RestOK
<1>2. CASE Room(1)
  <2> DEFINE w == [Idle EXCEPT !.kind = "routine"]
  <2>1. w \in Work /\ deferred' = Append(deferred, w) /\ dropped' = dropped
    BY <1>2 DEF EnqueueRoutine, Work
  <2> HIDE DEF w
  <2>2. Len(Append(deferred, w)) = Len(deferred) + 1
    BY <1>1, <2>1, AppendFacts
  <2> QED
    BY <1>1, <1>2, <2>1, <2>2 DEF Room
<1>3. CASE ~Room(1)
  BY <1>1, <1>3 DEF EnqueueRoutine
<1> QED
  BY <1>2, <1>3

\* The alarm has gone off.
LEMMA LateTypes ==
  ASSUME IInv, TInv, Late \/ RtcIrq
  PROVE  TInv'
<1>1. /\ UNCHANGED <<delta, due, timer_start, timer_stop, adjust, now, calls, stopped, timer_busy>>
      /\ EnqueueRoutine \/ UNCHANGED <<deferred, timer_events, dropped>>
      /\ alrb' = "off"
  BY DEF Late, RtcIrq, list
<1>2. (pc' = "idle" /\ task' = Idle) \/ UNCHANGED <<pc, task>>
  BY DEF Late, RtcIrq, Done
<1>3. /\ now \in 0..MaxNow /\ calls \in 0..MaxCalls /\ Len(deferred) <= Depth
      /\ stopped \subseteq Timer /\ dropped \in BOOLEAN /\ (pc = "idle" => task = Idle)
  BY DEF TInv, NumbersOK, RestOK
<1>4. Len(deferred') <= Depth /\ dropped' \in BOOLEAN
  BY <1>1, <1>3, EnqueueTypes
<1>5. BusyInv'
  <2>1. CASE Late
    BY <1>1, <1>2, <2>1 DEF TInv, BusyInv, Late
  <2>2. CASE RtcIrq
    <3>1. UNCHANGED pc /\ (timer_busy \/ UNCHANGED timer_events)
      BY <2>2 DEF RtcIrq
    <3> QED
      BY <1>1, <3>1 DEF TInv, BusyInv
  <2> QED
    BY <2>1, <2>2
<1> QED
  BY <1>1, <1>2, <1>3, <1>4, <1>5, KeepsNumbers

\* Time passes.
LEMMA TickTypes ==
  ASSUME IInv, TInv, Tick
  PROVE  TInv'
<1>1. UNCHANGED <<delta, due, timer_start, timer_stop, adjust, calls, stopped, timer_busy,
                  deferred, dropped, timer_events, alrb, pc, task>>
  BY DEF Tick, list, alarm
<1>2. now' \in 0..MaxNow
  BY RtcTimerAssumption DEF Tick, TInv, NumbersOK
<1>3. BusyInv'
  BY <1>1 DEF TInv, BusyInv
<1>4. /\ calls \in 0..MaxCalls /\ Len(deferred) <= Depth
      /\ stopped \subseteq Timer /\ dropped \in BOOLEAN /\ (pc = "idle" => task = Idle)
  BY DEF TInv, NumbersOK, RestOK
<1> QED
  BY <1>1, <1>2, <1>3, <1>4, KeepsNumbers

\* PendSV takes the oldest call.
LEMMA TakeTypes ==
  ASSUME IInv, TInv, Take
  PROVE  TInv'
<1>1. /\ UNCHANGED <<delta, due, timer_start, timer_stop, adjust, calls, stopped, timer_busy,
                     dropped, timer_events, alrb, now>>
      /\ pc' = "run" /\ deferred # <<>> /\ deferred' = Tail(deferred)
  BY DEF Take, list, alarm
<1>2. BusyInv'
  BY <1>1 DEF TInv, BusyInv
<1>3. /\ now \in 0..MaxNow /\ calls \in 0..MaxCalls /\ Len(deferred) <= Depth
      /\ stopped \subseteq Timer /\ dropped \in BOOLEAN
  BY DEF TInv, NumbersOK, RestOK
<1>4. Len(deferred') <= Depth
  <2>1. deferred \in Seq(Work)
    BY DEF IInv, TypeInv
  <2>2. Len(deferred') = Len(deferred) - 1 /\ Len(deferred) \in Nat
    BY <1>1, <2>1, HeadTailProperties, LenProperties
  <2> QED
    BY <1>3, <2>2, RtcTimerAssumption
<1> QED
  BY <1>1, <1>2, <1>3, <1>4, KeepsNumbers

\* The callers in thread mode.
LEMMA SvcTypes ==
  ASSUME IInv, TInv, NEW t \in Timer,
         (\E r \in Request : SvcStart(t, r)) \/ SvcStop(t) \/ SvcDestroy(t)
  PROVE  TInv'
<1>1. /\ UNCHANGED <<delta, due, timer_start, timer_stop, adjust, deferred, timer_busy,
                     dropped, timer_events, alrb, now>>
      /\ pc' = "run" /\ calls < MaxCalls /\ calls' = calls + 1
      /\ stopped' \in {stopped, stopped \ {t}, stopped \union {t}}
  BY DEF SvcStart, SvcStop, SvcDestroy, Call, list, alarm
<1>2. BusyInv'
  BY <1>1 DEF TInv, BusyInv
<1>3. /\ now \in 0..MaxNow /\ calls \in 0..MaxCalls /\ Len(deferred) <= Depth
      /\ stopped \subseteq Timer /\ dropped \in BOOLEAN
  BY DEF TInv, NumbersOK, RestOK
<1>4. calls' \in 0..MaxCalls /\ stopped' \subseteq Timer
  BY <1>1, <1>3, RtcTimerAssumption
<1> QED
  BY <1>1, <1>2, <1>3, <1>4, KeepsNumbers

\* The callers in handlers.
LEMMA IsrTypes ==
  ASSUME IInv, TInv, NEW t \in Timer,
         (\E r \in Request : IsrStart(t, r)) \/ IsrStop(t) \/ IsrDestroy(t)
  PROVE  TInv'
<1>1. /\ UNCHANGED <<delta, due, timer_start, timer_stop, adjust, timer_busy,
                     dropped, timer_events, alrb, now, pc, task>>
      /\ calls < MaxCalls /\ calls' = calls + 1
      /\ stopped' \in {stopped, stopped \ {t}, stopped \union {t}}
  BY DEF IsrStart, IsrStop, IsrDestroy, Call, list, alarm
<1>2. BusyInv'
  BY <1>1 DEF TInv, BusyInv
<1>3. /\ now \in 0..MaxNow /\ calls \in 0..MaxCalls /\ Len(deferred) <= Depth
      /\ stopped \subseteq Timer /\ dropped \in BOOLEAN /\ (pc = "idle" => task = Idle)
  BY DEF TInv, NumbersOK, RestOK
<1>4. calls' \in 0..MaxCalls /\ stopped' \subseteq Timer
  BY <1>1, <1>3, RtcTimerAssumption
<1>5. deferred \in Seq(Work) /\ Len(deferred) \in Nat
  BY LenProperties DEF IInv, TypeInv
<1>6. Len(deferred') <= Depth
  <2>1. CASE \E r \in Request : IsrStart(t, r)
    <3>1. PICK r \in Request : IsrStart(t, r)
      BY <2>1
    <3>2. \E f, g : deferred' = deferred \o (IF Room(2) THEN <<f, g>>
                                             ELSE IF Room(1) THEN <<f>> ELSE <<>>)
      BY <3>1 DEF IsrStart
    <3>3. PICK f, g : deferred' = deferred \o (IF Room(2) THEN <<f, g>>
                                               ELSE IF Room(1) THEN <<f>> ELSE <<>>)
      BY <3>2
    <3>4. Len(deferred \o <<f, g>>) = Len(deferred) + 2
      BY <1>5
    <3>5. Len(deferred \o <<f>>) = Len(deferred) + 1
      BY <1>5
    <3>6. Len(deferred \o <<>>) = Len(deferred)
      BY <1>5
    <3> QED
      BY <1>3, <1>5, <3>3, <3>4, <3>5, <3>6 DEF Room
  <2>2. CASE IsrStop(t) \/ IsrDestroy(t)
    <3>1. \/ deferred' = deferred
          \/ Room(1) /\ \E w : deferred' = Append(deferred, w)
      BY <2>2 DEF IsrStop, IsrDestroy
    <3>2. \A w : Len(Append(deferred, w)) = Len(deferred) + 1
      BY <1>5
    <3> QED
      BY <1>3, <1>5, <3>1, <3>2 DEF Room
  <2> QED
    BY <2>1, <2>2
<1> QED
  BY <1>1, <1>2, <1>3, <1>4, <1>6, KeepsNumbers

\* The routines of timers and of the alarm.
LEMMA RunTypes ==
  ASSUME IInv, TInv, Run
  PROVE  TInv'
<1>1. /\ pc = "run" /\ task \in Work
      /\ UNCHANGED <<now, deferred, calls, stopped, dropped>>
  BY DEF Run, IInv, TypeInv
<1>2. /\ now \in 0..MaxNow /\ calls \in 0..MaxCalls /\ Len(deferred) <= Depth
      /\ stopped \subseteq Timer /\ dropped \in BOOLEAN /\ NumbersOK /\ BusyInv
      /\ adjust \in [Timer -> BOOLEAN] /\ delta \in [Timer -> Int] /\ due \in [Timer -> Int]
      /\ timer_start \in Int /\ timer_stop \in Int
  BY DEF TInv, NumbersOK, RestOK
<1>3. SUFFICES /\ timer_start' \in Int /\ timer_stop' \in Int /\ delta' \in [Timer -> Int]
               /\ due' \in [Timer -> Int] /\ adjust' \in [Timer -> BOOLEAN]
               /\ pc' = "arm" \/ (pc' = "idle" /\ task' = Idle)
               /\ alrb' = "off" \/ UNCHANGED alrb
               /\ UNCHANGED <<timer_events, timer_busy>> \/ (timer_events' = 0 /\ alrb' = "off")
  <2>1. NumbersOK'
    BY <1>1, <1>2, <1>3 DEF NumbersOK
  <2>2. RestOK'
    BY <1>1, <1>2, <1>3 DEF RestOK
  <2>3. BusyInv'
    BY <1>2, <1>3 DEF BusyInv
  <2> QED
    BY <2>1, <2>2, <2>3 DEF TInv
<1>4. ASSUME NEW t \in Timer, NEW at \in Nat, NEW absolute, Insert(t, at, absolute)
      PROVE  /\ timer_start' \in Int /\ timer_stop' \in Int /\ delta' \in [Timer -> Int]
             /\ due' \in [Timer -> Int] /\ adjust' \in [Timer -> BOOLEAN]
             /\ pc' = "arm" \/ (pc' = "idle" /\ task' = Idle)
             /\ alrb' = "off" \/ UNCHANGED alrb
             /\ UNCHANGED <<timer_events, timer_busy>>
  <2>1. timer_start' \in Int /\ timer_stop' \in Int /\ due' \in [Timer -> Int]
    BY <1>2, <1>4, InsertTimes
  <2>2. Timed(timer_queue', Running \union {t}, delta')
    BY <1>2, <1>4, InsertTimes
  <2>3. /\ UNCHANGED <<adjust, timer_events, timer_busy>>
        /\ alrb' = "off" \/ UNCHANGED alrb
        /\ pc' = "arm" \/ (pc' = "idle" /\ task' = Idle)
    BY <1>4 DEF Insert, Alarm, Done
  <2> QED
    BY <1>2, <2>1, <2>2, <2>3 DEF Timed
<1>5. CASE task.kind = "routine"
  <2>1. Routine
    BY <1>5 DEF Run
  <2>2. timer_events = 1 /\ alrb = "off"
    BY <1>1, <1>5 DEF IInv, EventsInv, AlarmInv, RoutineRunning
  <2>3. timer_busy
    BY <1>2, <2>2 DEF BusyInv
  <2>4. timer_start' \in Int /\ timer_stop' \in Int /\ Timed(timer_queue', Running', delta')
    BY <1>2, <2>1, <2>2, <2>3, RoutineTimes
  <2>5. /\ UNCHANGED <<adjust, alrb, due>> /\ timer_events' = timer_events - 1
        /\ pc' = "arm" \/ (pc' = "idle" /\ task' = Idle)
    BY <2>1 DEF Routine, Alarm, Done
  <2>6. timer_events' = 0
    BY <2>2, <2>5
  <2> QED
    BY <1>2, <2>2, <2>4, <2>5, <2>6 DEF Timed
<1>6. CASE task.kind # "routine"
  <2>1. /\ task.kind \in About /\ task.timer \in Timer /\ task.at \in Nat
        /\ task.absolute \in BOOLEAN
    BY <1>1, <1>6 DEF Work, TimerWork, Idle
  <2>2. CASE task.kind = "insert_1"
    <3>1. InsertAdjust(task.timer, task.absolute)
      BY <2>2 DEF Run
    <3>2. /\ UNCHANGED <<timer_queue, delta, alarm, timer_events, due>>
          /\ adjust' = [adjust EXCEPT ![task.timer] = task.absolute]
          /\ pc' = "idle" /\ task' = Idle
      BY <3>1 DEF InsertAdjust, Done
    <3>3. adjust' \in [Timer -> BOOLEAN]
      BY <1>2, <2>1, <3>2
    <3> QED
      BY <1>2, <3>2, <3>3 DEF alarm
  <2>3. CASE task.kind = "insert_2"
    <3>1. Insert(task.timer, task.at, adjust[task.timer])
      BY <2>3 DEF Run
    <3> QED
      BY <1>4, <2>1, <3>1
  <2>4. CASE task.kind = "insert"
    <3>1. Insert(task.timer, task.at, task.absolute)
      BY <2>4 DEF Run
    <3> QED
      BY <1>4, <2>1, <3>1
  <2>5. CASE task.kind \in {"remove", "release"}
    <3> DEFINE t == task.timer
    <3>1. RemoveTimer(t)
      BY <2>5 DEF Run
    <3>2. /\ UNCHANGED <<adjust, timer_events, timer_busy, due>>
          /\ alrb' = "off" \/ UNCHANGED alrb
          /\ pc' = "arm" \/ (pc' = "idle" /\ task' = Idle)
      BY <3>1 DEF RemoveTimer, Alarm, Done
    <3>3. CASE t \in Running
      <4>1. delta' = UnlinkRemoved(timer_queue, delta, t).delta
        BY <3>1, <3>3 DEF RemoveTimer, NewList, Running
      <4>2. delta' \in [Timer -> Int]
        <5> DEFINE k == SelectInSeq(timer_queue, LAMBDA u : u = t)
        <5>1. delta' = [u \in Timer |-> IF u = t THEN 0
                                        ELSE IF k < Len(timer_queue) /\ u = timer_queue[k + 1]
                                             THEN delta[u] - delta[t] ELSE delta[u]]
          BY <4>1 DEF UnlinkRemoved
        <5> HIDE DEF k, t
        <5>2. delta \in [Timer -> Int] /\ t \in Timer
          BY <1>2, <2>1 DEF t
        <5> QED
          BY <5>1, <5>2
      <4>3. (Alarm(timer_start) /\ timer_queue' # <<>>) \/ UNCHANGED <<timer_start, timer_stop>>
        BY <3>1 DEF RemoveTimer
      <4>4. timer_start' \in Int /\ timer_stop' \in Int
        <5>1. CASE Alarm(timer_start) /\ timer_queue' # <<>>
          <6>1. Timed(timer_queue', Running \ {t}, delta')
            <7>1. timer_queue' = UnlinkRemoved(timer_queue, delta, t).queue
              BY <3>1, <3>3 DEF RemoveTimer, NewList, Running
            <7>2. Lists(timer_queue, Running) /\ Running \subseteq Timer
              BY DEF IInv, TypeInv
            <7>3. Lists(timer_queue', Running \ {t})
              BY <3>3, <7>1, <7>2, UnlinkFacts
            <7> QED
              BY <4>2, <7>2, <7>3 DEF Timed
          <6> QED
            BY <1>2, <5>1, <6>1, AlarmTimes
        <5>2. CASE UNCHANGED <<timer_start, timer_stop>>
          BY <1>2, <5>2
        <5> QED
          BY <4>3, <5>1, <5>2
      <4> QED
        BY <1>2, <3>2, <4>2, <4>4
    <3>4. CASE t \notin Running
      <4>1. UNCHANGED <<delta, timer_start, timer_stop>>
        BY <3>1, <3>4 DEF RemoveTimer, Running
      <4> QED
        BY <1>2, <3>2, <4>1
    <3> QED
      BY <3>3, <3>4
  <2> QED
    BY <2>1, <2>2, <2>3, <2>4, <2>5 DEF About
<1> QED
  BY <1>5, <1>6

\* The types hold at reset.
LEMMA InitTypes == Init => TInv
<1> SUFFICES ASSUME Init PROVE TInv
  OBVIOUS
<1>1. NumbersOK
  BY RtcTimerAssumption DEF Init, NumbersOK
<1>2. RestOK
  <2>1. adjust = [t \in Timer |-> FALSE]
    BY DEF Init
  <2>2. adjust \in [Timer -> BOOLEAN]
    BY <2>1, Zenon
  <2>3. (pc = "idle" => task = Idle) /\ stopped \subseteq Timer /\ dropped \in BOOLEAN
    BY DEF Init
  <2>4. Len(deferred) <= Depth
    <3>1. deferred = <<>>
      BY DEF Init
    <3> QED
      BY <3>1, RtcTimerAssumption
  <2> QED
    BY <2>2, <2>3, <2>4 DEF RestOK
<1>3. BusyInv
  BY DEF Init, BusyInv
<1> QED
  BY <1>1, <1>2, <1>3 DEF TInv

\* Every step keeps the types.
LEMMA NextTypes == IInv /\ TInv /\ [Next]_vars => TInv'
<1> SUFFICES ASSUME IInv, TInv, [Next]_vars PROVE TInv'
  OBVIOUS
<1>1. ASSUME NEW t \in Timer, NEW r \in Request, SvcStart(t, r) \/ IsrStart(t, r) PROVE TInv'
  BY <1>1, SvcTypes, IsrTypes
<1>2. ASSUME NEW t \in Stops, SvcStop(t) \/ IsrStop(t) \/ SvcDestroy(t) \/ IsrDestroy(t)
      PROVE  TInv'
  <2>1. t \in Timer
    BY RtcTimerAssumption
  <2> QED
    BY <1>2, <2>1, SvcTypes, IsrTypes
<1>3. CASE Kernel
  BY <1>3, TakeTypes, RunTypes, ArmTypes, CheckTypes, LateTypes DEF Kernel
<1>4. CASE RtcIrq \/ Tick
  BY <1>4, LateTypes, TickTypes
<1>5. CASE UNCHANGED vars
  <2>1. UNCHANGED <<delta, due, timer_start, timer_stop, adjust, now, calls, deferred, pc, task,
                    stopped, dropped, timer_events, alrb, timer_busy>>
    BY <1>5 DEF vars, list, alarm
  <2> QED
    BY <2>1 DEF TInv, NumbersOK, RestOK, BusyInv
<1> QED
  BY <1>1, <1>2, <1>3, <1>4, <1>5 DEF Next

\* The type invariant.
THEOREM TypeCorrect == Spec => []TypeOK
<1>1. IInv /\ TInv => TypeOK
  BY TypeFollows DEF TInv
<1> QED
  BY <1>1, InitInv, NextInv, InitTypes, NextTypes, PTL DEF Spec

-----------------------------------------------------------------------------
(* The alarm: it is set for a time to come, or has gone off. *)

\* While the routine waits or runs, and when it is to be enqueued without the
\* interrupt, the alarm's time is over.
OverInv == timer_events # 0 \/ pc = "late" => timer_stop <= now

\* The interrupt is asked for at the alarm's time.
MatchInv == irq => alrb = "on" /\ timer_stop = now

\* The critical section is reached with the alarm off and no routine waiting.
ReadyInv == pc = "arm" => timer_events = 0 /\ alrb = "off"

\* The delays of the list count from a time that is over.
StartInv == timer_start <= now

\* An alarm is set for a list that is not empty, unless its routine waits or runs
\* or was refused: it is on, and its time is to come or the interrupt asked for.
\* One whose match may be missed is for the next tick.
SetInv ==
    timer_queue # <<>> /\ timer_events = 0 /\ ~dropped =>
        /\ pc \in {"idle", "run"} => alrb = "on" /\ (now < timer_stop \/ irq)
        /\ pc = "check" => alrb = "on" \/ (alrb = "mute" /\ timer_stop <= now + 1)

CInv == OverInv /\ MatchInv /\ ReadyInv /\ StartInv /\ SetInv

\* Steps of callers and of the queue leave the alarm alone.
LEMMA KeepsClock ==
  ASSUME CInv, UNCHANGED <<timer_queue, alarm, timer_events, irq, now, dropped>>,
         pc' = pc \/ (pc = "idle" /\ pc' = "run")
  PROVE  CInv'
<1>1. UNCHANGED <<timer_queue, timer_events, irq, now, dropped, timer_start, timer_stop, alrb>>
  BY DEF alarm
<1>2. OverInv' /\ MatchInv' /\ ReadyInv' /\ StartInv'
  BY <1>1 DEF CInv, OverInv, MatchInv, ReadyInv, StartInv
<1>3. SetInv'
  BY <1>1 DEF CInv, SetInv
<1> QED
  BY <1>2, <1>3 DEF CInv

\* The critical section sets the alarm.
LEMMA ArmClock ==
  ASSUME TInv, CInv, Arm
  PROVE  CInv'
<1>1. timer_events = 0 /\ alrb = "off" /\ pc = "arm" /\ timer_stop \in Int /\ now \in Int
  BY DEF CInv, ReadyInv, TInv, NumbersOK, Arm
<1>2. /\ UNCHANGED <<timer_queue, timer_events, now, dropped, timer_start, timer_stop>>
      /\ pc' = "check"
      /\ alrb' \in IF timer_stop = now + 1 THEN {"on", "mute"} ELSE {"on"}
      /\ irq' \in IF timer_stop = now THEN BOOLEAN ELSE {FALSE}
  BY <1>1 DEF Arm, list
<1>3. OverInv' /\ ReadyInv' /\ StartInv'
  BY <1>1, <1>2 DEF CInv, OverInv, ReadyInv, StartInv
<1>4. MatchInv'
  <2>1. irq' => timer_stop = now
    BY <1>2
  <2>2. timer_stop = now => alrb' = "on"
    BY <1>1, <1>2
  <2> QED
    BY <1>2, <2>1, <2>2 DEF MatchInv
<1>5. SetInv'
  <2>1. alrb' = "on" \/ (alrb' = "mute" /\ timer_stop = now + 1)
    BY <1>2
  <2>2. timer_stop = now + 1 => timer_stop <= now + 1
    BY <1>1
  <2> QED
    BY <1>2, <2>1, <2>2 DEF SetInv
<1> QED
  BY <1>3, <1>4, <1>5 DEF CInv

\* The look at the clock: an alarm that is trusted is on and further off than the
\* next tick.
LEMMA CheckClock ==
  ASSUME TInv, CInv, Check \/ Wait
  PROVE  CInv'
<1>0. timer_stop \in Int /\ now \in Int
  BY DEF TInv, NumbersOK
<1>1. UNCHANGED <<timer_queue, timer_events, irq, now, dropped, timer_start, timer_stop, alrb>>
  BY DEF Check, Wait, list, alarm
<1>2. \/ pc' = "late" /\ (timer_events # 0 \/ timer_stop <= now)
      \/ pc' = "wait"
      \/ pc = "check" /\ pc' = "idle" /\ ~(now >= timer_stop) /\ now # timer_stop - 1
  BY <1>0 DEF Check, Wait, Done
<1>3. OverInv' /\ MatchInv' /\ ReadyInv' /\ StartInv'
  BY <1>1, <1>2 DEF CInv, OverInv, MatchInv, ReadyInv, StartInv
<1>4. SetInv'
  <2>1. CASE pc' \in {"late", "wait"}
    BY <2>1 DEF SetInv
  <2>2. CASE pc = "check" /\ pc' = "idle" /\ ~(now >= timer_stop) /\ now # timer_stop - 1
    <3>1. now < timer_stop /\ ~(timer_stop <= now + 1)
      BY <1>0, <2>2
    <3> QED
      BY <1>1, <2>2, <3>1 DEF CInv, SetInv
  <2> QED
    BY <1>2, <2>1, <2>2
<1> QED
  BY <1>3, <1>4 DEF CInv

\* The routine is enqueued, or refused.
LEMMA EnqueueClock ==
  ASSUME IInv, EnqueueRoutine
  PROVE  dropped' \/ (timer_events' # 0 /\ UNCHANGED dropped)
<1>1. timer_events \in {0, 1}
  BY DEF IInv, EventsInv
<1>2. dropped' = TRUE \/ (timer_events' = timer_events + 1 /\ UNCHANGED dropped)
  BY DEF EnqueueRoutine
<1>3. timer_events + 1 # 0
  BY <1>1
<1> QED
  BY <1>2, <1>3

\* The alarm goes off, by its interrupt or without.
LEMMA LateClock ==
  ASSUME IInv, TInv, CInv, Late \/ RtcIrq
  PROVE  CInv'
<1>0. timer_stop \in Int /\ now \in Int
  BY DEF TInv, NumbersOK
<1>1. /\ UNCHANGED <<timer_queue, now, timer_start, timer_stop>>
      /\ alrb' = "off" /\ irq' = FALSE
      /\ EnqueueRoutine \/ UNCHANGED <<timer_events, dropped>>
  BY DEF Late, RtcIrq, list
<1>2. timer_stop <= now
  <2>1. CASE Late
    BY <2>1 DEF CInv, OverInv, Late
  <2>2. CASE RtcIrq
    BY <1>0, <2>2 DEF CInv, MatchInv, RtcIrq
  <2> QED
    BY <2>1, <2>2
<1>3. pc' = "idle" \/ (RtcIrq /\ pc' = pc)
  BY DEF Late, RtcIrq, Done
<1>4. ReadyInv'
  <2>1. ASSUME RtcIrq, pc = "arm" PROVE FALSE
    BY <2>1 DEF CInv, MatchInv, ReadyInv, RtcIrq
  <2> QED
    BY <1>3, <2>1 DEF ReadyInv
<1>5. OverInv' /\ MatchInv' /\ StartInv'
  BY <1>1, <1>2 DEF CInv, OverInv, MatchInv, StartInv
<1>6. dropped' \/ timer_events' # 0 \/ (UNCHANGED <<timer_events, dropped>> /\ ~EnqueueRoutine)
  BY <1>1, EnqueueClock
<1>7. SetInv'
  <2>1. CASE dropped' \/ timer_events' # 0
    BY <2>1 DEF SetInv
  <2>2. CASE UNCHANGED <<timer_events, dropped>> /\ ~EnqueueRoutine /\ timer_events = 0
    <3>1. RtcIrq /\ ~timer_busy
      BY <2>2 DEF Late, RtcIrq
    <3>2. timer_busy
      BY <3>1 DEF TInv, BusyInv, CInv, MatchInv, RtcIrq
    <3> QED
      BY <3>1, <3>2
  <2> QED
    BY <1>6, <2>1, <2>2
<1> QED
  BY <1>4, <1>5, <1>7 DEF CInv

\* Time passes: the alarm's interrupt is asked for in time.
LEMMA TickClock ==
  ASSUME TInv, CInv, Tick
  PROVE  CInv'
<1>0. timer_stop \in Int /\ now \in Int /\ timer_start \in Int
  BY DEF TInv, NumbersOK
<1>1. /\ UNCHANGED <<timer_queue, timer_events, dropped, timer_start, timer_stop, alrb, pc>>
      /\ now' = now + 1 /\ ~irq /\ irq' = (alrb = "on" /\ now + 1 = timer_stop)
  BY DEF Tick, list, alarm
<1>2. MatchInv' /\ ReadyInv'
  BY <1>1 DEF CInv, MatchInv, ReadyInv
<1>3. StartInv' /\ OverInv'
  BY <1>0, <1>1 DEF CInv, StartInv, OverInv
<1>4. SetInv'
  <2> SUFFICES ASSUME timer_queue # <<>>, timer_events = 0, ~dropped
               PROVE  /\ pc \in {"idle", "run"} => alrb = "on" /\ (now + 1 < timer_stop \/ irq')
                      /\ pc = "check" => \/ alrb = "on"
                                         \/ alrb = "mute" /\ timer_stop <= now + 1 + 1
    BY <1>1 DEF SetInv
  <2>1. pc \in {"idle", "run"} => alrb = "on" /\ now < timer_stop
    BY <1>1 DEF CInv, SetInv
  <2>2. now < timer_stop => now + 1 < timer_stop \/ now + 1 = timer_stop
    BY <1>0
  <2>3. pc = "check" => alrb = "on" \/ (alrb = "mute" /\ timer_stop <= now + 1)
    BY DEF CInv, SetInv
  <2>4. timer_stop <= now + 1 => timer_stop <= now + 1 + 1
    BY <1>0
  <2> QED
    BY <1>1, <2>1, <2>2, <2>3, <2>4
<1> QED
  BY <1>2, <1>3, <1>4 DEF CInv

\* The routines that change the list set the alarm anew, or leave it as it is.
LEMMA RunClock ==
  ASSUME IInv, TInv, CInv, Run
  PROVE  CInv'
<1>0. /\ timer_stop \in Int /\ now \in Int /\ timer_start \in Int
      /\ pc = "run" /\ task \in Work /\ UNCHANGED <<now, dropped>>
      /\ NumbersOK
  BY DEF TInv, NumbersOK, Run, IInv, TypeInv
\* The alarm is to be set.
<1>1. ASSUME pc' = "arm", timer_events' = 0, alrb' = "off", irq' = FALSE, timer_start' <= now
      PROVE  CInv'
  BY <1>0, <1>1 DEF CInv, OverInv, MatchInv, ReadyInv, StartInv, SetInv
\* It is not.
<1>2. ASSUME pc' = "idle", timer_stop' = timer_stop, timer_start' <= now,
             \/ UNCHANGED timer_events /\ (irq' = FALSE \/ UNCHANGED <<alrb, irq>>)
             \/ timer_events' = 0 /\ irq' = FALSE,
             timer_queue' # <<>> =>
                \/ timer_events # 0 /\ UNCHANGED timer_events
                \/ timer_queue # <<>> /\ UNCHANGED <<timer_events, alrb, irq>>
      PROVE  CInv'
  <2>1. OverInv' /\ MatchInv' /\ ReadyInv' /\ StartInv'
    BY <1>0, <1>2 DEF CInv, OverInv, MatchInv, ReadyInv, StartInv
  <2>2. SetInv'
    BY <1>0, <1>2 DEF CInv, SetInv
  <2> QED
    BY <2>1, <2>2 DEF CInv
<1>3. ASSUME NEW t \in Timer, NEW at \in Nat, NEW absolute, Insert(t, at, absolute)
      PROVE  CInv'
  <2>1. timer_start' \in {now, timer_start}
    BY <1>0, <1>3, InsertTimes
  <2>2. timer_start' <= now
    BY <1>0, <2>1 DEF CInv, StartInv
  <2>3. Head(timer_queue') # t => timer_queue # <<>>
    BY <1>0, <1>3, InsertTimes
  <2>4. UNCHANGED timer_events
    BY <1>3 DEF Insert
  <2>5. CASE Head(timer_queue') = t
    <3>1. alrb' = "off" /\ irq' = FALSE
      BY <1>3, <2>5 DEF Insert
    <3>2. CASE timer_events = 0
      <4>1. pc' = "arm"
        BY <1>3, <2>5, <3>2 DEF Insert, Alarm
      <4> QED
        BY <1>1, <2>2, <2>4, <3>1, <3>2, <4>1
    <3>3. CASE timer_events # 0
      <4>1. pc' = "idle" /\ timer_stop' = timer_stop
        BY <1>3, <2>5, <3>3 DEF Insert, Done
      <4> QED
        BY <1>2, <2>2, <2>4, <3>1, <3>3, <4>1
    <3> QED
      BY <3>2, <3>3
  <2>6. CASE Head(timer_queue') # t
    <3>1. pc' = "idle" /\ UNCHANGED <<timer_stop, alrb, irq>>
      BY <1>3, <2>6 DEF Insert, Done
    <3> QED
      BY <1>2, <2>2, <2>3, <2>4, <2>6, <3>1
  <2> QED
    BY <2>5, <2>6
<1>4. CASE task.kind = "routine"
  <2>1. Routine
    BY <1>4 DEF Run
  <2>2. timer_events = 1 /\ alrb = "off" /\ ~irq /\ timer_stop <= now
    BY <1>0, <1>4 DEF IInv, EventsInv, AlarmInv, RoutineRunning, CInv, OverInv
  <2>3. timer_busy
    BY <2>2 DEF TInv, BusyInv
  <2>4. timer_start' \in {timer_start, timer_stop}
    BY <1>0, <2>1, <2>2, <2>3, RoutineTimes
  <2>5. timer_start' <= now
    BY <1>0, <2>2, <2>4 DEF CInv, StartInv
  <2>6. UNCHANGED <<alrb, irq>> /\ timer_events' = 0
    <3>1. UNCHANGED <<alrb, irq>> /\ timer_events' = timer_events - 1
      BY <2>1 DEF Routine
    <3> QED
      BY <2>2, <3>1
  <2>7. irq' = FALSE
    <3>1. irq \in BOOLEAN
      BY DEF IInv, TypeInv
    <3> QED
      BY <2>2, <2>6, <3>1
  <2>8. CASE timer_queue' # <<>>
    <3>1. pc' = "arm"
      BY <2>1, <2>2, <2>8 DEF Routine, Alarm
    <3> QED
      BY <1>1, <2>2, <2>5, <2>6, <2>7, <3>1
  <2>9. CASE timer_queue' = <<>>
    <3>1. pc' = "idle" /\ timer_stop' = timer_stop
      BY <2>1, <2>9 DEF Routine, Done
    <3> QED
      BY <1>2, <2>5, <2>6, <2>7, <2>9, <3>1
  <2> QED
    BY <2>8, <2>9
<1>5. CASE task.kind # "routine"
  <2>1. task.kind \in About /\ task.timer \in Timer /\ task.at \in Nat
    BY <1>0, <1>5 DEF Work, TimerWork, Idle
  <2>2. CASE task.kind = "insert_1"
    <3>1. InsertAdjust(task.timer, task.absolute)
      BY <2>2 DEF Run
    <3>2. /\ UNCHANGED <<timer_queue, timer_start, timer_stop, timer_events, alrb, irq>>
          /\ pc' = "idle"
      BY <3>1 DEF InsertAdjust, Done, alarm
    <3>3. timer_start' <= now
      BY <3>2 DEF CInv, StartInv
    <3> QED
      BY <1>2, <3>2, <3>3
  <2>3. CASE task.kind = "insert_2"
    <3>1. Insert(task.timer, task.at, adjust[task.timer])
      BY <2>3 DEF Run
    <3> QED
      BY <1>3, <2>1, <3>1
  <2>4. CASE task.kind = "insert"
    <3>1. Insert(task.timer, task.at, task.absolute)
      BY <2>4 DEF Run
    <3> QED
      BY <1>3, <2>1, <3>1
  <2>5. CASE task.kind \in {"remove", "release"}
    <3> DEFINE t == task.timer
    <3>1. RemoveTimer(t)
      BY <2>5 DEF Run
    <3>2. UNCHANGED timer_events /\ UNCHANGED timer_start
      BY <3>1 DEF RemoveTimer, Alarm
    <3>3. timer_start' <= now
      BY <3>2 DEF CInv, StartInv
    <3>4. CASE t \in Running
      <4>1. alrb' = "off" /\ irq' = FALSE
        BY <3>1, <3>4 DEF RemoveTimer, Running
      <4>2. CASE timer_queue' # <<>> /\ timer_events = 0
        <5>1. pc' = "arm"
          BY <3>1, <3>4, <4>2 DEF RemoveTimer, Running, Alarm
        <5> QED
          BY <1>1, <3>2, <3>3, <4>1, <4>2, <5>1
      <4>3. CASE ~(timer_queue' # <<>> /\ timer_events = 0)
        <5>1. pc' = "idle" /\ timer_stop' = timer_stop
          BY <3>1, <3>4, <4>3 DEF RemoveTimer, Running, Done
        <5> QED
          BY <1>2, <3>2, <3>3, <4>1, <4>3, <5>1
      <4> QED
        BY <4>2, <4>3
    <3>5. CASE t \notin Running
      <4>1. UNCHANGED <<timer_queue, timer_stop, alrb, irq>> /\ pc' = "idle"
        BY <3>1, <3>5 DEF RemoveTimer, Running, Done
      <4> QED
        BY <1>2, <3>2, <3>3, <4>1
    <3> QED
      BY <3>4, <3>5
  <2> QED
    BY <2>1, <2>2, <2>3, <2>4, <2>5 DEF About
<1> QED
  BY <1>4, <1>5

\* What is known of the alarm holds at reset.
LEMMA InitClock == Init => CInv
<1> SUFFICES ASSUME Init PROVE CInv
  OBVIOUS
<1>1. /\ now = 0 /\ timer_start = 0 /\ timer_queue = <<>> /\ timer_events = 0 /\ pc = "idle"
      /\ irq = FALSE
  BY DEF Init
<1> QED
  BY <1>1 DEF CInv, OverInv, MatchInv, ReadyInv, StartInv, SetInv

\* Every step keeps what is known of the alarm.
LEMMA NextClock == IInv /\ TInv /\ CInv /\ [Next]_vars => CInv'
<1> SUFFICES ASSUME IInv, TInv, CInv, [Next]_vars PROVE CInv'
  OBVIOUS
<1>1. ASSUME NEW t, NEW r, SvcStart(t, r) \/ IsrStart(t, r) PROVE CInv'
  <2>1. /\ UNCHANGED <<timer_queue, alarm, timer_events, irq, now, dropped>>
        /\ pc' = pc \/ (pc = "idle" /\ pc' = "run")
    BY <1>1 DEF SvcStart, IsrStart, ThreadRuns, list
  <2> QED
    BY <2>1, KeepsClock
<1>2. ASSUME NEW t, SvcStop(t) \/ IsrStop(t) \/ SvcDestroy(t) \/ IsrDestroy(t)
      PROVE  CInv'
  <2>1. /\ UNCHANGED <<timer_queue, alarm, timer_events, irq, now, dropped>>
        /\ pc' = pc \/ (pc = "idle" /\ pc' = "run")
    BY <1>2 DEF SvcStop, IsrStop, SvcDestroy, IsrDestroy, ThreadRuns, list
  <2> QED
    BY <2>1, KeepsClock
<1>3. CASE Take \/ UNCHANGED vars
  <2>1. /\ UNCHANGED <<timer_queue, alarm, timer_events, irq, now, dropped>>
        /\ pc' = pc \/ (pc = "idle" /\ pc' = "run")
    BY <1>3 DEF Take, vars, list
  <2> QED
    BY <2>1, KeepsClock
<1>4. CASE Kernel
  BY <1>3, <1>4, RunClock, ArmClock, CheckClock, LateClock DEF Kernel
<1>5. CASE RtcIrq \/ Tick
  BY <1>5, LateClock, TickClock
<1> QED
  BY <1>1, <1>2, <1>3, <1>4, <1>5 DEF Next

-----------------------------------------------------------------------------
(* The alarm's theorem, whatever is stopped and destroyed. *)

\* While thread code runs no routine of the alarm is counted.
LEMMA NothingCounted ==
  ASSUME IInv, ThreadRuns
  PROVE  timer_events = 0 /\ pc = "idle"
<1>1. deferred = <<>> /\ pc = "idle"
  BY DEF ThreadRuns
<1>2. 1..Len(deferred) = {}
  BY <1>1
<1> QED
  BY <1>1, <1>2 DEF IInv, EventsInv, RoutineRunning

\* A list with a timer in it has its alarm on, for a time to come, and its
\* interrupt will be heard.
AlarmIsOn == ThreadRuns /\ ~irq /\ timer_queue # <<>> =>
    alrb = "on" /\ timer_busy /\ now < timer_stop

\* It follows from the invariants.
LEMMA AlarmFollows ==
  ASSUME IInv, TInv, CInv, ~dropped
  PROVE  AlarmIsOn
<1> SUFFICES ASSUME ThreadRuns, ~irq, timer_queue # <<>>
             PROVE  alrb = "on" /\ timer_busy /\ now < timer_stop
  BY DEF AlarmIsOn
<1>1. timer_events = 0 /\ pc = "idle"
  BY NothingCounted
<1>2. alrb = "on" /\ now < timer_stop
  BY <1>1 DEF CInv, SetInv
<1>3. timer_busy
  BY <1>2 DEF TInv, BusyInv
<1> QED
  BY <1>2, <1>3

\* Unless the alarm's routine was once refused by a full queue, no timer is
\* forgotten: whenever thread code runs and a timer is in the list, alarm B is on
\* and set for a tick to come.  Timers may be stopped and destroyed meanwhile.
THEOREM AlarmIsSet == Spec => [](~dropped => AlarmIsOn)
<1>1. IInv /\ TInv /\ CInv => (~dropped => AlarmIsOn)
  BY AlarmFollows
<1> QED
  BY <1>1, InitInv, NextInv, InitTypes, NextTypes, InitClock, NextClock, PTL DEF Spec

-----------------------------------------------------------------------------
(* Removals: none but of timers the program stops or destroys. *)

RemovalsInv == \A k \in {"remove", "release"} : \A t : Pending(k, t) => t \in Stops

\* What is appended is all that comes to be asked for.
LEMMA AsksAppend ==
  ASSUME NEW d, NEW S, d \in Seq(S), NEW w, NEW k, NEW t, Asks(Append(d, w), k, t)
  PROVE  Asks(d, k, t) \/ (w.kind = k /\ w.timer = t)
<1> DEFINE new == Append(d, w)
<1>1. Len(d) \in Nat /\ Len(new) = Len(d) + 1
  OBVIOUS
<1>2. PICK i \in 1..Len(new) : new[i].kind = k /\ new[i].timer = t
  BY DEF Asks
<1>3. CASE i = Len(d) + 1
  <2>1. new[i] = w
    BY <1>3
  <2> QED
    BY <1>2, <2>1
<1>4. CASE i # Len(d) + 1
  <2>1. i \in 1..Len(d)
    BY <1>1, <1>4
  <2>2. new[i] = d[i]
    BY <2>1
  <2> HIDE DEF new
  <2> QED
    BY <1>2, <2>1, <2>2 DEF Asks
<1> QED
  BY <1>3, <1>4

\* What is taken was asked for, and so is the rest.
LEMMA AsksTail ==
  ASSUME NEW d, NEW S, d \in Seq(S), d # <<>>
  PROVE  /\ Asks(d, Head(d).kind, Head(d).timer)
         /\ \A k, t : Asks(Tail(d), k, t) => Asks(d, k, t)
<1> DEFINE new == Tail(d)
<1>1. /\ Len(d) \in Nat \ {0} /\ Head(d) = d[1] /\ Len(new) = Len(d) - 1
      /\ \A i \in 1..Len(new) : new[i] = d[i + 1]
  BY HeadTailProperties, LenProperties, EmptySeq
<1> HIDE DEF new
<1>2. 1 \in 1..Len(d) /\ \A i \in 1..Len(new) : i + 1 \in 1..Len(d)
  BY <1>1
<1>3. Asks(d, Head(d).kind, Head(d).timer)
  BY <1>1, <1>2 DEF Asks
<1>4. \A k, t : Asks(new, k, t) => Asks(d, k, t)
  BY <1>1, <1>2 DEF Asks
<1> QED
  BY <1>3, <1>4 DEF new

\* Steps that ask for nothing more.
LEMMA RemovalsKept ==
  ASSUME RemovalsInv,
         \A k \in {"remove", "release"} : \A t : Pending(k, t)' => Pending(k, t) \/ t \in Stops
  PROVE  RemovalsInv'
  BY DEF RemovalsInv

\* A routine ends, or goes on to set the alarm.
LEMMA RunEnds ==
  ASSUME IInv, Run
  PROVE  pc' \in {"idle", "arm"}
<1>1. task.kind = "routine" \/ task.kind \in About
  BY DEF IInv, TypeInv, Run, Work, TimerWork, Idle
<1>2. CASE task.kind = "routine"
  BY <1>2 DEF Run, Routine, Alarm, Done
<1>3. CASE task.kind \in {"insert_1", "insert_2", "insert"}
  BY <1>3 DEF Run, InsertAdjust, Insert, Alarm, Done
<1>4. CASE task.kind \in {"remove", "release"}
  BY <1>4 DEF Run, RemoveTimer, Alarm, Done
<1> QED
  BY <1>1, <1>2, <1>3, <1>4 DEF About

\* Removals begin with a stop or a destroy.
LEMMA NextRemovals == IInv /\ RemovalsInv /\ [Next]_vars => RemovalsInv'
<1> SUFFICES ASSUME IInv, RemovalsInv, [Next]_vars PROVE RemovalsInv'
  OBVIOUS
<1>0. deferred \in Seq(Work)
  BY DEF IInv, TypeInv
<1>1. ASSUME NEW t \in Timer, NEW r \in Request, SvcStart(t, r) PROVE RemovalsInv'
  <2>1. UNCHANGED deferred /\ task'.kind = "insert"
    BY <1>1 DEF SvcStart
  <2>2. \A k \in {"remove", "release"} : \A u : Pending(k, u)' => Pending(k, u)
    BY <2>1 DEF Pending
  <2> QED
    BY <2>2, RemovalsKept
<1>2. ASSUME NEW t \in Timer, NEW r \in Request, IsrStart(t, r) PROVE RemovalsInv'
  <2> DEFINE first  == [Idle EXCEPT !.kind = "insert_1", !.timer = t, !.absolute = r.absolute]
             second == [Idle EXCEPT !.kind = "insert_2", !.timer = t, !.at = r.at]
             one == Append(deferred, first)
             two == Append(one, second)
  <2>1. UNCHANGED <<pc, task>>
    BY <1>2 DEF IsrStart
  <2>2. deferred' = IF Room(2) THEN two ELSE IF Room(1) THEN one ELSE deferred
    <3>1. deferred \o <<first, second>> = two /\ deferred \o <<first>> = one
          /\ deferred \o <<>> = deferred
      BY <1>0
    <3>2. deferred' = deferred \o (IF Room(2) THEN <<first, second>>
                                   ELSE IF Room(1) THEN <<first>> ELSE <<>>)
      BY <1>2 DEF IsrStart
    <3> QED
      BY <3>1, <3>2
  <2>3. first.kind = "insert_1" /\ second.kind = "insert_2"
    BY DEF Idle
  <2> HIDE DEF first, second
  <2> DEFINE S == Work \union {first, second}
  <2>4. deferred \in Seq(S) /\ one \in Seq(S)
    <3>1. deferred \in Seq(S)
      BY <1>0, SeqMonotonic
    <3>2. first \in S
      OBVIOUS
    <3> HIDE DEF S
    <3> QED
      BY <3>1, <3>2, AppendProperties
  <2> HIDE DEF S, one
  <2>5. ASSUME NEW k \in {"remove", "release"}, NEW u, Asks(two, k, u) PROVE Asks(one, k, u)
    BY <2>3, <2>4, <2>5, AsksAppend
  <2>6. ASSUME NEW k \in {"remove", "release"}, NEW u, Asks(one, k, u) PROVE Asks(deferred, k, u)
    BY <2>3, <2>4, <2>6, AsksAppend DEF one
  <2> HIDE DEF two
  <2>7. \A k \in {"remove", "release"} : \A u : Asks(deferred', k, u) => Asks(deferred, k, u)
    BY <2>2, <2>5, <2>6
  <2>8. \A k \in {"remove", "release"} : \A u : Pending(k, u)' => Pending(k, u)
    BY <2>1, <2>7 DEF Pending
  <2> QED
    BY <2>8, RemovalsKept
<1>3. ASSUME NEW t \in Stops, SvcStop(t) \/ SvcDestroy(t) PROVE RemovalsInv'
  <2>1. UNCHANGED deferred /\ task'.timer = t
    BY <1>3 DEF SvcStop, SvcDestroy, Idle
  <2>2. \A k \in {"remove", "release"} : \A u : Pending(k, u)' => Pending(k, u) \/ u \in Stops
    BY <2>1 DEF Pending
  <2> QED
    BY <2>2, RemovalsKept
<1>4. ASSUME NEW t \in Stops, IsrStop(t) \/ IsrDestroy(t) PROVE RemovalsInv'
  <2>1. UNCHANGED <<pc, task>>
    BY <1>4 DEF IsrStop, IsrDestroy
  <2>2. \A k \in {"remove", "release"} : \A u :
           Asks(deferred', k, u) => Asks(deferred, k, u) \/ u \in Stops
    <3>1. \/ UNCHANGED deferred
          \/ \E w : deferred' = Append(deferred, w) /\ w.timer = t
      <4>1. \/ UNCHANGED deferred
            \/ \E k : deferred' = Append(deferred, [Idle EXCEPT !.kind = k, !.timer = t])
        BY <1>4 DEF IsrStop, IsrDestroy
      <4>2. \A k : [Idle EXCEPT !.kind = k, !.timer = t].timer = t
        BY DEF Idle
      <4> QED
        BY <4>1, <4>2
    <3>2. ASSUME NEW w, deferred' = Append(deferred, w), w.timer = t,
                 NEW k, NEW u, Asks(deferred', k, u)
          PROVE  Asks(deferred, k, u) \/ u \in Stops
      BY <1>0, <3>2, AsksAppend
    <3> QED
      BY <3>1, <3>2
  <2>3. \A k \in {"remove", "release"} : \A u : Pending(k, u)' => Pending(k, u) \/ u \in Stops
    BY <2>1, <2>2 DEF Pending
  <2> QED
    BY <2>3, RemovalsKept
<1>5. CASE Take
  <2>1. deferred # <<>> /\ task' = Head(deferred) /\ deferred' = Tail(deferred)
    BY <1>5 DEF Take
  <2>2. Asks(deferred, task'.kind, task'.timer)
    BY <1>0, <2>1, AsksTail
  <2>3. \A k, u : Asks(deferred', k, u) => Asks(deferred, k, u)
    BY <1>0, <2>1, AsksTail
  <2>4. \A k, u : Pending(k, u)' => Pending(k, u)
    BY <2>2, <2>3 DEF Pending
  <2> QED
    BY <2>4, RemovalsKept
<1>6. CASE Run \/ Arm \/ Check \/ Wait \/ Tick \/ UNCHANGED vars
  <2>1. UNCHANGED deferred /\ (pc' # "run" \/ UNCHANGED <<pc, task>>)
    <3>1. CASE Run
      BY <3>1, RunEnds DEF Run
    <3>2. CASE Arm \/ Check \/ Wait
      BY <3>2 DEF Arm, Check, Wait, Done
    <3>3. CASE Tick \/ UNCHANGED vars
      BY <3>3 DEF Tick, vars
    <3> QED
      BY <1>6, <3>1, <3>2, <3>3
  <2>2. \A k, u : Pending(k, u)' => Pending(k, u)
    BY <2>1 DEF Pending
  <2> QED
    BY <2>2, RemovalsKept
<1>7. CASE Late \/ RtcIrq
  <2>1. pc' # "run" \/ UNCHANGED <<pc, task>>
    BY <1>7 DEF Late, RtcIrq, Done
  <2>2. \A k \in {"remove", "release"} : \A u : Asks(deferred', k, u) => Asks(deferred, k, u)
    <3>1. \/ UNCHANGED deferred
          \/ \E w : deferred' = Append(deferred, w) /\ w.kind = "routine"
      BY <1>7 DEF Late, RtcIrq, EnqueueRoutine, Idle
    <3>2. ASSUME NEW w, deferred' = Append(deferred, w), w.kind = "routine",
                 NEW k \in {"remove", "release"}, NEW u, Asks(deferred', k, u)
          PROVE  Asks(deferred, k, u)
      BY <1>0, <3>2, AsksAppend
    <3> QED
      BY <3>1, <3>2
  <2>3. \A k \in {"remove", "release"} : \A u : Pending(k, u)' => Pending(k, u)
    BY <2>1, <2>2 DEF Pending
  <2> QED
    BY <2>3, RemovalsKept
<1> QED
  BY <1>1, <1>2, <1>3, <1>4, <1>5, <1>6, <1>7 DEF Next, Kernel

\* Nothing is asked for at reset.
LEMMA InitRemovals == Init => RemovalsInv
  BY DEF Init, RemovalsInv, Pending, Asks

-----------------------------------------------------------------------------
(* The delays and the dues, of a program that stops no timer. *)

\* Each timer of the list expires when it is due.
DuesOK == \A u \in Running : Expires(timer_queue, delta, u, due[u] - timer_start)

\* The alarm is not set for later than the first of them is due.
FirstOK == timer_queue # <<>> /\ timer_events = 0 => timer_stop <= due[Head(timer_queue)]

DInv == DuesOK /\ Sorted(timer_queue, delta) /\ FirstOK

\* A timer expires at one time.
LEMMA ExpiresOnce ==
  ASSUME NEW q, NEW M, NEW d, Timed(q, M, d), NEW u, NEW b, NEW c,
         Expires(q, d, u, b), Expires(q, d, u, c)
  PROVE  b = c
<1>1. PICK i \in 1..Len(q) : q[i] = u /\ Cum(q, d, i) = b
  BY DEF Expires
<1>2. PICK j \in 1..Len(q) : q[j] = u /\ Cum(q, d, j) = c
  BY DEF Expires
<1>3. i = j
  BY <1>1, <1>2, TimedFacts
<1> QED
  BY <1>1, <1>2, <1>3

\* The first timer's delay is the time to its due.
LEMMA FirstDelay ==
  ASSUME NEW q, NEW M, NEW d, Timed(q, M, d), q # <<>>, NEW start \in Int, NEW by \in Int,
         Expires(q, d, Head(q), by - start)
  PROVE  d[Head(q)] = by - start /\ Cum(q, d, 1) = by - start /\ start + d[Head(q)] = by
<1>1. d[Head(q)] \in Int /\ Cum(q, d, 1) = d[Head(q)]
  BY TimedHead
<1>2. Expires(q, d, Head(q), d[Head(q)])
  BY TimedHead
<1>3. d[Head(q)] = by - start
  BY <1>2, ExpiresOnce
<1> QED
  BY <1>1, <1>3

\* An insertion.
LEMMA InsertDues ==
  ASSUME IInv, TInv, CInv, DInv, NEW t \in Timer, NEW at \in Nat, NEW absolute,
         Insert(t, at, absolute)
  PROVE  DInv'
<1>0. /\ NumbersOK /\ timer_start \in Int /\ timer_stop \in Int /\ now \in Int
      /\ due \in [Timer -> Int] /\ timer_start <= now
  BY DEF TInv, NumbersOK, CInv, StartInv
<1>1. Timed(timer_queue', Running \union {t}, delta') /\ due' \in [Timer -> Int]
  BY <1>0, InsertTimes
<1>2. timer_start' \in Int /\ timer_stop' \in Int
  BY <1>0, InsertTimes
<1>3. \A u \in Timer \ {t} : due'[u] = due[u]
  BY <1>0, InsertTimes
<1>4. Expires(timer_queue', delta', t, due'[t] - timer_start')
  BY <1>0, InsertTimes
<1>5. \A u \in Running \ {t} : timer_start' = timer_start
  BY <1>0, InsertTimes
<1>6. \A u \in Running \ {t} : \A c :
         Expires(timer_queue, delta, u, c) => Expires(timer_queue', delta', u, c)
  BY <1>0, InsertTimes
<1>7. Sorted(timer_queue', delta')
  <2>1. Sorted(timer_queue, delta) /\ timer_start <= now => Sorted(timer_queue', delta')
    BY <1>0, InsertTimes
  <2> QED
    BY <1>0, <2>1 DEF DInv
<1>8. Running' = Running \union {t}
  <2>1. Running' = ToSet(timer_queue')
    BY DEF Running
  <2> QED
    BY <1>1, <2>1, ListsHead DEF Timed
<1>9. Running \subseteq Timer /\ Timed(timer_queue, Running, delta)
  BY <1>0, QueueTimed DEF IInv, TypeInv
<1>10. DuesOK'
  <2>1. ASSUME NEW u \in Running \ {t}
        PROVE  Expires(timer_queue', delta', u, due'[u] - timer_start')
    <3>1. Expires(timer_queue, delta, u, due[u] - timer_start)
      BY DEF DInv, DuesOK
    <3>2. due'[u] = due[u] /\ timer_start' = timer_start
      BY <1>3, <1>5, <1>9
    <3> QED
      BY <1>6, <3>1, <3>2
  <2> QED
    BY <1>4, <1>8, <2>1 DEF DuesOK
<1>11. FirstOK'
  <2> SUFFICES ASSUME timer_queue' # <<>>, timer_events = 0
               PROVE  timer_stop' <= due'[Head(timer_queue')]
    <3>1. timer_events' = timer_events
      BY DEF Insert
    <3> QED
      BY <3>1 DEF FirstOK
  <2> DEFINE h == Head(timer_queue')
  <2>1. CASE h = t
    <3>1. timer_stop' <= timer_start' + delta'[h]
      BY <1>0, <2>1, InsertTimes
    <3>2. timer_start' + delta'[h] = due'[h]
      <4>1. due'[t] \in Int
        BY <1>1
      <4> QED
        BY <1>1, <1>2, <1>4, <2>1, <4>1, FirstDelay
    <3> QED
      BY <3>1, <3>2
  <2>2. CASE h # t
    <3>1. timer_queue # <<>> /\ h \in Running
      BY <1>0, <2>2, InsertTimes
    <3>2. \E c \in Int : /\ Cum(timer_queue, delta, 1) <= c
                         /\ Expires(timer_queue, delta, h, c)
      <4>1. h # t /\ Sorted(timer_queue, delta) =>
               \E c \in Int : /\ Cum(timer_queue, delta, 1) <= c
                              /\ Expires(timer_queue, delta, h, c)
        BY <1>0, InsertTimes
      <4> QED
        BY <2>2, <4>1 DEF DInv
    <3>3. PICK c \in Int : /\ Cum(timer_queue, delta, 1) <= c
                           /\ Expires(timer_queue, delta, h, c)
      BY <3>2
    <3>4. timer_stop' = timer_stop
      BY <2>2 DEF Insert
    <3>5. due'[h] = due[h] /\ due[h] \in Int
      BY <1>0, <1>3, <1>9, <2>2, <3>1
    <3> DEFINE f == Head(timer_queue)
    <3>6. f \in Running /\ due[f] \in Int
      BY <1>0, <1>9, <3>1, TimedHead
    <3>7. timer_stop <= due[f]
      BY <3>1 DEF DInv, FirstOK
    <3>8. Cum(timer_queue, delta, 1) = due[f] - timer_start
      <4>1. Expires(timer_queue, delta, f, due[f] - timer_start)
        BY <3>6 DEF DInv, DuesOK
      <4> QED
        BY <1>0, <1>9, <3>1, <3>6, <4>1, FirstDelay
    <3>9. c = due[h] - timer_start
      <4>1. Expires(timer_queue, delta, h, due[h] - timer_start)
        BY <3>1 DEF DInv, DuesOK
      <4> QED
        BY <1>9, <3>3, <4>1, ExpiresOnce
    <3> HIDE DEF h, f
    <3>10. timer_stop <= due[h]
      BY <1>0, <3>3, <3>5, <3>6, <3>7, <3>8, <3>9
    <3> QED
      BY <3>4, <3>5, <3>10 DEF h
  <2> QED
    BY <2>1, <2>2
<1> QED
  BY <1>7, <1>10, <1>11 DEF DInv

\* The alarm's routine.
LEMMA RoutineDues ==
  ASSUME IInv, TInv, CInv, DInv, Run, task.kind = "routine"
  PROVE  /\ DInv'
         /\ \A u \in Running \ Running' : due[u] <= now
<1>0. /\ NumbersOK /\ timer_start \in Int /\ timer_stop \in Int /\ now \in Int
      /\ due \in [Timer -> Int] /\ UNCHANGED due
  BY DEF TInv, NumbersOK, Run, Routine
<1>1. Routine /\ pc = "run"
  BY DEF Run
<1>2. timer_events = 1
  BY <1>1 DEF IInv, EventsInv, RoutineRunning
<1>3. timer_busy /\ timer_stop <= now
  BY <1>2 DEF TInv, BusyInv, CInv, OverInv
<1>4. Timed(timer_queue', Running', delta') /\ Running' \subseteq Running
  BY <1>0, <1>1, <1>2, <1>3, RoutineTimes
<1>5. timer_start' \in Int /\ timer_stop' \in Int
  BY <1>0, <1>1, <1>2, <1>3, RoutineTimes
<1>6. Running \subseteq Timer
  BY DEF IInv, TypeInv
<1>7. DuesOK'
  <2> SUFFICES ASSUME NEW u \in Running'
               PROVE  Expires(timer_queue', delta', u, due[u] - timer_start')
    BY <1>0 DEF DuesOK
  <2>1. due[u] \in Int /\ Expires(timer_queue, delta, u, due[u] - timer_start)
    BY <1>0, <1>4, <1>6 DEF DInv, DuesOK
  <2>2. \A c \in Int : Expires(timer_queue, delta, u, c - timer_start) =>
           Expires(timer_queue', delta', u, c - timer_start')
    BY <1>0, <1>1, <1>2, <1>3, RoutineTimes
  <2> QED
    BY <2>1, <2>2
<1>8. Sorted(timer_queue', delta')
  <2>1. Sorted(timer_queue, delta) => Sorted(timer_queue', delta')
    BY <1>0, <1>1, <1>2, <1>3, RoutineTimes
  <2> QED
    BY <2>1 DEF DInv
<1>9. FirstOK'
  <2> SUFFICES ASSUME timer_queue' # <<>> PROVE timer_stop' <= due[Head(timer_queue')]
    BY <1>0 DEF FirstOK
  <2> DEFINE h == Head(timer_queue')
  <2>1. timer_stop' <= timer_start' + delta'[h]
    BY <1>0, <1>1, <1>2, <1>3, RoutineTimes
  <2>2. h \in Running' /\ due[h] \in Int
    BY <1>0, <1>4, <1>6, TimedHead
  <2>3. Expires(timer_queue', delta', h, due[h] - timer_start')
    BY <1>0, <1>7, <2>2 DEF DuesOK
  <2>4. timer_start' + delta'[h] = due[h]
    BY <1>4, <1>5, <2>2, <2>3, FirstDelay
  <2> QED
    BY <2>1, <2>4
<1>10. ASSUME NEW u \in Running \ Running' PROVE due[u] <= now
  <2>1. due[u] \in Int /\ Expires(timer_queue, delta, u, due[u] - timer_start)
    BY <1>0, <1>6 DEF DInv, DuesOK
  <2>2. \A c \in Int : Expires(timer_queue, delta, u, c - timer_start) => c <= timer_stop
    BY <1>0, <1>1, <1>2, <1>3, RoutineTimes
  <2>3. due[u] <= timer_stop
    BY <2>1, <2>2
  <2> QED
    BY <1>0, <1>3, <2>1, <2>3
<1> QED
  BY <1>7, <1>8, <1>9, <1>10 DEF DInv

\* Steps that leave the list alone.
LEMMA KeepsDues ==
  ASSUME DInv, UNCHANGED <<timer_queue, delta, timer_start, timer_stop, due>>,
         timer_events' = 0 => timer_events = 0
  PROVE  DInv'
<1>1. DuesOK' /\ Sorted(timer_queue', delta')
  BY DEF DInv, DuesOK, Running
<1>2. FirstOK'
  BY DEF DInv, FirstOK
<1> QED
  BY <1>1, <1>2 DEF DInv

\* Every routine, of a program that stops no timer.
LEMMA RunDues ==
  ASSUME Stops = {}, IInv, TInv, CInv, RemovalsInv, DInv, Run
  PROVE  DInv'
<1>1. pc = "run" /\ task \in Work
  BY DEF Run, IInv, TypeInv
<1>2. CASE task.kind = "routine"
  BY <1>2, RoutineDues
<1>3. CASE task.kind # "routine"
  <2>1. task.kind \in About /\ task.timer \in Timer /\ task.at \in Nat
    BY <1>1, <1>3 DEF Work, TimerWork, Idle
  <2>2. CASE task.kind = "insert_1"
    <3>1. InsertAdjust(task.timer, task.absolute)
      BY <2>2 DEF Run
    <3> QED
      BY <3>1, KeepsDues DEF InsertAdjust, alarm
  <2>3. CASE task.kind = "insert_2"
    <3>1. Insert(task.timer, task.at, adjust[task.timer])
      BY <2>3 DEF Run
    <3> QED
      BY <2>1, <3>1, InsertDues
  <2>4. CASE task.kind = "insert"
    <3>1. Insert(task.timer, task.at, task.absolute)
      BY <2>4 DEF Run
    <3> QED
      BY <2>1, <3>1, InsertDues
  <2>5. CASE task.kind \in {"remove", "release"}
    <3>1. Pending(task.kind, task.timer)
      BY <1>1 DEF Pending
    <3> QED
      BY <2>5, <3>1 DEF RemovalsInv
  <2> QED
    BY <2>1, <2>2, <2>3, <2>4, <2>5 DEF About
<1> QED
  BY <1>2, <1>3

\* The alarm's routine is enqueued: it is counted.
LEMMA EnqueueCounts ==
  ASSUME IInv, EnqueueRoutine \/ UNCHANGED timer_events, timer_events' = 0
  PROVE  timer_events = 0
<1>1. timer_events \in {0, 1}
  BY DEF IInv, EventsInv
<1>2. timer_events' = timer_events + 1 \/ timer_events' = timer_events
  BY DEF EnqueueRoutine
<1> QED
  BY <1>1, <1>2

\* Every step keeps the dues.
LEMMA NextDues ==
  ASSUME Stops = {}
  PROVE  IInv /\ TInv /\ CInv /\ RemovalsInv /\ DInv /\ [Next]_vars => DInv'
<1> SUFFICES ASSUME IInv, TInv, CInv, RemovalsInv, DInv, [Next]_vars PROVE DInv'
  OBVIOUS
<1>1. ASSUME NEW t, NEW r, SvcStart(t, r) \/ IsrStart(t, r) PROVE DInv'
  <2>1. UNCHANGED <<timer_queue, delta, timer_start, timer_stop, due, timer_events>>
    BY <1>1 DEF SvcStart, IsrStart, list, alarm
  <2> QED
    BY <2>1, KeepsDues
<1>2. CASE Run
  BY <1>2, RunDues
<1>3. CASE Take \/ Arm \/ Check \/ Wait \/ Tick \/ UNCHANGED vars
  <2>1. UNCHANGED <<timer_queue, delta, timer_start, timer_stop, due, timer_events>>
    BY <1>3 DEF Take, Arm, Check, Wait, Tick, vars, list, alarm
  <2> QED
    BY <2>1, KeepsDues
<1>4. CASE Late \/ RtcIrq
  <2>1. UNCHANGED <<timer_queue, delta, timer_start, timer_stop, due>>
    BY <1>4 DEF Late, RtcIrq, list
  <2>2. EnqueueRoutine \/ UNCHANGED timer_events
    BY <1>4 DEF Late, RtcIrq
  <2> QED
    BY <2>1, <2>2, EnqueueCounts, KeepsDues
<1> QED
  BY <1>1, <1>2, <1>3, <1>4 DEF Next, Kernel

\* The list is empty at reset.
LEMMA InitDues == Init => DInv
<1> SUFFICES ASSUME Init PROVE DInv
  OBVIOUS
<1>1. timer_queue = <<>>
  BY DEF Init
<1>2. Running = {} /\ 1..Len(timer_queue) = {}
  BY <1>1, EmptyLists, ListsHead DEF Running
<1> QED
  BY <1>1, <1>2 DEF DInv, DuesOK, Sorted, FirstOK

\* What the dues tell: the properties.
LEMMA DuesFollow ==
  ASSUME IInv, TInv, DInv
  PROVE  DeltasAreDues
<1> SUFFICES ASSUME NEW i \in 1..Len(timer_queue)
             PROVE  /\ timer_start + Cum(timer_queue, delta, i) = due[timer_queue[i]]
                    /\ delta[timer_queue[i]] >= 0
  BY DEF DeltasAreDues
<1> DEFINE u == timer_queue[i]
<1>1. timer_start \in Int /\ due \in [Timer -> Int] /\ Timed(timer_queue, Running, delta)
  BY QueueTimed DEF TInv, NumbersOK
<1>2. u \in Running /\ u \in Timer
  BY <1>1, TimedFacts
<1>3. Expires(timer_queue, delta, u, due[u] - timer_start)
  BY <1>2 DEF DInv, DuesOK
<1>4. Expires(timer_queue, delta, u, Cum(timer_queue, delta, i))
  BY DEF Expires
<1>5. Cum(timer_queue, delta, i) = due[u] - timer_start
  BY <1>1, <1>3, <1>4, ExpiresOnce
<1>6. due[u] \in Int
  BY <1>1, <1>2
<1>7. delta[u] >= 0
  BY DEF DInv, Sorted
<1> QED
  BY <1>1, <1>5, <1>6, <1>7

\* No timer is forgotten or late.
LEMMA StallFollows ==
  ASSUME IInv, TInv, CInv, DInv, ~dropped
  PROVE  NoStall
<1> SUFFICES ASSUME ThreadRuns, ~irq, timer_queue # <<>>
             PROVE  /\ alrb = "on" /\ timer_busy /\ now < timer_stop
                    /\ timer_stop <= due[Head(timer_queue)]
  BY DEF NoStall
<1>1. alrb = "on" /\ timer_busy /\ now < timer_stop
  BY AlarmFollows DEF AlarmIsOn
<1>2. timer_events = 0
  BY NothingCounted
<1>3. timer_stop <= due[Head(timer_queue)]
  BY <1>2 DEF DInv, FirstOK
<1> QED
  BY <1>1, <1>3

\* Only the routine of the alarm ends as one.
LEMMA RoutineIsRun ==
  ASSUME [Next]_vars, RoutineRuns
  PROVE  Run
<1>1. pc = "run" /\ pc' # "run"
  BY DEF RoutineRuns
<1>2. ASSUME NEW u, NEW r, SvcStart(u, r) \/ IsrStart(u, r) PROVE FALSE
  BY <1>1, <1>2 DEF SvcStart, IsrStart, ThreadRuns
<1>3. ASSUME NEW u, SvcStop(u) \/ IsrStop(u) \/ SvcDestroy(u) \/ IsrDestroy(u) PROVE FALSE
  BY <1>1, <1>3 DEF SvcStop, IsrStop, SvcDestroy, IsrDestroy, ThreadRuns
<1>4. ~(Take \/ Arm \/ Check \/ Wait \/ Late \/ RtcIrq \/ Tick \/ UNCHANGED vars)
  BY <1>1 DEF Take, Arm, Check, Wait, Late, RtcIrq, Tick, vars
<1> QED
  BY <1>2, <1>3, <1>4 DEF Next, Kernel

\* No timer that leaves was due later.
LEMMA EarlyFollows ==
  ASSUME IInv, TInv, CInv, DInv, [Next]_vars, RoutineRuns, NEW t \in Left
  PROVE  due[t] <= now
<1>1. Run
  BY RoutineIsRun
<1>2. \A u \in Running \ Running' : due[u] <= now
  BY <1>1, RoutineDues DEF RoutineRuns
<1> QED
  BY <1>2 DEF Left, Running

\* Of a program that stops no timer, the delays of the list always add up to the
\* time each timer is due, and none is negative: neither starting a timer again
\* nor an expiry shifts another one.
THEOREM DeltasAreRight ==
  ASSUME Stops = {}
  PROVE  Spec => []DeltasAreDues
<1>1. IInv /\ TInv /\ DInv => DeltasAreDues
  BY DuesFollow
<1>2. IInv /\ TInv /\ CInv /\ RemovalsInv /\ DInv /\ [Next]_vars => DInv'
  BY NextDues
<1> QED
  BY <1>1, <1>2, InitInv, NextInv, InitTypes, NextTypes, InitClock, NextClock,
     InitRemovals, NextRemovals, InitDues, PTL DEF Spec

\* Of such a program, until a full queue refuses the alarm's routine, no timer is
\* forgotten or late: whenever thread code runs the alarm is on, is set for a tick
\* to come, and for no later than the first timer is due.
THEOREM NoTimerStalls ==
  ASSUME Stops = {}
  PROVE  Spec => [](~dropped => NoStall)
<1>1. IInv /\ TInv /\ CInv /\ DInv => (~dropped => NoStall)
  BY StallFollows
<1>2. IInv /\ TInv /\ CInv /\ RemovalsInv /\ DInv /\ [Next]_vars => DInv'
  BY NextDues
<1> QED
  BY <1>1, <1>2, InitInv, NextInv, InitTypes, NextTypes, InitClock, NextClock,
     InitRemovals, NextRemovals, InitDues, PTL DEF Spec

\* Of such a program, no timer expires before the time it was started for.
THEOREM NoneIsEarly ==
  ASSUME Stops = {}
  PROVE  Spec => NotEarly
<1>1. IInv /\ TInv /\ CInv /\ DInv /\ [Next]_vars =>
         [RoutineRuns => \A t \in Left : due[t] <= now]_vars
  BY EarlyFollows
<1>2. IInv /\ TInv /\ CInv /\ RemovalsInv /\ DInv /\ [Next]_vars => DInv'
  BY NextDues
<1> QED
  BY <1>1, <1>2, InitInv, NextInv, InitTypes, NextTypes, InitClock, NextClock,
     InitRemovals, NextRemovals, InitDues, PTL DEF Spec, NotEarly

-----------------------------------------------------------------------------
(* A stop is final.  What is deferred about the timer s: *)

\* Work that inserts it, and work that ends a stop of it.
Puts(w, s) == w.kind \in {"insert_2", "insert"} /\ w.timer = s
Takes(w, s) == w.kind = "remove" /\ w.timer = s

\* It is removed, and not inserted after.
Ends(d, s) == \E j \in 1..Len(d) :
    Takes(d[j], s) /\ \A i \in 1..Len(d) : i > j => ~Puts(d[i], s)

NoPuts(d, s) == \A i \in 1..Len(d) : ~Puts(d[i], s)

\* The alarm's routine runs before it is removed.
Overtaken(d, s) == \E i, j \in 1..Len(d) : i < j /\ d[i].kind = "routine" /\ Takes(d[j], s)

\* Starts are for a delay of at least a tick.
Plain(w) == ~w.absolute /\ (w.kind \in {"insert_2", "insert"} => w.at # 0)
AllPlain(d) == \A i \in 1..Len(d) : Plain(d[i])

PlainInv == AllPlain(deferred) /\ (pc = "run" => Plain(task)) /\ \A t \in Timer : ~adjust[t]

\* A stopped timer is to be removed for good, or is out of the list for good.
EndsInv(s) == s \in stopped =>
    \/ Ends(deferred, s)
    \/ /\ NoPuts(deferred, s) /\ ~(pc = "run" /\ Puts(task, s))
       /\ s \in Running => pc = "run" /\ Takes(task, s)

\* One that a start made before the stop has put in the list again expires later
\* than an alarm whose routine runs before the removal.
LaterInv(s) ==
    s \in stopped \cap armed \cap Running /\ (RoutineRunning \/ Overtaken(deferred, s)) =>
        \E c \in Int : Expires(timer_queue, delta, s, c) /\ timer_start + c > timer_stop

StInv(s) == stopped \subseteq Stops /\ PlainInv /\ EndsInv(s) /\ LaterInv(s)

\* Work is appended.
LEMMA StopAppend ==
  ASSUME NEW d, NEW S, d \in Seq(S), NEW w, NEW s
  PROVE  /\ Ends(d, s) /\ ~Puts(w, s) => Ends(Append(d, w), s)
         /\ NoPuts(d, s) /\ ~Puts(w, s) => NoPuts(Append(d, w), s)
         /\ Takes(w, s) => Ends(Append(d, w), s)
         /\ ~Takes(w, s) /\ Overtaken(Append(d, w), s) => Overtaken(d, s)
         /\ AllPlain(d) /\ Plain(w) => AllPlain(Append(d, w))
<1> DEFINE new == Append(d, w)
           n == Len(d)
<1>1. n \in Nat /\ Len(new) = n + 1
  OBVIOUS
<1>2. new[n + 1] = w
  OBVIOUS
<1>3. \A i \in 1..n : new[i] = d[i]
  OBVIOUS
<1> HIDE DEF new
<1>4. 1..Len(new) = 1..n \union {n + 1} /\ n + 1 \notin 1..n /\ \A i \in 1..n : n + 1 > i
  BY <1>1
<1>5. ASSUME Ends(d, s), ~Puts(w, s) PROVE Ends(new, s)
  <2>1. PICK j \in 1..n : Takes(d[j], s) /\ \A i \in 1..n : i > j => ~Puts(d[i], s)
    BY <1>5 DEF Ends
  <2>2. j \in 1..Len(new) /\ Takes(new[j], s)
    BY <1>3, <1>4, <2>1
  <2>3. \A i \in 1..Len(new) : i > j => ~Puts(new[i], s)
    BY <1>2, <1>3, <1>4, <1>5, <2>1
  <2> QED
    BY <2>2, <2>3 DEF Ends
<1>6. ASSUME NoPuts(d, s), ~Puts(w, s) PROVE NoPuts(new, s)
  BY <1>2, <1>3, <1>4, <1>6 DEF NoPuts
<1>7. ASSUME Takes(w, s) PROVE Ends(new, s)
  <2>1. n + 1 \in 1..Len(new) /\ Takes(new[n + 1], s)
    BY <1>2, <1>4, <1>7
  <2>2. \A i \in 1..Len(new) : ~(i > n + 1)
    BY <1>1
  <2> QED
    BY <2>1, <2>2 DEF Ends
<1>8. ASSUME ~Takes(w, s), Overtaken(new, s) PROVE Overtaken(d, s)
  <2>1. PICK i \in 1..Len(new), j \in 1..Len(new) :
           i < j /\ new[i].kind = "routine" /\ Takes(new[j], s)
    BY <1>8 DEF Overtaken
  <2>2. j \in 1..n
    BY <1>2, <1>4, <1>8, <2>1
  <2>3. i \in 1..n
    BY <1>1, <2>1, <2>2
  <2> QED
    BY <1>3, <2>1, <2>2, <2>3 DEF Overtaken
<1>9. ASSUME AllPlain(d), Plain(w) PROVE AllPlain(new)
  BY <1>2, <1>3, <1>4, <1>9 DEF AllPlain
<1> QED
  BY <1>5, <1>6, <1>7, <1>8, <1>9 DEF new

\* The oldest work is taken.
LEMMA StopTail ==
  ASSUME NEW d, NEW S, d \in Seq(S), d # <<>>, NEW s
  PROVE  /\ Ends(d, s) => Ends(Tail(d), s) \/ (Takes(Head(d), s) /\ NoPuts(Tail(d), s))
         /\ NoPuts(d, s) => NoPuts(Tail(d), s) /\ ~Puts(Head(d), s)
         /\ Overtaken(Tail(d), s) => Overtaken(d, s)
         /\ Ends(d, s) /\ Head(d).kind = "routine" => Overtaken(d, s)
         /\ AllPlain(d) => AllPlain(Tail(d)) /\ Plain(Head(d))
<1> DEFINE new == Tail(d)
           n == Len(d)
<1>1. /\ n \in Nat \ {0} /\ Head(d) = d[1] /\ Len(new) = n - 1
      /\ \A i \in 1..n - 1 : new[i] = d[i + 1]
  BY HeadTailProperties, LenProperties, EmptySeq
<1> HIDE DEF new, n
<1>2. /\ 1 \in 1..n
      /\ \A i \in 1..n - 1 : i + 1 \in 1..n
      /\ \A i \in 1..n : i # 1 => i - 1 \in 1..n - 1 /\ new[i - 1] = d[i] /\ 1 < i
  BY <1>1
<1>3. ASSUME Ends(d, s) PROVE Ends(new, s) \/ (Takes(d[1], s) /\ NoPuts(new, s))
  <2>1. PICK j \in 1..n : Takes(d[j], s) /\ \A i \in 1..n : i > j => ~Puts(d[i], s)
    BY <1>3 DEF Ends, n
  <2>2. CASE j = 1
    <3>1. \A i \in 1..n - 1 : ~Puts(new[i], s)
      <4> SUFFICES ASSUME NEW i \in 1..n - 1 PROVE ~Puts(new[i], s)
        OBVIOUS
      <4>1. i + 1 \in 1..n /\ i + 1 > 1
        BY <1>1
      <4> QED
        BY <1>1, <2>1, <2>2, <4>1
    <3> QED
      BY <1>1, <2>1, <2>2, <3>1 DEF NoPuts
  <2>3. CASE j # 1
    <3>1. j - 1 \in 1..n - 1 /\ Takes(new[j - 1], s)
      BY <1>2, <2>1, <2>3
    <3>2. \A i \in 1..n - 1 : i > j - 1 => ~Puts(new[i], s)
      <4> SUFFICES ASSUME NEW i \in 1..n - 1, i > j - 1 PROVE ~Puts(new[i], s)
        OBVIOUS
      <4>1. i + 1 \in 1..n /\ i + 1 > j
        BY <1>1
      <4> QED
        BY <1>1, <2>1, <4>1
    <3> QED
      BY <1>1, <3>1, <3>2 DEF Ends
  <2> QED
    BY <2>2, <2>3
<1>4. ASSUME NoPuts(d, s) PROVE NoPuts(new, s) /\ ~Puts(d[1], s)
  BY <1>1, <1>2, <1>4 DEF NoPuts, n
<1>5. ASSUME Overtaken(new, s) PROVE Overtaken(d, s)
  <2>1. PICK i \in 1..n - 1, j \in 1..n - 1 :
           i < j /\ new[i].kind = "routine" /\ Takes(new[j], s)
    BY <1>1, <1>5 DEF Overtaken
  <2>2. i + 1 \in 1..n /\ j + 1 \in 1..n /\ i + 1 < j + 1
    BY <1>1, <2>1
  <2>3. d[i + 1].kind = "routine" /\ Takes(d[j + 1], s)
    BY <1>1, <2>1
  <2> QED
    BY <2>2, <2>3 DEF Overtaken, n
<1>6. ASSUME Ends(d, s), d[1].kind = "routine" PROVE Overtaken(d, s)
  <2>1. PICK j \in 1..n : Takes(d[j], s)
    BY <1>6 DEF Ends, n
  <2>2. j # 1
    BY <1>6, <2>1 DEF Takes
  <2>3. 1 < j
    BY <1>2, <2>2
  <2> QED
    BY <1>2, <1>6, <2>1, <2>3 DEF Overtaken, n
<1>7. ASSUME AllPlain(d) PROVE AllPlain(new) /\ Plain(d[1])
  BY <1>1, <1>2, <1>7 DEF AllPlain, n
<1> QED
  BY <1>1, <1>3, <1>4, <1>5, <1>6, <1>7 DEF new

\* Nothing deferred.
LEMMA StopNothing ==
  ASSUME NEW s
  PROVE  ~Ends(<<>>, s) /\ NoPuts(<<>>, s) /\ ~Overtaken(<<>>, s) /\ AllPlain(<<>>)
  BY DEF Ends, NoPuts, Overtaken, AllPlain

\* A timer that is overtaken is overtaken by the routine that is counted.
LEMMA OvertakenCounted ==
  ASSUME IInv, NEW s, RoutineRunning \/ Overtaken(deferred, s)
  PROVE  timer_events # 0
<1>1. CASE RoutineRunning
  BY <1>1 DEF IInv, EventsInv
<1>2. CASE Overtaken(deferred, s)
  <2>1. Routines(deferred) # {}
    BY <1>2 DEF Overtaken, Routines
  <2> QED
    BY <2>1 DEF IInv, EventsInv
<1> QED
  BY <1>1, <1>2

\* Steps outside the routines, that defer work which is no start of s nor a stop.
LEMMA StopDefers ==
  ASSUME NEW s, StInv(s), UNCHANGED <<timer_queue, delta, adjust, armed, timer_start, timer_stop>>,
         stopped' \subseteq stopped,
         UNCHANGED <<pc, task>> \/ (pc # "run" /\ pc' # "run"),
         AllPlain(deferred'),
         s \in stopped' => /\ Ends(deferred, s) => Ends(deferred', s)
                           /\ NoPuts(deferred, s) => NoPuts(deferred', s)
                           /\ Overtaken(deferred', s) => Overtaken(deferred, s)
  PROVE  StInv(s)'
<1>1. PlainInv'
  BY DEF StInv, PlainInv
<1>2. EndsInv(s)'
  BY DEF StInv, EndsInv, Running
<1>3. RoutineRunning' => RoutineRunning
  BY DEF RoutineRunning
<1>4. LaterInv(s)'
  BY <1>3 DEF StInv, LaterInv, Running
<1>5. stopped' \subseteq Stops
  BY DEF StInv
<1> QED
  BY <1>1, <1>2, <1>4, <1>5 DEF StInv

\* The program stops no timer but s, and starts timers for a delay of at least a
\* tick.
OnlyStops(s) == Stops \subseteq {s} /\ Instants = {} /\ 0 \notin Delays

\* A handler's start.
LEMMA IsrStartStop ==
  ASSUME NEW s, OnlyStops(s), IInv, StInv(s), NEW t \in Timer, NEW r \in Request, IsrStart(t, r)
  PROVE  StInv(s)'
<1> DEFINE first  == [Idle EXCEPT !.kind = "insert_1", !.timer = t, !.absolute = r.absolute]
           second == [Idle EXCEPT !.kind = "insert_2", !.timer = t, !.at = r.at]
           one == Append(deferred, first)
           two == Append(one, second)
<1>0. deferred \in Seq(Work) /\ AllPlain(deferred)
  BY DEF IInv, TypeInv, StInv, PlainInv
<1>1. /\ UNCHANGED <<timer_queue, delta, adjust, armed, timer_start, timer_stop, pc, task>>
      /\ stopped' = IF Room(2) THEN stopped \ {t} ELSE stopped
  BY DEF IsrStart, list, alarm
<1>2. deferred' = IF Room(2) THEN two ELSE IF Room(1) THEN one ELSE deferred
  <2>1. /\ deferred \o <<first, second>> = two /\ deferred \o <<first>> = one
        /\ deferred \o <<>> = deferred
    BY <1>0
  <2>2. deferred' = deferred \o (IF Room(2) THEN <<first, second>>
                                 ELSE IF Room(1) THEN <<first>> ELSE <<>>)
    BY DEF IsrStart
  <2> QED
    BY <2>1, <2>2
<1>3. r.at # 0 /\ r.absolute = FALSE
  BY DEF Request, OnlyStops
<1>4. ~Puts(first, s) /\ ~Takes(first, s) /\ Plain(first)
  BY <1>3 DEF Puts, Takes, Plain, Idle
<1>5. (t # s => ~Puts(second, s)) /\ ~Takes(second, s) /\ Plain(second)
  BY <1>3 DEF Puts, Takes, Plain, Idle
<1> HIDE DEF first, second
<1> DEFINE S == Work \union {first, second}
<1>6. deferred \in Seq(S) /\ one \in Seq(S)
  <2>1. deferred \in Seq(S)
    BY <1>0, SeqMonotonic
  <2>2. first \in S
    OBVIOUS
  <2> HIDE DEF S
  <2> QED
    BY <2>1, <2>2, AppendProperties
<1> HIDE DEF S
<1>7. Ends(deferred, s) => Ends(one, s)
  BY <1>4, <1>6, StopAppend
<1>8. NoPuts(deferred, s) => NoPuts(one, s)
  BY <1>4, <1>6, StopAppend
<1>9. Overtaken(one, s) => Overtaken(deferred, s)
  BY <1>4, <1>6, StopAppend
<1>10. AllPlain(one)
  BY <1>0, <1>4, <1>6, StopAppend
<1> HIDE DEF one
<1>11. t # s /\ Ends(one, s) => Ends(two, s)
  BY <1>5, <1>6, StopAppend
<1>12. t # s /\ NoPuts(one, s) => NoPuts(two, s)
  BY <1>5, <1>6, StopAppend
<1>13. Overtaken(two, s) => Overtaken(one, s)
  BY <1>5, <1>6, StopAppend
<1>14. AllPlain(two)
  BY <1>5, <1>6, <1>10, StopAppend
<1> HIDE DEF two
<1>15. AllPlain(deferred')
  BY <1>0, <1>2, <1>10, <1>14
<1>16. s \in stopped' => /\ Ends(deferred, s) => Ends(deferred', s)
                         /\ NoPuts(deferred, s) => NoPuts(deferred', s)
                         /\ Overtaken(deferred', s) => Overtaken(deferred, s)
  BY <1>1, <1>2, <1>7, <1>8, <1>9, <1>11, <1>12, <1>13
<1> QED
  BY <1>1, <1>15, <1>16, StopDefers

\* A handler's stop or destroy.
LEMMA IsrStopStop ==
  ASSUME NEW s, OnlyStops(s), IInv, StInv(s), NEW t \in Stops, IsrStop(t) \/ IsrDestroy(t)
  PROVE  StInv(s)'
<1> DEFINE w(k) == [Idle EXCEPT !.kind = k, !.timer = t]
<1>0. /\ deferred \in Seq(Work) /\ AllPlain(deferred) /\ t = s /\ stopped \subseteq Stops
      /\ UNCHANGED <<timer_queue, delta, adjust, timer_start, timer_stop, pc, task>>
  BY DEF IInv, TypeInv, StInv, PlainInv, OnlyStops, IsrStop, IsrDestroy, list, alarm
<1>1. \A k \in {"remove", "release"} :
         ~Puts(w(k), s) /\ Plain(w(k)) /\ (Takes(w(k), s) <=> k = "remove")
  BY <1>0 DEF Puts, Takes, Plain, Idle
<1>2. CASE UNCHANGED <<deferred, armed, stopped>>
  BY <1>0, <1>2, StopDefers
<1>3. CASE /\ deferred' = Append(deferred, w("remove"))
           /\ armed' = armed \ {t} /\ stopped' = stopped \union {t}
  <2>1. Plain(w("remove")) /\ Takes(w("remove"), s)
    BY <1>1
  <2> HIDE DEF w
  <2>2. Ends(deferred', s)
    BY <1>0, <1>3, <2>1, StopAppend
  <2>3. AllPlain(deferred')
    BY <1>0, <1>3, <2>1, StopAppend
  <2>4. PlainInv'
    BY <1>0, <2>3 DEF StInv, PlainInv
  <2>5. EndsInv(s)'
    BY <2>2 DEF EndsInv
  <2>6. LaterInv(s)'
    BY <1>0, <1>3 DEF LaterInv
  <2>7. stopped' \subseteq Stops
    BY <1>0, <1>3
  <2> QED
    BY <2>4, <2>5, <2>6, <2>7 DEF StInv
<1>4. CASE deferred' = Append(deferred, w("release")) /\ UNCHANGED <<armed, stopped>>
  <2>1. Plain(w("release")) /\ ~Takes(w("release"), s) /\ ~Puts(w("release"), s)
    BY <1>1
  <2> HIDE DEF w
  <2>2. Ends(deferred, s) => Ends(deferred', s)
    BY <1>0, <1>4, <2>1, StopAppend
  <2>3. NoPuts(deferred, s) => NoPuts(deferred', s)
    BY <1>0, <1>4, <2>1, StopAppend
  <2>4. Overtaken(deferred', s) => Overtaken(deferred, s)
    BY <1>0, <1>4, <2>1, StopAppend
  <2>5. AllPlain(deferred')
    BY <1>0, <1>4, <2>1, StopAppend
  <2> QED
    BY <1>0, <1>4, <2>2, <2>3, <2>4, <2>5, StopDefers
<1> QED
  BY <1>2, <1>3, <1>4 DEF IsrStop, IsrDestroy, list

\* The callers in thread mode.
LEMMA CallsStop ==
  ASSUME NEW s, OnlyStops(s), IInv, StInv(s), NEW t \in Timer,
         (\E r \in Request : SvcStart(t, r)) \/ (t \in Stops /\ (SvcStop(t) \/ SvcDestroy(t)))
  PROVE  StInv(s)'
<1>1. /\ deferred = <<>> /\ deferred' = <<>> /\ pc = "idle" /\ pc' = "run"
      /\ UNCHANGED <<timer_queue, delta, adjust, armed, timer_start, timer_stop>>
  BY DEF SvcStart, SvcStop, SvcDestroy, ThreadRuns, list, alarm
<1>2. /\ Plain(task') /\ task'.kind # "routine" /\ task'.timer = t
      /\ \/ stopped' = stopped \ {t} /\ ~Takes(task', s)
         \/ stopped' = stopped /\ t = s /\ ~Puts(task', s)
         \/ /\ stopped' = stopped \union {t} /\ t = s /\ t \in Stops
            /\ Takes(task', s) /\ ~Puts(task', s)
  <2>1. CASE \E r \in Request : SvcStart(t, r)
    <3>1. PICK r \in Request : SvcStart(t, r)
      BY <2>1
    <3>2. r.at # 0 /\ r.absolute = FALSE
      BY DEF Request, OnlyStops
    <3> QED
      BY <3>1, <3>2 DEF SvcStart, Plain, Takes
  <2>2. CASE t \in Stops /\ SvcStop(t)
    <3>1. t = s
      BY <2>2 DEF OnlyStops
    <3> QED
      BY <2>2, <3>1 DEF SvcStop, Plain, Takes, Puts, Idle
  <2>3. CASE t \in Stops /\ SvcDestroy(t)
    <3>1. t = s
      BY <2>3 DEF OnlyStops
    <3> QED
      BY <2>3, <3>1 DEF SvcDestroy, Plain, Takes, Puts, Idle
  <2> QED
    BY <2>1, <2>2, <2>3
<1>3. ~Ends(deferred, s) /\ NoPuts(deferred', s) /\ ~Overtaken(deferred', s) /\ AllPlain(deferred')
  BY <1>1, StopNothing
<1>4. PlainInv'
  BY <1>1, <1>2, <1>3 DEF StInv, PlainInv
<1>5. s \in stopped => s \notin Running
  BY <1>1, <1>3 DEF StInv, EndsInv
<1>6. Running' = Running
  BY <1>1 DEF Running
<1>7. EndsInv(s)'
  <2> SUFFICES ASSUME s \in stopped'
               PROVE  ~Puts(task', s) /\ (s \in Running => Takes(task', s))
    BY <1>1, <1>3, <1>6 DEF EndsInv
  <2> QED
    BY <1>2, <1>5 DEF Puts
<1>8. LaterInv(s)'
  BY <1>2, <1>3 DEF LaterInv, RoutineRunning
<1>9. stopped' \subseteq Stops
  BY <1>2 DEF StInv
<1> QED
  BY <1>4, <1>7, <1>8, <1>9 DEF StInv

\* PendSV takes the oldest work.
LEMMA TakeStop ==
  ASSUME NEW s, IInv, StInv(s), Take
  PROVE  StInv(s)'
<1>1. /\ pc = "idle" /\ pc' = "run" /\ deferred # <<>> /\ deferred \in Seq(Work)
      /\ task' = Head(deferred) /\ deferred' = Tail(deferred)
      /\ UNCHANGED <<timer_queue, delta, adjust, armed, timer_start, timer_stop, stopped>>
  BY DEF Take, IInv, TypeInv, list, alarm
<1>2. Ends(deferred, s) => Ends(deferred', s) \/ (Takes(task', s) /\ NoPuts(deferred', s))
  BY <1>1, StopTail
<1>3. NoPuts(deferred, s) => NoPuts(deferred', s) /\ ~Puts(task', s)
  BY <1>1, StopTail
<1>4. Overtaken(deferred', s) => Overtaken(deferred, s)
  BY <1>1, StopTail
<1>5. Ends(deferred, s) /\ task'.kind = "routine" => Overtaken(deferred, s)
  BY <1>1, StopTail
<1>6. AllPlain(deferred) => AllPlain(deferred') /\ Plain(task')
  BY <1>1, StopTail
<1>7. Running' = Running
  BY <1>1 DEF Running
<1>8. PlainInv'
  BY <1>1, <1>6 DEF StInv, PlainInv
<1>9. EndsInv(s)'
  <2> SUFFICES ASSUME s \in stopped
               PROVE  \/ Ends(deferred', s)
                      \/ /\ NoPuts(deferred', s) /\ ~Puts(task', s)
                         /\ s \in Running => Takes(task', s)
    BY <1>1, <1>7 DEF EndsInv
  <2>1. CASE Ends(deferred, s)
    <3>1. Takes(task', s) => ~Puts(task', s)
      BY DEF Takes, Puts
    <3> QED
      BY <1>2, <2>1, <3>1
  <2>2. CASE NoPuts(deferred, s) /\ s \notin Running
    BY <1>3, <2>2
  <2> QED
    BY <1>1, <2>1, <2>2 DEF StInv, EndsInv
<1>10. LaterInv(s)'
  <2> SUFFICES ASSUME s \in stopped, s \in armed, s \in Running,
                      task'.kind = "routine" \/ Overtaken(deferred', s)
               PROVE  \E c \in Int : /\ Expires(timer_queue, delta, s, c)
                                     /\ timer_start + c > timer_stop
    BY <1>1, <1>7 DEF LaterInv, RoutineRunning
  <2>1. Ends(deferred, s)
    BY <1>1 DEF StInv, EndsInv
  <2>2. Overtaken(deferred, s)
    BY <1>4, <1>5, <2>1
  <2> QED
    BY <2>2 DEF StInv, LaterInv
<1>11. stopped' \subseteq Stops
  BY <1>1 DEF StInv
<1> QED
  BY <1>8, <1>9, <1>10, <1>11 DEF StInv

\* A routine of a timer ends.
LEMMA EndsStop ==
  ASSUME NEW s, IInv, StInv(s), pc = "run", pc' # "run", UNCHANGED <<deferred, stopped>>,
         \A t \in Timer : ~adjust'[t],
         s \in stopped /\ ~Ends(deferred, s) => s \notin Running',
         s \in stopped \cap armed' \cap Running' /\ Overtaken(deferred, s) =>
            \E c \in Int : Expires(timer_queue', delta', s, c) /\ timer_start' + c > timer_stop'
  PROVE  StInv(s)'
<1>1. PlainInv'
  BY DEF StInv, PlainInv
<1>2. EndsInv(s)'
  <2>1. s \in stopped => Ends(deferred, s) \/ NoPuts(deferred, s)
    BY DEF StInv, EndsInv
  <2> QED
    BY <2>1 DEF EndsInv
<1>3. LaterInv(s)'
  <2>1. ~RoutineRunning'
    BY DEF RoutineRunning
  <2> QED
    BY <2>1 DEF LaterInv
<1>4. stopped' \subseteq Stops
  BY DEF StInv
<1> QED
  BY <1>1, <1>2, <1>3, <1>4 DEF StInv

\* An insertion.
LEMMA InsertStop ==
  ASSUME NEW s, IInv, TInv, CInv, StInv(s), NEW t \in Timer, NEW at \in Nat, at # 0,
         pc = "run", task.kind \in {"insert_2", "insert"}, task.timer = t,
         Insert(t, at, FALSE), UNCHANGED <<deferred, stopped, now>>
  PROVE  StInv(s)'
<1>0. /\ NumbersOK /\ timer_start \in Int /\ timer_stop \in Int /\ now \in Int
      /\ due \in [Timer -> Int]
  BY DEF TInv, NumbersOK
<1>1. Timed(timer_queue', Running \union {t}, delta')
  BY <1>0, InsertTimes
<1>2. Running' = Running \union {t}
  <2>1. Running' = ToSet(timer_queue')
    BY DEF Running
  <2> QED
    BY <1>1, <2>1, ListsHead DEF Timed
<1>3. /\ UNCHANGED <<adjust, timer_events>> /\ armed' = armed \union {t} /\ pc' # "run"
      /\ due'[t] = now + at
  BY <1>0 DEF Insert, ArmCallback, Alarm, Done
<1>4. timer_events # 0 => timer_stop' = timer_stop
  BY DEF Insert
<1>5. s \in stopped /\ ~Ends(deferred, s) => s \notin Running'
  <2> SUFFICES ASSUME s \in stopped, ~Ends(deferred, s) PROVE s \notin Running \union {t}
    BY <1>2
  <2>1. ~Puts(task, s) /\ (s \in Running => Takes(task, s))
    BY DEF StInv, EndsInv
  <2> QED
    BY <2>1 DEF Puts, Takes
<1>6. ASSUME s \in stopped, s \in armed', s \in Running', Overtaken(deferred, s)
      PROVE  \E c \in Int : /\ Expires(timer_queue', delta', s, c)
                            /\ timer_start' + c > timer_stop'
  <2>1. timer_events # 0
    BY <1>6, OvertakenCounted
  <2>2. timer_stop' = timer_stop /\ timer_stop <= now
    BY <1>4, <2>1 DEF CInv, OverInv
  <2>3. CASE s = t
    <3> DEFINE c == due'[t] - timer_start'
    <3>1. Expires(timer_queue', delta', t, c)
      BY <1>0, InsertTimes
    <3>2. timer_start' \in Int
      BY <1>0, InsertTimes
    <3>3. c \in Int /\ timer_start' + c = now + at
      <4>1. c = (now + at) - timer_start'
        BY <1>3
      <4>2. now + at \in Int /\ timer_start' \in Int
        BY <1>0, <3>2
      <4>3. \A a, b \in Int : a - b \in Int /\ b + (a - b) = a
        OBVIOUS
      <4> QED
        BY <4>1, <4>2, <4>3
    <3>4. now + at > timer_stop'
      BY <1>0, <2>2
    <3> HIDE DEF c
    <3> QED
      BY <2>3, <3>1, <3>3, <3>4
  <2>4. CASE s # t
    <3>1. s \in Running \ {t} /\ s \in armed
      BY <1>2, <1>3, <1>6, <2>4
    <3>2. PICK c \in Int : Expires(timer_queue, delta, s, c) /\ timer_start + c > timer_stop
      BY <1>6, <3>1 DEF StInv, LaterInv
    <3>3. Expires(timer_queue', delta', s, c)
      <4>1. \A u \in Running \ {t} : \A b :
               Expires(timer_queue, delta, u, b) => Expires(timer_queue', delta', u, b)
        BY <1>0, InsertTimes
      <4> QED
        BY <3>1, <3>2, <4>1
    <3>4. timer_start' = timer_start
      <4>1. \A u \in Running \ {t} : timer_start' = timer_start
        BY <1>0, InsertTimes
      <4> QED
        BY <3>1, <4>1
    <3> QED
      BY <2>2, <3>2, <3>3, <3>4
  <2> QED
    BY <2>3, <2>4
<1>7. \A u \in Timer : ~adjust'[u]
  BY <1>3 DEF StInv, PlainInv
<1> QED
  BY <1>3, <1>5, <1>6, <1>7, EndsStop

\* Every routine.
LEMMA RunStop ==
  ASSUME NEW s, OnlyStops(s), IInv, TInv, CInv, RemovalsInv, StInv(s), Run
  PROVE  StInv(s)'
<1>1. /\ pc = "run" /\ task \in Work /\ UNCHANGED <<deferred, stopped, now>> /\ pc' # "run"
      /\ Plain(task) /\ \A t \in Timer : ~adjust[t]
  BY RunEnds DEF Run, IInv, TypeInv, StInv, PlainInv
<1>2. CASE task.kind = "routine"
  <2>1. Routine
    BY <1>2 DEF Run
  <2>2. NumbersOK /\ timer_events = 1 /\ Routines(deferred) = {}
    BY <1>1, <1>2 DEF TInv, IInv, EventsInv, RoutineRunning
  <2>3. timer_busy
    BY <2>2 DEF TInv, BusyInv
  <2>4. Running' \subseteq Running
    BY <2>1, <2>2, <2>3, RoutineTimes
  <2>5. ~Overtaken(deferred, s)
    BY <2>2 DEF Overtaken, Routines
  <2>6. s \in stopped /\ ~Ends(deferred, s) => s \notin Running
    BY <1>2 DEF StInv, EndsInv, Takes
  <2>7. UNCHANGED adjust
    BY <2>1 DEF Routine
  <2> QED
    BY <1>1, <2>4, <2>5, <2>6, <2>7, EndsStop
<1>3. CASE task.kind # "routine"
  <2>1. task.kind \in About /\ task.timer \in Timer /\ task.at \in Nat
    BY <1>1, <1>3 DEF Work, TimerWork, Idle
  <2>2. CASE task.kind = "insert_1"
    <3>1. InsertAdjust(task.timer, task.absolute)
      BY <2>2 DEF Run
    <3>2. /\ UNCHANGED <<timer_queue, delta, armed, timer_start, timer_stop>>
          /\ adjust' = [adjust EXCEPT ![task.timer] = task.absolute]
      BY <3>1 DEF InsertAdjust, alarm
    <3>3. \A t \in Timer : ~adjust'[t]
      <4>1. adjust \in [Timer -> BOOLEAN] /\ ~task.absolute
        BY <1>1 DEF TInv, RestOK, Plain
      <4> QED
        BY <1>1, <3>2, <4>1
    <3>4. s \in stopped /\ ~Ends(deferred, s) => s \notin Running'
      BY <2>2, <3>2 DEF StInv, EndsInv, Takes, Running
    <3>5. s \in stopped \cap armed' \cap Running' /\ Overtaken(deferred, s) =>
            \E c \in Int : Expires(timer_queue', delta', s, c) /\ timer_start' + c > timer_stop'
      BY <3>2 DEF StInv, LaterInv, Running
    <3> QED
      BY <1>1, <3>3, <3>4, <3>5, EndsStop
  <2>3. CASE task.kind = "insert_2"
    <3>1. Insert(task.timer, task.at, adjust[task.timer]) /\ task.at # 0
      BY <1>1, <2>3 DEF Run, Plain
    <3>2. adjust[task.timer] = FALSE
      <4>1. adjust[task.timer] \in BOOLEAN /\ ~adjust[task.timer]
        BY <1>1, <2>1 DEF TInv, RestOK
      <4> QED
        BY <4>1
    <3> QED
      BY <1>1, <2>1, <2>3, <3>1, <3>2, InsertStop
  <2>4. CASE task.kind = "insert"
    <3>1. Insert(task.timer, task.at, task.absolute) /\ task.at # 0 /\ ~task.absolute
      BY <1>1, <2>4 DEF Run, Plain
    <3>2. task.absolute = FALSE
      <4>1. task.absolute \in BOOLEAN
        BY <1>1, <1>3 DEF Work, TimerWork, Idle
      <4>2. ~task.absolute
        BY <3>1
      <4> QED
        BY <4>1, <4>2, Zenon
    <3> QED
      BY <1>1, <2>1, <2>4, <3>1, <3>2, InsertStop
  <2>5. CASE task.kind \in {"remove", "release"}
    <3> DEFINE t == task.timer
    <3>1. RemoveTimer(t)
      BY <2>5 DEF Run
    <3>2. t = s
      <4>1. Pending(task.kind, t)
        BY <1>1 DEF Pending
      <4> QED
        BY <2>5, <4>1 DEF RemovalsInv, OnlyStops
    <3>3. s \notin Running'
      <4>1. CASE t \in Running
        <5>1. timer_queue' = UnlinkRemoved(timer_queue, delta, t).queue
          BY <3>1, <4>1 DEF RemoveTimer, NewList, Running
        <5>2. Lists(timer_queue, Running)
          BY DEF IInv, TypeInv
        <5>3. Lists(timer_queue', Running \ {t})
          BY <4>1, <5>1, <5>2, UnlinkFacts
        <5>4. Running' = Running \ {t}
          BY <5>3, ListsHead DEF Running
        <5> QED
          BY <3>2, <5>4
      <4>2. CASE t \notin Running
        <5>1. timer_queue' = timer_queue
          BY <3>1, <4>2 DEF RemoveTimer, Running
        <5> QED
          BY <3>2, <4>2, <5>1 DEF Running
      <4> QED
        BY <4>1, <4>2
    <3>4. UNCHANGED adjust
      BY <3>1 DEF RemoveTimer
    <3> QED
      BY <1>1, <3>3, <3>4, EndsStop
  <2> QED
    BY <2>1, <2>2, <2>3, <2>4, <2>5 DEF About
<1> QED
  BY <1>2, <1>3

\* The alarm's steps, which enqueue its routine at most.
LEMMA AlarmStop ==
  ASSUME NEW s, IInv, StInv(s), Arm \/ Check \/ Wait \/ Late \/ RtcIrq \/ Tick \/ UNCHANGED vars
  PROVE  StInv(s)'
<1>0. deferred \in Seq(Work) /\ AllPlain(deferred)
  BY DEF IInv, TypeInv, StInv, PlainInv
<1>1. /\ UNCHANGED <<timer_queue, delta, adjust, armed, timer_start, timer_stop, stopped>>
      /\ UNCHANGED <<pc, task>> \/ (pc # "run" /\ pc' # "run")
      /\ UNCHANGED deferred \/ EnqueueRoutine
  <2>1. CASE Arm \/ Check \/ Wait
    BY <2>1 DEF Arm, Check, Wait, Done, list, alarm
  <2>2. CASE Late \/ RtcIrq
    BY <2>2 DEF Late, RtcIrq, Done, list
  <2>3. CASE Tick \/ UNCHANGED vars
    BY <2>3 DEF Tick, vars, list, alarm
  <2> QED
    BY <2>1, <2>2, <2>3
<1> DEFINE w == [Idle EXCEPT !.kind = "routine"]
<1>2. UNCHANGED deferred \/ deferred' = Append(deferred, w)
  BY <1>1 DEF EnqueueRoutine
<1>3. ~Puts(w, s) /\ ~Takes(w, s) /\ Plain(w)
  BY DEF Puts, Takes, Plain, Idle
<1> HIDE DEF w
<1>4. Ends(deferred, s) => Ends(deferred', s)
  BY <1>0, <1>2, <1>3, StopAppend
<1>5. NoPuts(deferred, s) => NoPuts(deferred', s)
  BY <1>0, <1>2, <1>3, StopAppend
<1>6. Overtaken(deferred', s) => Overtaken(deferred, s)
  BY <1>0, <1>2, <1>3, StopAppend
<1>7. AllPlain(deferred')
  BY <1>0, <1>2, <1>3, StopAppend
<1> QED
  BY <1>1, <1>4, <1>5, <1>6, <1>7, StopDefers

\* Every step keeps it.
LEMMA NextStop ==
  ASSUME NEW s, OnlyStops(s)
  PROVE  IInv /\ TInv /\ CInv /\ RemovalsInv /\ StInv(s) /\ [Next]_vars => StInv(s)'
<1> SUFFICES ASSUME IInv, TInv, CInv, RemovalsInv, StInv(s), [Next]_vars PROVE StInv(s)'
  OBVIOUS
<1>1. ASSUME NEW t \in Timer, NEW r \in Request, SvcStart(t, r) \/ IsrStart(t, r)
      PROVE  StInv(s)'
  BY <1>1, CallsStop, IsrStartStop
<1>2. ASSUME NEW t \in Stops, SvcStop(t) \/ IsrStop(t) \/ SvcDestroy(t) \/ IsrDestroy(t)
      PROVE  StInv(s)'
  <2>1. t \in Timer
    BY RtcTimerAssumption
  <2> QED
    BY <1>2, <2>1, CallsStop, IsrStopStop
<1>3. CASE Take \/ Run
  BY <1>3, TakeStop, RunStop
<1>4. CASE Arm \/ Check \/ Wait \/ Late \/ RtcIrq \/ Tick \/ UNCHANGED vars
  BY <1>4, AlarmStop
<1> QED
  BY <1>1, <1>2, <1>3, <1>4 DEF Next, Kernel

\* Nothing is stopped at reset.
LEMMA InitStop ==
  ASSUME NEW s
  PROVE  Init => StInv(s)
<1> SUFFICES ASSUME Init PROVE StInv(s)
  OBVIOUS
<1>1. stopped = {} /\ deferred = <<>> /\ pc = "idle" /\ \A t \in Timer : ~adjust[t]
  BY DEF Init
<1>2. AllPlain(deferred)
  BY <1>1, StopNothing
<1> QED
  BY <1>1, <1>2 DEF StInv, PlainInv, EndsInv, LaterInv

\* The routine of the alarm leaves a stopped timer that was put in again alone.
LEMMA StopFollows ==
  ASSUME NEW s, OnlyStops(s), IInv, TInv, CInv, StInv(s), [Next]_vars, RoutineRuns
  PROVE  Left \intersect armed \intersect stopped = {}
<1> SUFFICES ASSUME NEW t \in Left \intersect armed \intersect stopped PROVE FALSE
  OBVIOUS
<1>1. Run /\ pc = "run" /\ task.kind = "routine"
  BY RoutineIsRun DEF RoutineRuns
<1>2. t = s
  BY DEF StInv, OnlyStops
<1>3. s \in Running /\ s \in Running \ Running'
  BY <1>2 DEF Left, Running
<1>4. PICK c \in Int : Expires(timer_queue, delta, s, c) /\ timer_start + c > timer_stop
  BY <1>1, <1>2, <1>3 DEF StInv, LaterInv, RoutineRunning
<1>5. Routine /\ NumbersOK /\ timer_events = 1 /\ timer_start \in Int /\ timer_stop \in Int
  BY <1>1 DEF Run, TInv, NumbersOK, IInv, EventsInv, RoutineRunning
<1>6. timer_busy
  BY <1>5 DEF TInv, BusyInv
<1>7. \A b \in Int : Expires(timer_queue, delta, s, b - timer_start) => b <= timer_stop
  BY <1>3, <1>5, <1>6, RoutineTimes
<1> DEFINE b == timer_start + c
<1>8. b \in Int /\ b - timer_start = c
  BY <1>5
<1>9. b <= timer_stop
  BY <1>4, <1>7, <1>8
<1> QED
  BY <1>4, <1>5, <1>8, <1>9

\* Of a program that stops or destroys no timer but one, and starts timers for at
\* least a tick: once stm32l0_rtc_timer_stop has reported success the callback is
\* not called until the timer is started again, although a start deferred before
\* the stop may still put it in the list and arm it.
THEOREM StopsAreFinal ==
  ASSUME NEW s \in Timer, Stops \subseteq {s}, Instants = {}, 0 \notin Delays
  PROVE  Spec => StopIsFinal
<1>0. OnlyStops(s)
  BY DEF OnlyStops
<1>1. IInv /\ TInv /\ CInv /\ StInv(s) /\ [Next]_vars =>
         [RoutineRuns => Left \intersect armed \intersect stopped = {}]_vars
  BY <1>0, StopFollows
<1>2. IInv /\ TInv /\ CInv /\ RemovalsInv /\ StInv(s) /\ [Next]_vars => StInv(s)'
  BY <1>0, NextStop
<1>3. Init => StInv(s)
  BY InitStop
<1> QED
  BY <1>1, <1>2, <1>3, InitInv, NextInv, InitTypes, NextTypes, InitClock, NextClock,
     InitRemovals, NextRemovals, PTL DEF Spec, StopIsFinal
=============================================================================
