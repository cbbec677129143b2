-------------------------- MODULE ArmEventProofs --------------------------
(***************************************************************************)
(* Theorems about ArmEvent for every set of events, every assignment of    *)
(* priorities, every program and every depth of the PendSV queue.          *)
(***************************************************************************)
EXTENDS ArmEvent, ListFacts

-----------------------------------------------------------------------------
(* The inductive invariant. *)

ControlType == [self : Event \union {None}, next : Event \union {None},
                stack : Seq(Event \union {None}),
                preemptive : Seq(Event), cooperative : Seq(Event),
                ceiling : 0..Cooperative, notify : BOOLEAN]

EventType == [Event -> [priority : 0..Cooperative, lock : BOOLEAN, count : Nat]]

\* The events that belong in a list, and those that belong in each.
Due(v)       == {e \in Event : v[e].count # 0 /\ ~v[e].lock}
Preempting(v) == {e \in Due(v) : v[e].priority # Cooperative}
Polled(v)     == {e \in Due(v) : v[e].priority = Cooperative}

Sorted(list, v) == \A i, j \in 1..Len(list) : i < j => ~More(v, list[j], list[i])

\* The two lists hold the events of P and C, the first of them in order.
Hold(c, v, P, C) ==
    /\ Lists(c.preemptive, P) /\ Lists(c.cooperative, C)
    /\ Sorted(c.preemptive, v)

\* The event chosen to run is the first of its list, and under the ceiling.
ChoiceIsHead(c, v) == c.next # None =>
    /\ c.preemptive # <<>> /\ c.next = Head(c.preemptive)
    /\ v[c.next].priority < c.ceiling

\* The kernel's lists between two routines.
ListsInv == Hold(control, event, Preempting(event), Polled(event))

ChoiceInv == /\ ChoiceIsHead(control, event)
             /\ control.next # None => control.notify \/ stage = "callback"

\* Every enqueue that is counted or deferred was one of the calls made.
CountInv == /\ ops <= program.ops
            /\ \A e \in Event : event[e].count = owed[e] /\ owed[e] + Len(deferred) <= ops

\* The destruction of e waits in the PendSV queue, at the place i or behind it.
Destroys(queue, i, e) ==
    \E j \in 1..Len(queue) : i <= j /\ queue[j].e = e /\ queue[j].kind = "destroy"

\* A structure that is not in use counts nothing or waits for its destruction, and
\* no deferred call is about it but for those before that destruction.
AliveInv == /\ \A e \in Event \ alive : event[e].count = 0 \/ Destroys(deferred, 1, e)
            /\ \A i \in 1..Len(deferred) :
                  deferred[i].e \in alive \/ Destroys(deferred, i, deferred[i].e)

\* Only the bottom of the stack of running routines is no routine.
Running(c) == Append(c.stack, c.self)

StackInv == \A j \in 1..Len(Running(control)) : Running(control)[j] = None <=> j = 1

TypeInv ==
    /\ program \in Programs
    /\ control \in ControlType
    /\ event \in EventType
    /\ alive \subseteq program.events
    /\ deferred \in Seq(Op) /\ Len(deferred) <= Depth
    /\ stage \in {"thread", "callback"}
    /\ saved \in Seq([ceiling : 0..Cooperative, depth : Nat])
    /\ ops \in Nat
    /\ owed \in [Event -> Nat]

\* In a program that sets no ceiling and leaves priorities alone, an event is
\* chosen exactly when the first of the list may preempt what runs.
Nested(c, v) == \A i, j \in 1..Len(Running(c)) :
    i < j /\ Running(c)[i] # None => More(v, Running(c)[j], Running(c)[i])

ChoiceIsRight(c, v) == c.next # None <=> Eligible(c, v)

PlainInv == Plain =>
    /\ saved = <<>>
    /\ alive = program.events
    /\ ChoiceIsRight(control, event)
    /\ Nested(control, event)

IInv == /\ TypeInv /\ ListsInv /\ ChoiceInv /\ CountInv /\ AliveInv /\ StackInv /\ PlainInv

-----------------------------------------------------------------------------
(* The scheduler's three routines. *)

\* The control block in a routine: its lists hold P and C, and its choice is sound.
Fine(c, v, P, C) ==
    /\ c \in ControlType
    /\ P \subseteq Event /\ C \subseteq Event
    /\ Hold(c, v, P, C)
    /\ ChoiceIsHead(c, v)
    /\ c.next # None => c.notify

\* What no list operation changes.
Kept(c, d) == d.self = c.self /\ d.stack = c.stack /\ d.ceiling = c.ceiling

\* Priorities are numbers, and NULL is no event.
LEMMA CooperativeIsNat == Cooperative \in Nat /\ None \notin Event
  BY ArmEventAssumption

\* A control block is sound for any events whose queued priorities are the same.
LEMMA FineOfPriorities ==
  ASSUME NEW c, NEW v, NEW w, NEW P, NEW C, Fine(c, v, P, C),
         \A x \in P : w[x].priority = v[x].priority
  PROVE  Fine(c, w, P, C)
<1>1. \A i \in 1..Len(c.preemptive) : c.preemptive[i] \in P
  BY ElementOfSeq DEF Fine, Hold, Lists
<1>2. Sorted(c.preemptive, w)
  BY <1>1 DEF Fine, Hold, Sorted, More
<1>3. c.preemptive # <<>> => Head(c.preemptive) \in P
  BY ListsHead DEF Fine, Hold
<1> QED
  BY <1>2, <1>3 DEF Fine, Hold, ChoiceIsHead

\* The choice depends on nothing of the events but their priorities.
LEMMA RightOfPriorities ==
  ASSUME NEW c \in ControlType, NEW v, NEW w, ChoiceIsRight(c, v),
         \A x \in Event : w[x].priority = v[x].priority
  PROVE  ChoiceIsRight(c, w)
<1>1. c.preemptive # <<>> => Head(c.preemptive) \in Event
  BY DEF ControlType
<1>2. c.self = None \/ c.self \in Event
  BY DEF ControlType
<1> QED
  BY <1>1, <1>2 DEF ChoiceIsRight, Eligible, More

\* armv6m_event_schedule chooses the head of the list, or nothing.
LEMMA ScheduleFacts ==
  ASSUME NEW c \in ControlType, NEW v
  PROVE  LET d == EventSchedule(c, v)
         IN  /\ d \in ControlType
             /\ Kept(c, d) /\ d.preemptive = c.preemptive /\ d.cooperative = c.cooperative
             /\ ChoiceIsHead(d, v) /\ ChoiceIsRight(d, v)
             /\ d.next # None => d.notify
<1>1. c.preemptive # <<>> => Head(c.preemptive) \in Event
  BY DEF ControlType
<1>2. CASE Eligible(c, v)
  <2> DEFINE d == [c EXCEPT !.next = Head(c.preemptive), !.notify = TRUE]
  <2>1. c.preemptive # <<>>
    BY <1>2 DEF Eligible
  <2>2. /\ d \in ControlType /\ d.self = c.self /\ d.stack = c.stack /\ d.ceiling = c.ceiling
        /\ d.preemptive = c.preemptive /\ d.cooperative = c.cooperative
        /\ d.next = Head(c.preemptive) /\ d.notify = TRUE
    BY <1>1, <2>1 DEF ControlType
  <2>3. EventSchedule(c, v) = d
    BY <1>2 DEF EventSchedule
  <2> HIDE DEF d
  <2> QED
    BY <1>1, <1>2, <2>1, <2>2, <2>3, CooperativeIsNat
    DEF Kept, ChoiceIsHead, ChoiceIsRight, Eligible
<1>3. CASE ~Eligible(c, v)
  <2> DEFINE d == [c EXCEPT !.next = None]
  <2>2. /\ d \in ControlType /\ d.self = c.self /\ d.stack = c.stack /\ d.ceiling = c.ceiling
        /\ d.preemptive = c.preemptive /\ d.cooperative = c.cooperative
        /\ d.next = None
    BY DEF ControlType
  <2>3. EventSchedule(c, v) = d
    BY <1>3 DEF EventSchedule
  <2> HIDE DEF d
  <2> QED
    BY <1>3, <2>2, <2>3 DEF Kept, ChoiceIsHead, ChoiceIsRight, Eligible
<1> QED
  BY <1>2, <1>3

\* The place of an event in the list: what is before it is as urgent, what is
\* after it is less urgent.
LEMMA PlaceFacts ==
  ASSUME NEW list \in Seq(Event), NEW v \in EventType, NEW e \in Event, Sorted(list, v)
  PROVE  /\ Place(list, v, e) \in 1..Len(list) + 1
         /\ \A i \in 1..Len(list) : i < Place(list, v, e) => ~More(v, e, list[i])
         /\ \A i \in 1..Len(list) : i >= Place(list, v, e) => More(v, e, list[i])
<1> DEFINE after == {i \in 1..Len(list) : More(v, e, list[i])}
<1>0. Len(list) \in Nat /\ \A i \in 1..Len(list) : list[i] \in Event
  BY LenProperties, ElementOfSeq
<1>1. CASE after = {}
  BY <1>0, <1>1 DEF Place
<1>2. CASE after # {}
  <2>1. \E i \in after : \A j \in after : i <= j
    <3>1. after \in SUBSET Nat
      BY <1>0
    <3> QED
      BY <3>1, <1>2, LeastNat
  <2>2. Place(list, v, e) \in after /\ \A j \in after : Place(list, v, e) <= j
    BY <1>2, <2>1 DEF Place
  <2> DEFINE p == Place(list, v, e)
  <2> HIDE DEF p
  <2>3. p \in 1..Len(list) /\ More(v, e, list[p])
    BY <2>2 DEF p
  <2>4. \A i \in 1..Len(list) : i < p => ~More(v, e, list[i])
    BY <1>0, <2>2, <2>3 DEF p
  <2>5. \A i \in 1..Len(list) : i >= p => More(v, e, list[i])
    <3> SUFFICES ASSUME NEW i \in 1..Len(list), i > p PROVE More(v, e, list[i])
      BY <1>0, <2>3
    <3>1. ~More(v, list[i], list[p])
      BY <2>3 DEF Sorted
    <3>2. /\ v[e].priority \in Int /\ v[list[i]].priority \in Int /\ v[list[p]].priority \in Int
      BY <1>0, <2>3, CooperativeIsNat DEF EventType
    <3> QED
      BY <2>3, <3>1, <3>2 DEF More
  <2> QED
    BY <1>0, <2>3, <2>4, <2>5 DEF p
<1> QED
  BY <1>1, <1>2

\* new is list, whose elements are P, with e put before those it is more urgent than.
Put(list, new, v, e, P) ==
    /\ Lists(new, P \cup {e}) /\ Sorted(new, v)
    /\ \A a, b : Precedes(list, a, b) => Precedes(new, a, b)
    /\ \A a \in P : ~More(v, e, a) => Precedes(new, a, e)
    /\ new # <<>>
    /\ Head(new) # e => list # <<>> /\ Head(new) = Head(list)

\* Inserted there, an event keeps the list in order, and is behind its equals.
LEMMA InsertSorted ==
  ASSUME NEW P \in SUBSET Event, NEW list, Lists(list, P), NEW v \in EventType,
         NEW e \in Event \ P, Sorted(list, v)
  PROVE  Put(list, InsertAt(list, Place(list, v, e), e), v, e, P)
<1> DEFINE p == Place(list, v, e)
           n == Len(list)
           new == InsertAt(list, p, e)
<1>1. /\ list \in Seq(Event) /\ n \in Nat
      /\ \A i \in 1..n : list[i] \in P /\ list[i] \in Event
  BY LenProperties, ElementOfSeq, SeqMonotonic DEF Lists
<1>2. /\ p \in 1..n + 1
      /\ \A i \in 1..n : i < p => ~More(v, e, list[i])
      /\ \A i \in 1..n : i >= p => More(v, e, list[i])
  BY <1>1, PlaceFacts
<1> HIDE DEF p
<1>a. e \in Event /\ e \notin P /\ p \in 1..Len(list) + 1
  BY <1>2
<1>3. /\ new \in Seq(Event) /\ Len(new) = n + 1
  BY <1>1, <1>a, InsertAtEntries, Zenon
<1>4. \A k \in 1..n + 1 : new[k] = IF k < p THEN list[k] ELSE IF k = p THEN e ELSE list[k - 1]
  BY <1>1, <1>a, InsertAtEntries
<1> HIDE DEF n
<1>5. /\ Lists(new, P \cup {e})
      /\ \A a, b : Precedes(list, a, b) => Precedes(new, a, b)
      /\ Head(new) = e \/ (list # <<>> /\ Head(new) = Head(list))
  BY <1>a, InsertLists, Zenon
<1> HIDE DEF new
<1>6. Sorted(new, v)
  <2> SUFFICES ASSUME NEW i \in 1..n + 1, NEW j \in 1..n + 1, i < j
               PROVE  ~More(v, new[j], new[i])
    BY <1>3 DEF Sorted
  <2>0. /\ \A x \in Event : v[x].priority \in Int
        /\ \A k, l \in 1..n : k < l => ~More(v, list[l], list[k])
    BY CooperativeIsNat DEF EventType, Sorted, n
  <2>1. CASE j < p
    <3>1. i \in 1..n /\ j \in 1..n /\ new[i] = list[i] /\ new[j] = list[j]
      BY <2>1, <1>1, <1>2, <1>4
    <3> QED
      BY <3>1, <2>0
  <2>2. CASE j = p
    <3>1. i \in 1..n /\ i < p /\ new[i] = list[i] /\ new[j] = e
      BY <2>2, <1>1, <1>2, <1>4
    <3> QED
      BY <3>1, <1>2
  <2>3. CASE j > p /\ i = p
    <3>1. j - 1 \in 1..n /\ j - 1 >= p /\ new[i] = e /\ new[j] = list[j - 1]
      BY <2>3, <1>1, <1>2, <1>4
    <3>2. More(v, e, list[j - 1]) /\ list[j - 1] \in Event
      BY <3>1, <1>1, <1>2
    <3> QED
      BY <3>1, <3>2, <2>0 DEF More
  <2>4. CASE j > p /\ i < p
    <3>1. /\ i \in 1..n /\ j - 1 \in 1..n /\ i < j - 1
          /\ new[i] = list[i] /\ new[j] = list[j - 1]
      BY <2>4, <1>1, <1>2, <1>4
    <3> QED
      BY <3>1, <2>0
  <2>5. CASE j > p /\ i > p
    <3>1. /\ i - 1 \in 1..n /\ j - 1 \in 1..n /\ i - 1 < j - 1
          /\ new[i] = list[i - 1] /\ new[j] = list[j - 1]
      BY <2>5, <1>1, <1>2, <1>4
    <3> QED
      BY <3>1, <2>0
  <2> QED
    BY <2>1, <2>2, <2>3, <2>4, <2>5, <1>2
<1>7. \A a \in P : ~More(v, e, a) => Precedes(new, a, e)
  <2> SUFFICES ASSUME NEW a \in P, ~More(v, e, a) PROVE Precedes(new, a, e)
    OBVIOUS
  <2>1. PICK i \in 1..n : list[i] = a
    BY DEF Lists, n
  <2>2. i < p
    BY <2>1, <1>2
  <2>3. i \in 1..n + 1 /\ p \in 1..n + 1 /\ new[i] = a /\ new[p] = e
    BY <2>1, <2>2, <1>1, <1>2, <1>4
  <2> QED
    BY <2>2, <2>3, <1>3 DEF Precedes
<1>8. /\ new # <<>>
      /\ Head(new) # e => list # <<>> /\ Head(new) = Head(list)
  <2>1. new # <<>>
    BY <1>1, <1>3
  <2> QED
    BY <2>1, <1>5, Zenon
<1> QED
  BY <1>5, <1>6, <1>7, <1>8 DEF Put, new, p
\* Whoever waits among its equals stays ahead of those that come later; X are
\* the events this is not said about.
Ordered(list, new, v, X) == \A e, f \in Event \ X :
    /\ e # f /\ v[e].priority = v[f].priority
    /\ e \in ToSet(list) /\ ~Precedes(list, f, e)
    /\ {e, f} \subseteq ToSet(new)
    => Precedes(new, e, f)

\* Of two elements of a list one is before the other.
LEMMA BeforeIsTotal ==
  ASSUME NEW M, NEW list, Lists(list, M), NEW a \in M, NEW b \in M, a # b
  PROVE  Precedes(list, a, b) \/ Precedes(list, b, a)
<1>1. PICK i \in 1..Len(list) : list[i] = a
  BY DEF Lists
<1>2. PICK j \in 1..Len(list) : list[j] = b
  BY DEF Lists
<1>3. i < j \/ j < i
  BY <1>1, <1>2, ListsHead
<1> QED
  BY <1>1, <1>2, <1>3 DEF Precedes

\* A list that is not changed keeps its order.
LEMMA OrderedSame ==
  ASSUME NEW P, NEW list, Lists(list, P), NEW v, NEW X
  PROVE  Ordered(list, list, v, X)
<1>1. ToSet(list) = P
  BY ListsHead
<1> QED
  BY <1>1, BeforeIsTotal DEF Ordered

\* An event that is in no list is inserted into the one its priority selects.
LEMMA InsertFine ==
  ASSUME NEW P, NEW C, NEW c, NEW v \in EventType, Fine(c, v, P, C),
         NEW e \in Event, e \notin P, e \notin C
  PROVE  LET d == EventInsert(c, v, e)
         IN  /\ Fine(d, v, IF v[e].priority = Cooperative THEN P ELSE P \cup {e},
                           IF v[e].priority = Cooperative THEN C \cup {e} ELSE C)
             /\ Kept(c, d)
             /\ ChoiceIsRight(c, v) => ChoiceIsRight(d, v)
             /\ \A a, b : Precedes(c.preemptive, a, b) => Precedes(d.preemptive, a, b)
             /\ Ordered(c.preemptive, d.preemptive, v, {})
<1> DEFINE d == EventInsert(c, v, e)
<1>0. /\ c \in ControlType /\ P \subseteq Event /\ C \subseteq Event
      /\ Lists(c.preemptive, P) /\ Lists(c.cooperative, C) /\ Sorted(c.preemptive, v)
      /\ ChoiceIsHead(c, v)
      /\ c.next # None => c.notify
  BY DEF Fine, Hold
<1>1. CASE v[e].priority = Cooperative
  <2> DEFINE new == Append(c.cooperative, e)
  <2>1. Lists(new, C \cup {e}) /\ new \in Seq(Event)
    <3>1. Lists(new, C \cup {e})
      BY <1>0, AppendLists
    <3>2. new \in Seq(C \cup {e}) /\ C \cup {e} \subseteq Event
      BY <1>0, <3>1 DEF Lists
    <3> HIDE DEF new
    <3> QED
      BY <3>1, <3>2, SeqMonotonic
  <2>2. d = [c EXCEPT !.cooperative = new]
    BY <1>1 DEF EventInsert
  <2> HIDE DEF new
  <2>3. /\ d \in ControlType /\ Kept(c, d) /\ d.preemptive = c.preemptive
        /\ d.cooperative = new /\ d.next = c.next /\ d.notify = c.notify
    BY <1>0, <2>1, <2>2 DEF ControlType, Kept
  <2> HIDE DEF d
  <2>4. Fine(d, v, P, C \cup {e})
    BY <1>0, <2>1, <2>3 DEF Fine, Hold, ChoiceIsHead, Kept
  <2>5. ChoiceIsRight(c, v) => ChoiceIsRight(d, v)
    BY <2>3 DEF ChoiceIsRight, Eligible, Kept
  <2>6. Ordered(c.preemptive, d.preemptive, v, {})
    BY <1>0, <2>3, OrderedSame
  <2> QED
    BY <1>1, <2>3, <2>4, <2>5, <2>6 DEF d
<1>2. CASE v[e].priority # Cooperative
  <2> DEFINE new == InsertAt(c.preemptive, Place(c.preemptive, v, e), e)
             b == [c EXCEPT !.preemptive = new]
  <2>1. /\ Lists(new, P \cup {e}) /\ Sorted(new, v)
        /\ \A x, y : Precedes(c.preemptive, x, y) => Precedes(new, x, y)
        /\ \A a \in P : ~More(v, e, a) => Precedes(new, a, e)
        /\ new # <<>>
        /\ Head(new) # e => c.preemptive # <<>> /\ Head(new) = Head(c.preemptive)
    <3> DEFINE list == c.preemptive
    <3>1. P \in SUBSET Event /\ Lists(list, P) /\ e \in Event \ P /\ Sorted(list, v)
      BY <1>0
    <3>2. new = InsertAt(list, Place(list, v, e), e)
      OBVIOUS
    <3> HIDE DEF new, list
    <3>3. Put(list, new, v, e, P)
      BY <3>1, <3>2, InsertSorted, Zenon
    <3> QED
      BY <3>3, Zenon DEF Put, list
  <2>2. new \in Seq(Event)
    BY <1>0, <2>1, SeqMonotonic DEF Lists
  <2>3. d = IF Head(b.preemptive) = e THEN EventSchedule(b, v) ELSE b
    BY <1>2 DEF EventInsert
  <2> HIDE DEF new
  <2>4. /\ b \in ControlType /\ Kept(c, b) /\ b.preemptive = new
        /\ b.cooperative = c.cooperative /\ b.next = c.next /\ b.notify = c.notify
    BY <1>0, <2>2 DEF ControlType, Kept
  <2> HIDE DEF b, d
  <2>7. /\ d.preemptive = new /\ Fine(d, v, P \cup {e}, C) /\ Kept(c, d)
        /\ (ChoiceIsRight(c, v) => ChoiceIsRight(d, v))
    <3>1. CASE Head(new) = e
      <4>1. d = EventSchedule(b, v)
        BY <2>3, <2>4, <3>1
      <4>2. /\ d \in ControlType
            /\ Kept(b, d) /\ d.preemptive = new /\ d.cooperative = c.cooperative
            /\ ChoiceIsHead(d, v) /\ ChoiceIsRight(d, v)
            /\ d.next # None => d.notify
        BY <4>1, <2>4, ScheduleFacts
      <4> QED
        BY <1>0, <2>1, <2>4, <4>2 DEF Fine, Hold, Kept
    <3>2. CASE Head(new) # e
      <4>1. d = b /\ c.preemptive # <<>> /\ Head(new) = Head(c.preemptive)
        BY <2>1, <2>3, <2>4, <3>2
      <4>2. ChoiceIsHead(d, v)
        BY <1>0, <2>1, <2>4, <4>1 DEF ChoiceIsHead, Kept
      <4>3. ChoiceIsRight(c, v) => ChoiceIsRight(d, v)
        BY <2>1, <2>4, <4>1 DEF ChoiceIsRight, Eligible, Kept
      <4> QED
        BY <1>0, <2>1, <2>4, <4>1, <4>2, <4>3 DEF Fine, Hold, Kept
    <3> QED
      BY <3>1, <3>2
  <2>8. Ordered(c.preemptive, new, v, {})
    <3> SUFFICES ASSUME NEW x \in Event, NEW y \in Event, x # y,
                        v[x].priority = v[y].priority,
                        x \in ToSet(c.preemptive), ~Precedes(c.preemptive, y, x),
                        {x, y} \subseteq ToSet(new)
                 PROVE  Precedes(new, x, y)
      BY DEF Ordered
    <3>1. ToSet(c.preemptive) = P /\ ToSet(new) = P \cup {e}
      BY <1>0, <2>1, ListsHead
    <3>2. CASE y \in P
      BY <3>1, <3>2, <1>0, <2>1, BeforeIsTotal
    <3>3. CASE y = e
      <4>1. v[e].priority \in Int
        BY CooperativeIsNat DEF EventType
      <4>2. ~More(v, e, x)
        BY <3>3, <4>1 DEF More
      <4> QED
        BY <3>1, <3>3, <4>2, <2>1
    <3> QED
      BY <3>1, <3>2, <3>3
  <2> QED
    BY <1>2, <2>1, <2>7, <2>8 DEF d
<1> QED
  BY <1>1, <1>2

\* An event is removed from the list it is in, which is the one its priority selects.
LEMMA RemoveFine ==
  ASSUME NEW P, NEW C, NEW c, NEW v \in EventType, Fine(c, v, P, C),
         NEW e \in Event,
         IF v[e].priority = Cooperative THEN e \in C \ P ELSE e \in P \ C
  PROVE  LET d == EventRemove(c, v, e)
         IN  /\ Fine(d, v, P \ {e}, C \ {e})
             /\ Kept(c, d)
             /\ ChoiceIsRight(c, v) => ChoiceIsRight(d, v)
             /\ \A a, b : a # e /\ b # e =>
                   (Precedes(c.preemptive, a, b) <=> Precedes(d.preemptive, a, b))
<1> DEFINE d == EventRemove(c, v, e)
<1>0. /\ c \in ControlType /\ P \subseteq Event /\ C \subseteq Event
      /\ Lists(c.preemptive, P) /\ Lists(c.cooperative, C) /\ Sorted(c.preemptive, v)
      /\ ChoiceIsHead(c, v)
      /\ c.next # None => c.notify
  BY DEF Fine, Hold
<1>00. /\ c.preemptive # <<>> => Head(c.preemptive) \in P
       /\ c.next # None => c.next \in P
  BY <1>0, ListsHead DEF ChoiceIsHead
<1>1. CASE v[e].priority = Cooperative
  <2> DEFINE new == RemoveFirst(c.cooperative, e)
             b == [c EXCEPT !.cooperative = new]
  <2>1. Lists(new, C \ {e}) /\ e \notin P /\ e \in C /\ e # None
    BY <1>0, <1>1, RemoveLists, CooperativeIsNat
  <2>2. new \in Seq(Event)
    BY <1>0, <2>1, SeqMonotonic DEF Lists
  <2>3. d = b
    BY <1>1, <1>00, <2>1 DEF EventRemove
  <2> HIDE DEF new
  <2>4. /\ b \in ControlType /\ Kept(c, b) /\ b.preemptive = c.preemptive
        /\ b.cooperative = new /\ b.next = c.next /\ b.notify = c.notify
    BY <1>0, <2>2 DEF ControlType, Kept
  <2> HIDE DEF b, d
  <2>5. P \ {e} = P
    BY <2>1
  <2>6. Fine(b, v, P \ {e}, C \ {e})
    BY <1>0, <2>1, <2>4, <2>5 DEF Fine, Hold, ChoiceIsHead, Kept
  <2>7. ChoiceIsRight(c, v) => ChoiceIsRight(b, v)
    BY <2>4 DEF ChoiceIsRight, Eligible, Kept
  <2> QED
    BY <2>3, <2>4, <2>6, <2>7 DEF d
<1>2. CASE v[e].priority # Cooperative
  <2> DEFINE list == c.preemptive
             new == RemoveFirst(list, e)
             b == [c EXCEPT !.preemptive = new]
  <2>1. /\ Lists(new, P \ {e})
        /\ \A x, y : /\ x # e /\ y # e
                    => (Precedes(list, x, y) <=> Precedes(new, x, y))
        /\ Head(list) # e => Head(new) = Head(list)
        /\ e \in P /\ e \notin C
    BY <1>0, <1>2, RemoveLists
  <2>2. new \in Seq(Event)
    BY <1>0, <2>1, SeqMonotonic DEF Lists
  <2>3. d = IF c.next = e THEN EventSchedule(b, v) ELSE b
    BY <1>2 DEF EventRemove
  <2> HIDE DEF new
  <2>4. /\ b \in ControlType /\ Kept(c, b) /\ b.preemptive = new
        /\ b.cooperative = c.cooperative /\ b.next = c.next /\ b.notify = c.notify
    BY <1>0, <2>2 DEF ControlType, Kept
  <2> HIDE DEF b, d
  <2>5. C \ {e} = C
    BY <2>1
  <2>6. Sorted(new, v)
    <3> SUFFICES ASSUME NEW i \in 1..Len(new), NEW j \in 1..Len(new), i < j
                 PROVE  ~More(v, new[j], new[i])
      BY DEF Sorted
    <3>1. new[i] \in P \ {e} /\ new[j] \in P \ {e} /\ Precedes(new, new[i], new[j])
      BY <2>1, ElementOfSeq DEF Lists, Precedes
    <3>2. Precedes(list, new[i], new[j])
      BY <3>1, <2>1
    <3> QED
      BY <3>2, <1>0 DEF Precedes, Sorted
  <2>7. new # <<>> => /\ list # <<>> /\ Head(new) \in P
                      /\ ~More(v, Head(new), Head(list))
    <3> SUFFICES ASSUME new # <<>>
                 PROVE  list # <<>> /\ Head(new) \in P /\ ~More(v, Head(new), Head(list))
      OBVIOUS
    <3>1. list # <<>> /\ Head(new) \in P \ {e} /\ Head(list) = list[1]
      BY <1>0, <2>1, ListsHead
    <3>2. PICK i \in 1..Len(list) : list[i] = Head(new)
      BY <3>1, <1>0 DEF Lists
    <3>3. Len(list) \in Nat /\ v[Head(new)].priority \in Int
      BY <1>0, <3>1, ListsHead, CooperativeIsNat DEF EventType
    <3>4. CASE i = 1
      BY <3>1, <3>2, <3>3, <3>4 DEF More
    <3>5. CASE i # 1
      <4>1. 1 \in 1..Len(list) /\ 1 < i
        BY <3>2, <3>3, <3>5
      <4> QED
        BY <4>1, <3>1, <3>2, <1>0 DEF Sorted
    <3> QED
      BY <3>1, <3>4, <3>5
  <2>8. CASE c.next = e
    <3>1. d = EventSchedule(b, v)
      BY <2>3, <2>8
    <3>2. /\ d \in ControlType
          /\ Kept(b, d) /\ d.preemptive = new /\ d.cooperative = c.cooperative
          /\ ChoiceIsHead(d, v) /\ ChoiceIsRight(d, v)
          /\ d.next # None => d.notify
      BY <3>1, <2>4, ScheduleFacts
    <3> QED
      BY <1>0, <2>1, <2>4, <2>5, <2>6, <3>2 DEF Fine, Hold, Kept, d
  <2>9. CASE c.next # e
    <3>1. d = b
      BY <2>3, <2>9
    <3>2. ChoiceIsHead(b, v)
      <4> SUFFICES ASSUME c.next # None
                   PROVE  new # <<>> /\ c.next = Head(new) /\ v[c.next].priority < c.ceiling
        BY <2>4 DEF ChoiceIsHead, Kept
      <4>1. list # <<>> /\ c.next = Head(list) /\ v[c.next].priority < c.ceiling
        BY <1>0 DEF ChoiceIsHead
      <4>2. Head(new) = Head(list) /\ c.next \in P \ {e}
        BY <4>1, <2>1, <2>9, <1>00
      <4> QED
        BY <4>1, <4>2, <2>1, ListsHead
    <3>3. ChoiceIsRight(c, v) => ChoiceIsRight(b, v)
      <4> SUFFICES ASSUME ChoiceIsRight(c, v) PROVE ChoiceIsRight(b, v)
        OBVIOUS
      <4>1. CASE c.next # None
        <5>1. new # <<>> /\ Head(new) = Head(list)
          BY <4>1, <3>2, <2>4, <1>0 DEF ChoiceIsHead
        <5> QED
          BY <5>1, <4>1, <2>4 DEF ChoiceIsRight, Eligible, Kept
      <4>2. CASE c.next = None
        <5> SUFFICES ASSUME Eligible(b, v) PROVE FALSE
          BY <4>2, <2>4 DEF ChoiceIsRight
        <5>1. /\ new # <<>> /\ v[Head(new)].priority < c.ceiling
              /\ c.self = None \/ More(v, Head(new), c.self)
          BY <2>4 DEF Eligible, Kept
        <5>2. list # <<>> /\ Head(new) \in P /\ ~More(v, Head(new), Head(list)) /\ Head(list) \in P
          BY <5>1, <2>7, <1>00
        <5>3. /\ v[Head(new)].priority \in Int /\ v[Head(list)].priority \in Int
              /\ c.ceiling \in Int
              /\ c.self # None => v[c.self].priority \in Int
          BY <5>2, <1>0, CooperativeIsNat DEF EventType, ControlType
        <5>4. Eligible(c, v)
          BY <5>1, <5>2, <5>3 DEF Eligible, More
        <5> QED
          BY <4>2, <5>4 DEF ChoiceIsRight
      <4> QED
        BY <4>1, <4>2
    <3> QED
      BY <1>0, <2>1, <2>4, <2>5, <2>6, <3>1, <3>2, <3>3 DEF Fine, Hold, Kept, d
  <2> QED
    BY <2>8, <2>9
<1> QED
  BY <1>1, <1>2
-----------------------------------------------------------------------------
(* The calls. *)

\* The lists are those that the events call for.
Sound(c, v) == v \in EventType /\ Fine(c, v, Preempting(v), Polled(v))

State(c, v) == [control |-> c, event |-> v]

SamePriorities(v, w) == \A x \in Event : w[x].priority = v[x].priority
SameCounts(v, w)     == \A x \in Event : w[x].count = v[x].count

\* The order kept depends on nothing of the events but their priorities.
LEMMA OrderedOfPriorities ==
  ASSUME NEW list, NEW new, NEW v, NEW w, SamePriorities(v, w), NEW X,
         Ordered(list, new, w, X)
  PROVE  Ordered(list, new, v, X)
  BY DEF Ordered, SamePriorities

\* What is kept for all but X is kept for all but more.
LEMMA OrderedLess ==
  ASSUME NEW list, NEW new, NEW v, NEW X, NEW Y, Ordered(list, new, v, X), X \subseteq Y
  PROVE  Ordered(list, new, v, Y)
  BY DEF Ordered

\* What is removed and not inserted again leaves the others in order.
LEMMA OrderedRemove ==
  ASSUME NEW P, NEW list, Lists(list, P), NEW new, NEW v, NEW e,
         \A a, b : a # e /\ b # e => (Precedes(list, a, b) <=> Precedes(new, a, b)),
         NEW M, Lists(new, M), M \subseteq P
  PROVE  Ordered(list, new, v, {e}) /\ (e \notin M => Ordered(list, new, v, {}))
<1>1. ToSet(list) = P /\ ToSet(new) = M
  BY ListsHead
<1>2. ASSUME NEW x \in M, NEW y \in M, x # y, x # e, y # e, ~Precedes(list, y, x)
      PROVE  Precedes(new, x, y)
  BY <1>2, BeforeIsTotal
<1>3. ASSUME NEW x, NEW y, x # e, y # e, x # y, ~Precedes(list, y, x),
             {x, y} \subseteq ToSet(new)
      PROVE  Precedes(new, x, y)
  BY <1>1, <1>2, <1>3
<1> QED
  BY <1>1, <1>3 DEF Ordered

\* The events in the lists are those that are counted and not locked.
LEMMA QueuedIsDue ==
  ASSUME NEW c, NEW v, Sound(c, v), NEW e \in Event
  PROVE  /\ Queued(c, e) <=> e \in Preempting(v) \/ e \in Polled(v)
         /\ Queued(c, e) <=> v[e].count # 0 /\ ~v[e].lock
<1>1. ToSet(c.preemptive) = Preempting(v) /\ ToSet(c.cooperative) = Polled(v)
  BY ListsHead DEF Sound, Fine, Hold
<1> QED
  BY <1>1 DEF Queued, Preempting, Polled, Due

\* svc_ routines remove an event only if it is in a list.
LEMMA RemovedIfQueued ==
  ASSUME NEW c, NEW v, Sound(c, v), NEW e \in Event
  PROVE  LET d == IF Queued(c, e) THEN EventRemove(c, v, e) ELSE c
         IN  /\ Fine(d, v, Preempting(v) \ {e}, Polled(v) \ {e})
             /\ Kept(c, d)
             /\ ChoiceIsRight(c, v) => ChoiceIsRight(d, v)
             /\ \A a, b : a # e /\ b # e =>
                   (Precedes(c.preemptive, a, b) <=> Precedes(d.preemptive, a, b))
<1>1. CASE Queued(c, e)
  <2>1. IF v[e].priority = Cooperative THEN e \in Polled(v) \ Preempting(v)
                                       ELSE e \in Preempting(v) \ Polled(v)
    BY <1>1, QueuedIsDue DEF Preempting, Polled
  <2> QED
    BY <1>1, <2>1, RemoveFine DEF Sound
<1>2. CASE ~Queued(c, e)
  <2>1. Preempting(v) \ {e} = Preempting(v) /\ Polled(v) \ {e} = Polled(v)
    BY <1>2, QueuedIsDue
  <2> QED
    BY <1>2, <2>1 DEF Sound, Kept
<1> QED
  BY <1>1, <1>2

\* armv6m_event_enqueue keeps the lists sound and loses nobody's place.
LEMMA EnqueueSound ==
  ASSUME NEW c, NEW v, Sound(c, v), NEW e \in Event
  PROVE  LET r == SvcEnqueue(State(c, v), e)
         IN  /\ Sound(r.control, r.event) /\ Kept(c, r.control)
             /\ SamePriorities(v, r.event)
             /\ \A x \in Event : r.event[x].count = IF x = e THEN v[x].count + 1 ELSE v[x].count
             /\ ChoiceIsRight(c, v) => ChoiceIsRight(r.control, r.event)
             /\ Ordered(c.preemptive, r.control.preemptive, v, {})
<1> DEFINE w == [v EXCEPT ![e] = [v[e] EXCEPT !.count = @ + 1]]
           d == IF v[e].count = 0 /\ ~v[e].lock THEN EventInsert(c, w, e) ELSE c
<1>1. SvcEnqueue(State(c, v), e) = [event |-> w, control |-> d]
  BY DEF SvcEnqueue, State, Change
<1>2. /\ v \in EventType /\ c \in ControlType
      /\ Fine(c, v, Preempting(v), Polled(v))
      /\ Lists(c.preemptive, Preempting(v))
  BY DEF Sound, Fine, Hold
<1>3. /\ w \in EventType /\ SamePriorities(v, w)
      /\ \A x \in Event : w[x].count = IF x = e THEN v[x].count + 1 ELSE v[x].count
      /\ \A x \in Event : w[x].lock = v[x].lock
  BY <1>2 DEF EventType, SamePriorities
<1>4. Fine(c, w, Preempting(v), Polled(v)) /\ (ChoiceIsRight(c, v) => ChoiceIsRight(c, w))
  <2>1. \A x \in Preempting(v) : w[x].priority = v[x].priority
    BY <1>3 DEF SamePriorities, Preempting, Due
  <2> HIDE DEF w
  <2>2. Fine(c, w, Preempting(v), Polled(v))
    BY <1>2, <2>1, FineOfPriorities
  <2>3. ChoiceIsRight(c, v) => ChoiceIsRight(c, w)
    BY <1>2, <1>3, RightOfPriorities DEF SamePriorities
  <2> QED
    BY <2>2, <2>3
<1>5. \A x \in Event : v[x].count \in Nat
  BY <1>2 DEF EventType
<1> HIDE DEF w
<1>6. CASE v[e].count = 0 /\ ~v[e].lock
  <2>1. e \notin Preempting(v) /\ e \notin Polled(v)
    BY <1>6 DEF Preempting, Polled, Due
  <2>2. /\ Preempting(w) = IF w[e].priority = Cooperative THEN Preempting(v)
                           ELSE Preempting(v) \cup {e}
        /\ Polled(w) = IF w[e].priority = Cooperative THEN Polled(v) \cup {e}
                       ELSE Polled(v)
    BY <1>3, <1>5, <1>6 DEF Preempting, Polled, Due, SamePriorities
  <2>3. /\ Fine(d, w, Preempting(w), Polled(w)) /\ Kept(c, d)
        /\ ChoiceIsRight(c, w) => ChoiceIsRight(d, w)
        /\ Ordered(c.preemptive, d.preemptive, w, {})
    <3> DEFINE P == Preempting(v)
               C == Polled(v)
    <3>1. Fine(c, w, P, C) /\ e \notin P /\ e \notin C /\ w \in EventType
      BY <1>3, <1>4, <2>1
    <3>2. d = EventInsert(c, w, e)
      BY <1>6
    <3> HIDE DEF P, C, d
    <3>3. /\ Fine(d, w, IF w[e].priority = Cooperative THEN P ELSE P \cup {e},
                        IF w[e].priority = Cooperative THEN C \cup {e} ELSE C)
          /\ Kept(c, d)
          /\ ChoiceIsRight(c, w) => ChoiceIsRight(d, w)
          /\ Ordered(c.preemptive, d.preemptive, w, {})
      BY <3>1, <3>2, InsertFine
    <3> QED
      BY <3>3, <2>2 DEF P, C
  <2>4. Ordered(c.preemptive, d.preemptive, v, {})
    BY <1>3, <2>3, OrderedOfPriorities
  <2> QED
    BY <1>1, <1>3, <1>4, <2>3, <2>4 DEF Sound
<1>7. CASE ~(v[e].count = 0 /\ ~v[e].lock)
  <2>1. Preempting(w) = Preempting(v) /\ Polled(w) = Polled(v)
    BY <1>3, <1>5, <1>7 DEF Preempting, Polled, Due, SamePriorities
  <2>2. Ordered(c.preemptive, c.preemptive, v, {})
    BY <1>2, OrderedSame
  <2>3. d = c
    BY <1>7
  <2> QED
    BY <1>1, <1>3, <1>4, <2>1, <2>2, <2>3 DEF Sound, Kept
<1> QED
  BY <1>6, <1>7

\* armv6m_event_lock takes the event out of its list.
LEMMA LockSound ==
  ASSUME NEW c, NEW v, Sound(c, v), NEW e \in Event
  PROVE  LET r == SvcLock(State(c, v), e)
         IN  /\ Sound(r.control, r.event) /\ Kept(c, r.control)
             /\ SamePriorities(v, r.event) /\ SameCounts(v, r.event)
             /\ ChoiceIsRight(c, v) => ChoiceIsRight(r.control, r.event)
             /\ Ordered(c.preemptive, r.control.preemptive, v, {})
<1> DEFINE w == [v EXCEPT ![e] = [v[e] EXCEPT !.lock = TRUE]]
           d == IF Queued(c, e) THEN EventRemove(c, v, e) ELSE c
<1>1. SvcLock(State(c, v), e) = [event |-> w, control |-> d]
  BY DEF SvcLock, State, Change
<1>2. v \in EventType /\ Lists(c.preemptive, Preempting(v))
  BY DEF Sound, Fine, Hold
<1>3. /\ w \in EventType /\ SamePriorities(v, w) /\ SameCounts(v, w)
      /\ \A x \in Event : w[x].lock = IF x = e THEN TRUE ELSE v[x].lock
  BY <1>2 DEF EventType, SamePriorities, SameCounts
<1>4. /\ Fine(d, v, Preempting(v) \ {e}, Polled(v) \ {e})
      /\ Kept(c, d)
      /\ ChoiceIsRight(c, v) => ChoiceIsRight(d, v)
      /\ \A a, b : a # e /\ b # e =>
            (Precedes(c.preemptive, a, b) <=> Precedes(d.preemptive, a, b))
  BY RemovedIfQueued
<1> HIDE DEF w, d
<1>5. Preempting(w) = Preempting(v) \ {e} /\ Polled(w) = Polled(v) \ {e}
  BY <1>3 DEF Preempting, Polled, Due, SamePriorities, SameCounts
<1>6. Fine(d, w, Preempting(w), Polled(w)) /\ (ChoiceIsRight(c, v) => ChoiceIsRight(d, w))
  <2>1. \A x \in Preempting(v) \ {e} : w[x].priority = v[x].priority
    BY <1>3 DEF SamePriorities, Preempting, Due
  <2>2. Fine(d, w, Preempting(v) \ {e}, Polled(v) \ {e})
    BY <1>4, <2>1, FineOfPriorities
  <2>3. ChoiceIsRight(d, v) => ChoiceIsRight(d, w)
    BY <1>3, <1>4, RightOfPriorities DEF Fine, SamePriorities
  <2> QED
    BY <1>4, <1>5, <2>2, <2>3
<1>7. Ordered(c.preemptive, d.preemptive, v, {})
  <2>1. Lists(d.preemptive, Preempting(v) \ {e})
    BY <1>4 DEF Fine, Hold
  <2> DEFINE M == Preempting(v) \ {e}
  <2>2. M \subseteq Preempting(v) /\ e \notin M
    OBVIOUS
  <2> HIDE DEF M
  <2> QED
    BY <1>2, <1>4, <2>1, <2>2, OrderedRemove DEF M
<1> QED
  BY <1>1, <1>3, <1>4, <1>6, <1>7 DEF Sound

\* armv6m_event_unlock puts an event that is counted back, behind its equals.
LEMMA UnlockSound ==
  ASSUME NEW c, NEW v, Sound(c, v), NEW e \in Event
  PROVE  LET r == SvcUnlock(State(c, v), e)
         IN  /\ Sound(r.control, r.event) /\ Kept(c, r.control)
             /\ SamePriorities(v, r.event) /\ SameCounts(v, r.event)
             /\ ChoiceIsRight(c, v) => ChoiceIsRight(r.control, r.event)
             /\ Ordered(c.preemptive, r.control.preemptive, v, {})
<1> DEFINE w == [v EXCEPT ![e] = [v[e] EXCEPT !.lock = FALSE]]
           d == IF w[e].count # 0 /\ ~Queued(c, e) THEN EventInsert(c, w, e) ELSE c
<1>1. SvcUnlock(State(c, v), e) = [event |-> w, control |-> d]
  BY DEF SvcUnlock, State, Change
<1>2. /\ v \in EventType /\ c \in ControlType
      /\ Fine(c, v, Preempting(v), Polled(v))
      /\ Lists(c.preemptive, Preempting(v))
  BY DEF Sound, Fine, Hold
<1>3. /\ w \in EventType /\ SamePriorities(v, w) /\ SameCounts(v, w)
      /\ \A x \in Event : w[x].lock = IF x = e THEN FALSE ELSE v[x].lock
  BY <1>2 DEF EventType, SamePriorities, SameCounts
<1>4. Fine(c, w, Preempting(v), Polled(v)) /\ (ChoiceIsRight(c, v) => ChoiceIsRight(c, w))
  <2>1. \A x \in Preempting(v) : w[x].priority = v[x].priority
    BY <1>3 DEF SamePriorities, Preempting, Due
  <2> HIDE DEF w
  <2>2. Fine(c, w, Preempting(v), Polled(v))
    BY <1>2, <2>1, FineOfPriorities
  <2>3. ChoiceIsRight(c, v) => ChoiceIsRight(c, w)
    BY <1>2, <1>3, RightOfPriorities DEF SamePriorities
  <2> QED
    BY <2>2, <2>3
<1> HIDE DEF w
<1>6. CASE w[e].count # 0 /\ ~Queued(c, e)
  <2>1. e \notin Preempting(v) /\ e \notin Polled(v)
    BY <1>6, QueuedIsDue
  <2>2. /\ Preempting(w) = IF w[e].priority = Cooperative THEN Preempting(v)
                           ELSE Preempting(v) \cup {e}
        /\ Polled(w) = IF w[e].priority = Cooperative THEN Polled(v) \cup {e}
                       ELSE Polled(v)
    <3>1. Due(w) = Due(v) \cup {e} /\ Due(v) \subseteq Event
      BY <1>3, <1>6 DEF Due, SameCounts
    <3>2. \A x \in Event : w[x].priority = v[x].priority
      BY <1>3, Zenon DEF SamePriorities
    <3>3. CASE w[e].priority = Cooperative
      BY <3>1, <3>2, <3>3 DEF Preempting, Polled
    <3>4. CASE w[e].priority # Cooperative
      BY <3>1, <3>2, <3>4 DEF Preempting, Polled
    <3> QED
      BY <3>3, <3>4
  <2>3. /\ Fine(d, w, Preempting(w), Polled(w)) /\ Kept(c, d)
        /\ ChoiceIsRight(c, w) => ChoiceIsRight(d, w)
        /\ Ordered(c.preemptive, d.preemptive, w, {})
    <3> DEFINE P == Preempting(v)
               C == Polled(v)
    <3>1. Fine(c, w, P, C) /\ e \notin P /\ e \notin C /\ w \in EventType
      BY <1>3, <1>4, <2>1
    <3>2. d = EventInsert(c, w, e)
      BY <1>6
    <3> HIDE DEF P, C, d
    <3>3. /\ Fine(d, w, IF w[e].priority = Cooperative THEN P ELSE P \cup {e},
                        IF w[e].priority = Cooperative THEN C \cup {e} ELSE C)
          /\ Kept(c, d)
          /\ ChoiceIsRight(c, w) => ChoiceIsRight(d, w)
          /\ Ordered(c.preemptive, d.preemptive, w, {})
      BY <3>1, <3>2, InsertFine
    <3> QED
      BY <3>3, <2>2 DEF P, C
  <2>4. Ordered(c.preemptive, d.preemptive, v, {})
    BY <1>3, <2>3, OrderedOfPriorities
  <2> QED
    BY <1>1, <1>3, <1>4, <2>3, <2>4 DEF Sound
<1>7. CASE ~(w[e].count # 0 /\ ~Queued(c, e))
  <2>1. Preempting(w) = Preempting(v) /\ Polled(w) = Polled(v)
    <3>0. \A x \in Event : w[x].count = v[x].count
      BY <1>3 DEF SameCounts
    <3>a. w[e].count = 0 \/ (v[e].count # 0 /\ ~v[e].lock)
      BY <1>7, QueuedIsDue, Zenon
    <3>1. Due(w) = Due(v)
      <4> HIDE DEF w
      <4> QED
        BY <1>3, <3>0, <3>a DEF Due
    <3> QED
      BY <1>3, <3>1, Zenon DEF Preempting, Polled, SamePriorities, Due
  <2>2. Ordered(c.preemptive, c.preemptive, v, {})
    BY <1>2, OrderedSame
  <2>3. d = c
    BY <1>7
  <2> QED
    BY <1>1, <1>3, <1>4, <2>1, <2>2, <2>3 DEF Sound, Kept
<1> QED
  BY <1>6, <1>7

\* armv6m_event_set_priority moves a queued event to its new place.
LEMMA SetPrioritySound ==
  ASSUME NEW c, NEW v, Sound(c, v), NEW e \in Event, NEW p \in 0..Cooperative
  PROVE  LET r == SvcSetPriority(State(c, v), e, p)
         IN  /\ Sound(r.control, r.event) /\ Kept(c, r.control)
             /\ SameCounts(v, r.event)
             /\ Ordered(c.preemptive, r.control.preemptive, v, {e})
<1> DEFINE w == [v EXCEPT ![e] = [v[e] EXCEPT !.priority = p]]
           b == IF Queued(c, e) THEN EventRemove(c, v, e) ELSE c
           d == IF Queued(c, e) THEN EventInsert(b, w, e) ELSE c
<1>2. v \in EventType /\ Lists(c.preemptive, Preempting(v))
  BY DEF Sound, Fine, Hold
<1>3. CASE v[e].priority = p
  <2>1. SvcSetPriority(State(c, v), e, p) = State(c, v)
    BY <1>3 DEF SvcSetPriority, State
  <2>2. Ordered(c.preemptive, c.preemptive, v, {e})
    BY <1>2, OrderedSame
  <2> QED
    BY <2>1, <2>2 DEF State, Kept, SameCounts
<1>4. CASE v[e].priority # p
  <2>1. SvcSetPriority(State(c, v), e, p) = [event |-> w, control |-> d]
    BY <1>4 DEF SvcSetPriority, State, Change
  <2>2. /\ w \in EventType /\ SameCounts(v, w)
        /\ \A x \in Event : w[x].lock = v[x].lock
        /\ \A x \in Event : x # e => w[x].priority = v[x].priority
    BY <1>2 DEF EventType, SameCounts
  <2>3. /\ Fine(b, v, Preempting(v) \ {e}, Polled(v) \ {e})
        /\ Kept(c, b)
        /\ \A x, y : x # e /\ y # e =>
              (Precedes(c.preemptive, x, y) <=> Precedes(b.preemptive, x, y))
    BY RemovedIfQueued
  <2> HIDE DEF w, b
  <2>4. Fine(b, w, Preempting(v) \ {e}, Polled(v) \ {e})
    <3>1. \A x \in Preempting(v) \ {e} : w[x].priority = v[x].priority
      BY <2>2 DEF Preempting, Due
    <3> QED
      BY <2>3, <3>1, FineOfPriorities
  <2>5. CASE Queued(c, e)
    <3>1. /\ Preempting(w) = IF w[e].priority = Cooperative THEN Preempting(v) \ {e}
                             ELSE (Preempting(v) \ {e}) \cup {e}
          /\ Polled(w) = IF w[e].priority = Cooperative THEN (Polled(v) \ {e}) \cup {e}
                         ELSE Polled(v) \ {e}
      BY <2>2, <2>5, QueuedIsDue DEF Preempting, Polled, Due, SameCounts
    <3>2. /\ Fine(d, w, Preempting(w), Polled(w)) /\ Kept(b, d)
          /\ \A x, y : Precedes(b.preemptive, x, y) => Precedes(d.preemptive, x, y)
      <4> DEFINE P == Preempting(v) \ {e}
                 C == Polled(v) \ {e}
      <4>1. e \notin P /\ e \notin C
        OBVIOUS
      <4>2. Fine(b, w, P, C) /\ d = EventInsert(b, w, e)
        BY <2>4, <2>5
      <4> HIDE DEF P, C, d
      <4>3. /\ Fine(d, w, IF w[e].priority = Cooperative THEN P ELSE P \cup {e},
                          IF w[e].priority = Cooperative THEN C \cup {e} ELSE C)
            /\ Kept(b, d)
            /\ \A x, y : Precedes(b.preemptive, x, y) => Precedes(d.preemptive, x, y)
        BY <2>2, <4>1, <4>2, InsertFine
      <4> QED
        BY <4>3, <3>1 DEF P, C
    <3>3. Ordered(c.preemptive, d.preemptive, v, {e})
      <4> SUFFICES ASSUME NEW x \in Event \ {e}, NEW y \in Event \ {e}, x # y,
                          x \in ToSet(c.preemptive), ~Precedes(c.preemptive, y, x),
                          {x, y} \subseteq ToSet(d.preemptive)
                   PROVE  Precedes(d.preemptive, x, y)
        BY DEF Ordered
      <4>1. ToSet(d.preemptive) = Preempting(w) /\ ToSet(c.preemptive) = Preempting(v)
        BY <1>2, <3>2, ListsHead DEF Fine, Hold
      <4>2. y \in Preempting(v)
        BY <4>1, <2>2 DEF Preempting, Due, SameCounts
      <4>3. Precedes(c.preemptive, x, y)
        BY <1>2, <4>1, <4>2, BeforeIsTotal
      <4> QED
        BY <4>3, <2>3, <3>2
    <3> QED
      BY <2>1, <2>2, <2>3, <3>2, <3>3 DEF Sound, Kept
  <2>6. CASE ~Queued(c, e)
    <3>1. /\ Preempting(w) = Preempting(v) \ {e} /\ Polled(w) = Polled(v) \ {e}
          /\ d = c /\ b = c
      BY <2>2, <2>6, QueuedIsDue DEF Preempting, Polled, Due, SameCounts, b
    <3>2. Ordered(c.preemptive, d.preemptive, v, {e})
      BY <1>2, <3>1, OrderedSame
    <3> HIDE DEF d
    <3>3. Sound(d, w) /\ Kept(c, d)
      BY <2>2, <2>3, <2>4, <3>1 DEF Sound
    <3> QED
      BY <2>1, <2>2, <3>2, <3>3
  <2> QED
    BY <2>5, <2>6
<1> QED
  BY <1>3, <1>4

\* armv6m_event_destroy leaves the event in no list.
LEMMA DestroySound ==
  ASSUME NEW c, NEW v, Sound(c, v), NEW e \in Event
  PROVE  LET r == SvcDestroy(State(c, v), e)
         IN  /\ Sound(r.control, r.event) /\ Kept(c, r.control)
             /\ Ordered(c.preemptive, r.control.preemptive, v, {e})
<1> DEFINE w == [v EXCEPT ![e] = [priority |-> 0, lock |-> FALSE, count |-> 0]]
           d == IF Queued(c, e) THEN EventRemove(c, v, e) ELSE c
<1>1. SvcDestroy(State(c, v), e) = [event |-> w, control |-> d]
  BY DEF SvcDestroy, State, Change
<1>2. v \in EventType /\ Lists(c.preemptive, Preempting(v))
  BY DEF Sound, Fine, Hold
<1>3. /\ w \in EventType /\ w[e].count = 0
      /\ \A x \in Event : x # e => w[x] = v[x]
  BY <1>2, CooperativeIsNat DEF EventType
<1>4. /\ Fine(d, v, Preempting(v) \ {e}, Polled(v) \ {e})
      /\ Kept(c, d)
      /\ \A a, b : a # e /\ b # e =>
            (Precedes(c.preemptive, a, b) <=> Precedes(d.preemptive, a, b))
  BY RemovedIfQueued
<1> HIDE DEF w, d
<1>5. Preempting(w) = Preempting(v) \ {e} /\ Polled(w) = Polled(v) \ {e}
  BY <1>3 DEF Preempting, Polled, Due
<1>6. Fine(d, w, Preempting(w), Polled(w))
  <2>1. \A x \in Preempting(v) \ {e} : w[x].priority = v[x].priority
    BY <1>3 DEF Preempting, Due
  <2> QED
    BY <1>4, <1>5, <2>1, FineOfPriorities
<1>7. Ordered(c.preemptive, d.preemptive, v, {e})
  <2>1. Lists(d.preemptive, Preempting(v) \ {e})
    BY <1>4 DEF Fine, Hold
  <2> DEFINE M == Preempting(v) \ {e}
  <2>2. M \subseteq Preempting(v)
    OBVIOUS
  <2> HIDE DEF M
  <2> QED
    BY <1>2, <1>4, <2>1, <2>2, OrderedRemove DEF M
<1> QED
  BY <1>1, <1>3, <1>4, <1>6, <1>7 DEF Sound

\* What a call names.
LEMMA OpFacts ==
  ASSUME program \in Programs, NEW op \in Op
  PROVE  /\ op.kind \in {"enqueue", "lock", "unlock", "priority", "destroy"}
         /\ op.e \in program.events /\ op.e \in Event
         /\ op.kind = "priority" => op.p \in 0..Cooperative
         /\ op.kind \in {"priority", "destroy"} => op.e \in program.retuned
  BY ArmEventAssumption DEF Op

\* Any call keeps the lists sound, and counts one event once more at most.
LEMMA ApplySound ==
  ASSUME program \in Programs, NEW op \in Op, NEW c, NEW v, Sound(c, v)
  PROVE  LET r == Apply(op, State(c, v))
         IN  /\ Sound(r.control, r.event) /\ Kept(c, r.control)
             /\ \A x \in Event : r.event[x].count =
                   IF x = op.e /\ op.kind = "enqueue" THEN v[x].count + 1
                   ELSE IF x = op.e /\ op.kind = "destroy" THEN 0 ELSE v[x].count
             /\ Plain => /\ SamePriorities(v, r.event)
                         /\ ChoiceIsRight(c, v) => ChoiceIsRight(r.control, r.event)
             /\ Ordered(c.preemptive, r.control.preemptive, v, program.retuned)
<1> DEFINE r == Apply(op, State(c, v))
<1>0. /\ op.kind \in {"enqueue", "lock", "unlock", "priority", "destroy"} /\ op.e \in Event
      /\ op.kind = "priority" => op.p \in 0..Cooperative
      /\ op.kind \in {"priority", "destroy"} => op.e \in program.retuned /\ ~Plain
  BY OpFacts DEF Plain
<1>1. CASE op.kind = "enqueue"
  <2>1. r = SvcEnqueue(State(c, v), op.e)
    BY <1>1 DEF Apply
  <2> HIDE DEF r
  <2>2. /\ Sound(r.control, r.event) /\ Kept(c, r.control)
        /\ SamePriorities(v, r.event)
        /\ \A x \in Event : r.event[x].count = IF x = op.e THEN v[x].count + 1 ELSE v[x].count
        /\ ChoiceIsRight(c, v) => ChoiceIsRight(r.control, r.event)
        /\ Ordered(c.preemptive, r.control.preemptive, v, {})
    BY <1>0, <2>1, EnqueueSound
  <2>3. Ordered(c.preemptive, r.control.preemptive, v, program.retuned)
    BY <2>2, OrderedLess
  <2> QED
    BY <1>1, <2>2, <2>3 DEF r
<1>2. CASE op.kind = "lock"
  <2>1. r = SvcLock(State(c, v), op.e)
    BY <1>2 DEF Apply
  <2> HIDE DEF r
  <2>2. /\ Sound(r.control, r.event) /\ Kept(c, r.control)
        /\ SamePriorities(v, r.event) /\ SameCounts(v, r.event)
        /\ ChoiceIsRight(c, v) => ChoiceIsRight(r.control, r.event)
        /\ Ordered(c.preemptive, r.control.preemptive, v, {})
    BY <1>0, <2>1, LockSound
  <2>3. Ordered(c.preemptive, r.control.preemptive, v, program.retuned)
    BY <2>2, OrderedLess
  <2> QED
    BY <1>2, <2>2, <2>3 DEF r, SameCounts
<1>3. CASE op.kind = "unlock"
  <2>1. r = SvcUnlock(State(c, v), op.e)
    BY <1>3 DEF Apply
  <2> HIDE DEF r
  <2>2. /\ Sound(r.control, r.event) /\ Kept(c, r.control)
        /\ SamePriorities(v, r.event) /\ SameCounts(v, r.event)
        /\ ChoiceIsRight(c, v) => ChoiceIsRight(r.control, r.event)
        /\ Ordered(c.preemptive, r.control.preemptive, v, {})
    BY <1>0, <2>1, UnlockSound
  <2>3. Ordered(c.preemptive, r.control.preemptive, v, program.retuned)
    BY <2>2, OrderedLess
  <2> QED
    BY <1>3, <2>2, <2>3 DEF r, SameCounts
<1>4. CASE op.kind = "priority"
  <2>1. r = SvcSetPriority(State(c, v), op.e, op.p)
    BY <1>4 DEF Apply
  <2> HIDE DEF r
  <2>2. /\ Sound(r.control, r.event) /\ Kept(c, r.control)
        /\ SameCounts(v, r.event)
        /\ Ordered(c.preemptive, r.control.preemptive, v, {op.e})
    BY <1>0, <1>4, <2>1, SetPrioritySound
  <2>3. Ordered(c.preemptive, r.control.preemptive, v, program.retuned)
    BY <1>0, <1>4, <2>2, OrderedLess
  <2> QED
    BY <1>0, <1>4, <2>2, <2>3 DEF r, SameCounts
<1>5. CASE op.kind = "destroy"
  <2>1. r = SvcDestroy(State(c, v), op.e)
    BY <1>5 DEF Apply
  <2> HIDE DEF r
  <2>2. /\ Sound(r.control, r.event) /\ Kept(c, r.control)
        /\ r.event[op.e].count = 0
        /\ \A x \in Event : x # op.e => r.event[x].count = v[x].count
        /\ Ordered(c.preemptive, r.control.preemptive, v, {op.e})
    <3>1. Sound(r.control, r.event) /\ Kept(c, r.control)
      BY <1>0, <2>1, DestroySound
    <3>2. r.event = [v EXCEPT ![op.e] = [priority |-> 0, lock |-> FALSE, count |-> 0]]
      BY <2>1 DEF SvcDestroy, State, Change
    <3>3. /\ r.event[op.e].count = 0
          /\ \A x \in Event : x # op.e => r.event[x].count = v[x].count
      BY <1>0, <3>2 DEF Sound, EventType
    <3>4. Ordered(c.preemptive, r.control.preemptive, v, {op.e})
      BY <1>0, <2>1, DestroySound
    <3> QED
      BY <3>1, <3>3, <3>4
  <2>3. Ordered(c.preemptive, r.control.preemptive, v, program.retuned)
    BY <1>0, <1>5, <2>2, OrderedLess
  <2> QED
    BY <1>0, <1>5, <2>2, <2>3 DEF r
<1> QED
  BY <1>0, <1>1, <1>2, <1>3, <1>4, <1>5

-----------------------------------------------------------------------------
(* The steps. *)

\* The kernel is sound whenever a routine of PendSV or SVC finds it.
LEMMA SoundNow ==
  ASSUME IInv, control.next # None => control.notify
  PROVE  Sound(control, event)
  BY DEF IInv, TypeInv, ListsInv, ChoiceInv, Sound, Fine, Preempting, Polled, Due

\* What a call leaves behind.
LEMMA PerformStep ==
  ASSUME IInv, stage = "thread", NEW op \in Op, Perform(op)
  PROVE  /\ Sound(control', event') /\ Kept(control, control')
         /\ owed' \in [Event -> Nat]
         /\ \A x \in Event : event'[x].count = owed'[x] /\ owed'[x] <= owed[x] + 1
         /\ \A x \in Event : x # op.e => event'[x].count = event[x].count
         /\ op.kind = "destroy" => event'[op.e].count = 0
         /\ Plain => /\ SamePriorities(event, event')
                     /\ ChoiceIsRight(control, event) => ChoiceIsRight(control', event')
         /\ Ordered(control.preemptive, control'.preemptive, event, program.retuned)
<1> DEFINE r == Apply(op, State(control, event))
<1>1. control' = r.control /\ event' = r.event
  BY DEF Perform, State
<1>2. /\ owed' = CASE op.kind = "enqueue" -> [owed EXCEPT ![op.e] = @ + 1]
                    [] op.kind = "destroy" -> [owed EXCEPT ![op.e] = 0]
                    [] OTHER -> owed
  BY DEF Perform
<1>3. Sound(control, event)
  BY SoundNow DEF IInv, ChoiceInv
<1>4. program \in Programs /\ owed \in [Event -> Nat]
      /\ \A x \in Event : event[x].count = owed[x]
  BY DEF IInv, TypeInv, CountInv
<1> HIDE DEF r
<1>5. /\ Sound(r.control, r.event) /\ Kept(control, r.control)
      /\ \A x \in Event : r.event[x].count =
            IF x = op.e /\ op.kind = "enqueue" THEN event[x].count + 1
            ELSE IF x = op.e /\ op.kind = "destroy" THEN 0 ELSE event[x].count
      /\ Plain => /\ SamePriorities(event, r.event)
                  /\ ChoiceIsRight(control, event) => ChoiceIsRight(r.control, r.event)
      /\ Ordered(control.preemptive, r.control.preemptive, event, program.retuned)
  BY <1>3, <1>4, ApplySound DEF r
<1>6. op.e \in Event
  BY <1>4, OpFacts
<1>7. owed' \in [Event -> Nat] /\ \A x \in Event : owed'[x] =
            IF x = op.e /\ op.kind = "enqueue" THEN owed[x] + 1
            ELSE IF x = op.e /\ op.kind = "destroy" THEN 0 ELSE owed[x]
  <2>1. CASE op.kind = "enqueue"
    BY <2>1, <1>2, <1>4, <1>6
  <2>2. CASE op.kind = "destroy"
    BY <2>2, <1>2, <1>4, <1>6
  <2>3. CASE op.kind \notin {"enqueue", "destroy"}
    BY <2>3, <1>2, <1>4, <1>6
  <2> QED
    BY <2>1, <2>2, <2>3
<1>8. \A x \in Event : owed[x] \in Nat
  BY <1>4
<1>9. \A x \in Event : event'[x].count = owed'[x] /\ owed'[x] <= owed[x] + 1
  BY <1>1, <1>4, <1>5, <1>7, <1>8
<1> QED
  BY <1>1, <1>5, <1>6, <1>7, <1>9

\* What sound lists and choice come to in the invariant.
LEMMA SoundIsInv ==
  ASSUME Sound(control, event)'
  PROVE  /\ control' \in ControlType /\ event' \in EventType
         /\ ListsInv' /\ ChoiceInv'
  BY DEF Sound, Fine, ListsInv, ChoiceInv, Preempting, Polled, Due, Hold, Sorted, More,
         ChoiceIsHead, EventType, ControlType

\* The routines running are those of the stack, then self.
LEMMA RunningFacts ==
  ASSUME NEW c \in ControlType
  PROVE  /\ Running(c) \in Seq(Event \union {None})
         /\ Len(Running(c)) = Len(c.stack) + 1 /\ Len(c.stack) \in Nat
         /\ Running(c)[Len(c.stack) + 1] = c.self
         /\ \A i \in 1..Len(c.stack) : Running(c)[i] = c.stack[i]
<1>1. c.stack \in Seq(Event \union {None}) /\ c.self \in Event \union {None}
  BY DEF ControlType
<1> QED
  BY <1>1, AppendProperties, LenProperties DEF Running

\* Routines that run are not touched by calls.
LEMMA KeptRunning ==
  ASSUME IInv, Kept(control, control'), UNCHANGED program,
         Plain => SamePriorities(event, event')
  PROVE  StackInv' /\ (Plain => Nested(control', event'))
<1>1. Running(control') = Running(control)
  BY DEF Kept, Running
<1>2. StackInv'
  BY <1>1 DEF IInv, StackInv
<1>3. ASSUME Plain PROVE Nested(control', event')
  <2>1. \A i \in 1..Len(Running(control)) : Running(control)[i] \in Event \union {None}
    BY RunningFacts, ElementOfSeq DEF IInv, TypeInv
  <2>2. SamePriorities(event, event') /\ Nested(control, event)
    BY <1>3 DEF IInv, PlainInv
  <2>3. \A i, j \in 1..Len(Running(control)) :
           i < j /\ Running(control)[i] # None =>
           Running(control)[i] \in Event /\ Running(control)[j] \in Event
    <3>1. \A j \in 1..Len(Running(control)) : Running(control)[j] = None <=> j = 1
      BY DEF IInv, StackInv
    <3> QED
      BY <2>1, <3>1
  <2> QED
    BY <1>1, <2>2, <2>3 DEF Nested, More, SamePriorities
<1> QED
  BY <1>2, <1>3
\* The operands of a program do not change, and neither does what is plain.
LEMMA ProgramFacts ==
  ASSUME UNCHANGED program, program \in Programs
  PROVE  /\ program' \in Programs /\ Op' = Op /\ Plain' = Plain
         /\ program.events \subseteq Event /\ program.ops \in Nat
         /\ program.retuned \subseteq program.events
         /\ program.ceilings \subseteq 0..Cooperative
  BY ArmEventAssumption DEF Op, Plain

\* A call by thread code keeps the invariant.
LEMMA SvcInv ==
  ASSUME IInv, NEW op \in Op, Svc(op)
  PROVE  IInv'
<1>0. /\ stage = "thread" /\ deferred = <<>> /\ ~control.notify
      /\ Perform(op) /\ Call(op) /\ op.e \in alive
      /\ UNCHANGED <<program, deferred, stage, saved>>
  BY DEF Svc, ThreadRuns, Call
<1>1. /\ Sound(control', event') /\ Kept(control, control')
      /\ owed' \in [Event -> Nat]
      /\ \A x \in Event : event'[x].count = owed'[x] /\ owed'[x] <= owed[x] + 1
      /\ \A x \in Event : x # op.e => event'[x].count = event[x].count
      /\ op.kind = "destroy" => event'[op.e].count = 0
      /\ Plain => /\ SamePriorities(event, event')
                  /\ ChoiceIsRight(control, event) => ChoiceIsRight(control', event')
  BY <1>0, PerformStep
<1>2. /\ program' \in Programs /\ Op' = Op /\ Plain' = Plain
      /\ program.events \subseteq Event /\ program.ops \in Nat
  BY <1>0, ProgramFacts DEF IInv, TypeInv
<1>3. /\ control' \in ControlType /\ event' \in EventType
      /\ ListsInv' /\ ChoiceInv'
  BY <1>1, SoundIsInv
<1>4. /\ ops < program.ops /\ ops' = ops + 1 /\ alive' \subseteq alive
      /\ op.kind # "destroy" => alive' = alive
      /\ \A x \in alive \ alive' : x = op.e /\ op.kind = "destroy"
  BY <1>0 DEF Call
<1>5. TypeInv'
  BY <1>0, <1>1, <1>2, <1>3, <1>4 DEF IInv, TypeInv
<1>6. CountInv'
  <2>1. \A x \in Event : owed[x] \in Nat /\ owed'[x] \in Nat /\ owed[x] <= ops
    BY <1>0, <1>1 DEF IInv, TypeInv, CountInv
  <2>2. ops \in Nat /\ Len(deferred) = 0 /\ Len(deferred') = 0
    BY <1>0 DEF IInv, TypeInv
  <2> QED
    BY <1>0, <1>1, <1>2, <1>4, <2>1, <2>2 DEF CountInv
<1>7. AliveInv'
  <2>0. \A e : ~Destroys(deferred, 1, e)
    BY <1>0 DEF Destroys
  <2>1. \A e \in Event \ alive' : event'[e].count = 0
    BY <1>0, <1>1, <1>4, <2>0 DEF IInv, AliveInv
  <2> QED
    BY <1>0, <2>1 DEF AliveInv
<1>8. StackInv' /\ (Plain => Nested(control', event'))
  BY <1>0, <1>1, KeptRunning
<1>9. PlainInv'
  <2> SUFFICES ASSUME Plain PROVE /\ saved' = <<>> /\ alive' = program'.events
                                 /\ ChoiceIsRight(control', event') /\ Nested(control', event')
    BY <1>2 DEF PlainInv
  <2>1. op.kind # "destroy"
    BY <1>0, OpFacts DEF Plain, IInv, TypeInv
  <2> QED
    BY <1>0, <1>1, <1>4, <1>8, <2>1 DEF IInv, PlainInv
<1> QED
  BY <1>3, <1>5, <1>6, <1>7, <1>8, <1>9 DEF IInv

\* A deferred call, carried out by PendSV, keeps the invariant.
LEMMA RunDeferredInv ==
  ASSUME IInv, RunDeferred
  PROVE  IInv'
<1> DEFINE op == Head(deferred)
<1>0. /\ stage = "thread" /\ deferred # <<>> /\ Perform(op) /\ deferred' = Tail(deferred)
      /\ UNCHANGED <<program, alive, stage, saved, ops>>
  BY DEF RunDeferred
<1>00. /\ deferred \in Seq(Op) /\ op \in Op
       /\ deferred' \in Seq(Op) /\ Len(deferred') = Len(deferred) - 1
       /\ \A i \in 1..Len(deferred') : deferred'[i] = deferred[i + 1]
       /\ Len(deferred) \in Nat \ {0} /\ op = deferred[1]
  BY <1>0, HeadTailProperties, LenProperties, EmptySeq DEF IInv, TypeInv
<1> HIDE DEF op
<1>1. /\ Sound(control', event') /\ Kept(control, control')
      /\ owed' \in [Event -> Nat]
      /\ \A x \in Event : event'[x].count = owed'[x] /\ owed'[x] <= owed[x] + 1
      /\ \A x \in Event : x # op.e => event'[x].count = event[x].count
      /\ op.kind = "destroy" => event'[op.e].count = 0
      /\ Plain => /\ SamePriorities(event, event')
                  /\ ChoiceIsRight(control, event) => ChoiceIsRight(control', event')
  BY <1>0, <1>00, PerformStep
<1>2. /\ program' \in Programs /\ Op' = Op /\ Plain' = Plain
      /\ program.events \subseteq Event /\ program.ops \in Nat
  BY <1>0, ProgramFacts DEF IInv, TypeInv
<1>3. /\ control' \in ControlType /\ event' \in EventType
      /\ ListsInv' /\ ChoiceInv'
  BY <1>1, SoundIsInv
<1>5. TypeInv'
  <2>1. Len(deferred') <= Depth
    BY <1>00, ArmEventAssumption DEF IInv, TypeInv
  <2> QED
    BY <1>0, <1>00, <1>1, <1>2, <1>3, <2>1 DEF IInv, TypeInv
<1>6. CountInv'
  <2>1. \A x \in Event : owed[x] \in Nat /\ owed'[x] \in Nat /\ owed[x] + Len(deferred) <= ops
    BY <1>0, <1>1 DEF IInv, TypeInv, CountInv
  <2>2. ops \in Nat /\ ops <= program.ops
    BY DEF IInv, TypeInv, CountInv
  <2> QED
    BY <1>0, <1>00, <1>1, <2>1, <2>2 DEF CountInv
<1>7. AliveInv'
  <2>1. ASSUME NEW i \in 1..Len(deferred), NEW e, Destroys(deferred, i, e),
               i # 1 \/ op.e # e \/ op.kind # "destroy"
        PROVE  \A k \in Nat : k < i \/ k = 1 => Destroys(deferred', k, e)
    <3>1. PICK j \in 1..Len(deferred) :
             i <= j /\ deferred[j].e = e /\ deferred[j].kind = "destroy"
      BY <2>1 DEF Destroys
    <3>2. j # 1
      BY <1>00, <2>1, <3>1
    <3>3. j - 1 \in 1..Len(deferred') /\ deferred'[j - 1] = deferred[j]
      BY <1>00, <3>2
    <3>4. \A k \in Nat : k < i \/ k = 1 => k <= j - 1
      BY <3>1, <3>2
    <3> QED
      BY <3>1, <3>3, <3>4 DEF Destroys
  <2>2. ASSUME NEW e \in Event \ alive
        PROVE  event'[e].count = 0 \/ Destroys(deferred', 1, e)
    <3>1. 1 \in 1..Len(deferred)
      BY <1>00
    <3>2. CASE e # op.e
      BY <3>1, <3>2, <1>1, <2>1 DEF IInv, AliveInv
    <3>3. CASE e = op.e /\ op.kind = "destroy"
      BY <3>3, <1>1
    <3>4. CASE e = op.e /\ op.kind # "destroy"
      <4>1. Destroys(deferred, 1, e)
        BY <3>1, <3>4, <1>00 DEF IInv, AliveInv
      <4> QED
        BY <3>1, <3>4, <4>1, <2>1
    <3> QED
      BY <3>2, <3>3, <3>4
  <2>3. ASSUME NEW i \in 1..Len(deferred')
        PROVE  deferred'[i].e \in alive \/ Destroys(deferred', i, deferred'[i].e)
    <3>1. i \in Nat /\ i + 1 \in 1..Len(deferred) /\ deferred'[i] = deferred[i + 1] /\ i + 1 # 1
      BY <1>00
    <3>2. deferred[i + 1].e \in alive \/ Destroys(deferred, i + 1, deferred[i + 1].e)
      BY <3>1 DEF IInv, AliveInv
    <3> QED
      BY <3>1, <3>2, <2>1
  <2> QED
    BY <1>0, <2>2, <2>3 DEF AliveInv
<1>8. StackInv' /\ (Plain => Nested(control', event'))
  BY <1>0, <1>1, KeptRunning
<1>9. PlainInv'
  BY <1>0, <1>1, <1>2, <1>8 DEF IInv, PlainInv
<1> QED
  BY <1>3, <1>5, <1>6, <1>7, <1>8, <1>9 DEF IInv

\* A call by an interrupt handler is deferred or dropped: it keeps the invariant.
LEMMA IsrInv ==
  ASSUME IInv, NEW op \in Op, Isr(op)
  PROVE  IInv'
<1>0. /\ op.e \in alive /\ ops < program.ops /\ ops' = ops + 1
      /\ op.kind = "destroy" => Len(deferred) < Depth
      /\ alive' = IF op.kind = "destroy" THEN alive \ {op.e} ELSE alive
      /\ deferred' = IF Len(deferred) < Depth THEN Append(deferred, op) ELSE deferred
      /\ UNCHANGED <<program, control, event, stage, saved, owed>>
  BY DEF Isr, Call
<1>1. /\ deferred \in Seq(Op) /\ Len(deferred) \in Nat /\ Len(deferred) <= Depth
      /\ Depth \in Nat
  BY ArmEventAssumption, LenProperties DEF IInv, TypeInv
<1>2. /\ deferred' \in Seq(Op) /\ Len(deferred') <= Depth /\ Len(deferred') <= Len(deferred) + 1
      /\ Len(deferred') \in Nat
      /\ \A i \in 1..Len(deferred') :
            deferred'[i] = op \/ (i \in 1..Len(deferred) /\ deferred'[i] = deferred[i])
  <2>1. CASE Len(deferred) < Depth
    BY <2>1, <1>0, <1>1, AppendProperties
  <2>2. CASE ~(Len(deferred) < Depth)
    BY <2>2, <1>0, <1>1
  <2> QED
    BY <2>1, <2>2
<1>3. /\ program' \in Programs /\ Op' = Op /\ Plain' = Plain /\ program.ops \in Nat
  BY <1>0, ProgramFacts DEF IInv, TypeInv
<1>4. TypeInv'
  BY <1>0, <1>2, <1>3 DEF IInv, TypeInv
<1>5. ListsInv' /\ ChoiceInv' /\ StackInv' /\ PlainInv'
  <2>1. Plain => op.kind # "destroy"
    BY OpFacts DEF Plain, IInv, TypeInv
  <2> QED
    BY <1>0, <1>3, <2>1
    DEF IInv, ListsInv, ChoiceInv, StackInv, PlainInv, Preempting, Polled, Due
<1>6. CountInv'
  <2>1. \A x \in Event : owed[x] \in Nat /\ owed[x] + Len(deferred) <= ops /\ event[x].count = owed[x]
    BY DEF IInv, TypeInv, CountInv
  <2>2. ops \in Nat
    BY DEF IInv, TypeInv
  <2> QED
    BY <1>0, <1>1, <1>2, <1>3, <2>1, <2>2 DEF CountInv
<1>7. AliveInv'
  <2>1. CASE Len(deferred) < Depth
    <3>1. /\ Len(deferred') = Len(deferred) + 1 /\ deferred'[Len(deferred) + 1] = op
          /\ \A i \in 1..Len(deferred) : deferred'[i] = deferred[i]
      BY <2>1, <1>0, <1>1, AppendProperties
    <3>2. \A i, e : Destroys(deferred, i, e) => Destroys(deferred', i, e)
      BY <1>1, <3>1 DEF Destroys
    <3>3. ASSUME NEW i \in 1..Len(deferred'), op.kind = "destroy"
          PROVE  Destroys(deferred', i, op.e)
      BY <1>1, <3>1, <3>3 DEF Destroys
    <3>4. ASSUME NEW e \in Event \ alive'
          PROVE  event'[e].count = 0 \/ Destroys(deferred', 1, e)
      <4>1. CASE e \notin alive
        BY <4>1, <1>0, <3>2 DEF IInv, AliveInv
      <4>2. CASE e \in alive
        BY <4>2, <1>0, <1>1, <3>1, <3>3, <3>4
      <4> QED
        BY <4>1, <4>2
    <3>5. ASSUME NEW i \in 1..Len(deferred')
          PROVE  deferred'[i].e \in alive' \/ Destroys(deferred', i, deferred'[i].e)
      <4>1. CASE i \in 1..Len(deferred)
        BY <4>1, <1>0, <3>1, <3>2, <3>3 DEF IInv, AliveInv
      <4>2. CASE i = Len(deferred) + 1
        BY <4>2, <1>0, <3>1, <3>3, <3>5
      <4> QED
        BY <4>1, <4>2, <1>1, <3>1
    <3> QED
      BY <3>4, <3>5 DEF AliveInv
  <2>2. CASE ~(Len(deferred) < Depth)
    BY <2>2, <1>0 DEF IInv, AliveInv
  <2> QED
    BY <2>1, <2>2
<1> QED
  BY <1>4, <1>5, <1>6, <1>7 DEF IInv

\* A structure that is created is in no list.
LEMMA CreateInv ==
  ASSUME IInv, NEW e \in program.events, Create(e)
  PROVE  IInv'
<1>0. /\ stage = "thread" /\ deferred = <<>> /\ ~control.notify /\ e \notin alive
      /\ alive' = alive \union {e}
      /\ event' = [event EXCEPT ![e] = [priority |-> InitPriority[e], lock |-> FALSE, count |-> 0]]
      /\ UNCHANGED <<program, control, deferred, stage, saved, ops, owed>>
  BY DEF Create, ThreadRuns
<1>1. /\ program' \in Programs /\ Op' = Op /\ Plain' = Plain
      /\ program.events \subseteq Event /\ program.ops \in Nat
  BY <1>0, ProgramFacts DEF IInv, TypeInv
<1>2. e \in Event /\ InitPriority[e] \in 0..Cooperative
  BY <1>1, ArmEventAssumption
<1>20. event[e].count = 0
  BY <1>0, <1>2 DEF IInv, AliveInv, Destroys
<1>3. /\ event' \in EventType /\ event'[e].count = 0 /\ event[e].count = 0
      /\ \A x \in Event : x # e => event'[x] = event[x]
  BY <1>0, <1>2, <1>20 DEF IInv, TypeInv, EventType
<1>4. TypeInv'
  BY <1>0, <1>1, <1>3 DEF IInv, TypeInv
<1>5. Preempting(event') = Preempting(event) /\ Polled(event') = Polled(event)
  BY <1>3 DEF Preempting, Polled, Due
<1>6. Fine(control, event', Preempting(event), Polled(event))
  <2>1. Fine(control, event, Preempting(event), Polled(event))
    BY <1>0, SoundNow DEF IInv, ChoiceInv, Sound
  <2>2. \A x \in Preempting(event) : event'[x].priority = event[x].priority
    BY <1>3 DEF Preempting, Due
  <2> QED
    BY <2>1, <2>2, FineOfPriorities
<1>7. ListsInv' /\ ChoiceInv'
  <2>1. Sound(control', event')
    BY <1>0, <1>3, <1>5, <1>6 DEF Sound
  <2> QED
    BY <2>1, SoundIsInv
<1>8. CountInv' /\ AliveInv'
  BY <1>0, <1>2, <1>3 DEF IInv, CountInv, AliveInv, Destroys
<1>9. StackInv'
  BY <1>0 DEF IInv, StackInv
<1>10. PlainInv'
  BY <1>0, <1>1 DEF IInv, PlainInv
<1> QED
  BY <1>4, <1>7, <1>8, <1>9, <1>10 DEF IInv

\* PendSV found its queue empty: what it was notified of is still chosen.
LEMMA EnterCallbackInv ==
  ASSUME IInv, EnterCallback
  PROVE  IInv'
<1>0. /\ stage' = "callback" /\ control' = [control EXCEPT !.notify = FALSE]
      /\ UNCHANGED <<program, alive, event, deferred, saved, ops, owed>>
  BY DEF EnterCallback
<1>1. /\ program' \in Programs /\ Op' = Op /\ Plain' = Plain
  BY <1>0, ProgramFacts DEF IInv, TypeInv
<1>2. /\ control' \in ControlType /\ Kept(control, control') /\ control'.next = control.next
      /\ control'.preemptive = control.preemptive /\ control'.cooperative = control.cooperative
  BY <1>0 DEF IInv, TypeInv, ControlType, Kept
<1>3. TypeInv'
  BY <1>0, <1>1, <1>2 DEF IInv, TypeInv
<1>4. ListsInv' /\ ChoiceInv'
  BY <1>0, <1>2 DEF IInv, ListsInv, ChoiceInv, Hold, ChoiceIsHead, Kept,
                    Preempting, Polled, Due
<1>5. CountInv' /\ AliveInv'
  BY <1>0 DEF IInv, CountInv, AliveInv
<1>6. StackInv' /\ PlainInv'
  BY <1>0, <1>1, <1>2 DEF IInv, StackInv, PlainInv, ChoiceIsRight, Eligible, Nested, Running, Kept
<1> QED
  BY <1>3, <1>4, <1>5, <1>6 DEF IInv
\* armv6m_event_switch, to an event that is first in its list.
LEMMA SwitchFacts ==
  ASSUME NEW c \in ControlType, NEW v \in EventType, NEW e \in Event, c.next = e,
         Hold(c, v, Preempting(v), Polled(v)),
         c.preemptive # <<>>, e = Head(c.preemptive)
  PROVE  LET r == EventSwitch(c, v)
         IN  /\ Sound(r.control, r.event)
             /\ r.control.self = e /\ r.control.stack = c.stack /\ r.control.ceiling = c.ceiling
             /\ r.event[e].count = v[e].count - 1 /\ v[e].count # 0
             /\ \A x \in Event : x # e => r.event[x] = v[x]
             /\ SamePriorities(v, r.event)
             /\ ChoiceIsRight(r.control, r.event)
             /\ Ordered(c.preemptive, r.control.preemptive, v, {e})
<1> DEFINE P == Preempting(v)
           C == Polled(v)
           w == [v EXCEPT ![e].count = @ - 1]
           b == [c EXCEPT !.self = e, !.next = None]
           d == EventRemove(b, v, e)
           g == IF w[e].count # 0 THEN EventInsert(d, w, e) ELSE d
<1>1. EventSwitch(c, v) = [event |-> w, control |-> g]
  BY DEF EventSwitch
<1>2. e \in P /\ Lists(c.preemptive, P)
  BY ListsHead DEF Hold
<1>3. /\ e \notin C /\ v[e].count # 0 /\ ~v[e].lock /\ v[e].priority # Cooperative
      /\ P \subseteq Event /\ C \subseteq Event
  BY <1>2 DEF Preempting, Polled, Due
<1>4. /\ w \in EventType /\ SamePriorities(v, w) /\ w[e].count = v[e].count - 1
      /\ \A x \in Event : x # e => w[x] = v[x]
      /\ w[e].lock = v[e].lock /\ w[e].priority = v[e].priority
  BY <1>3 DEF EventType, SamePriorities
<1>5. /\ b \in ControlType /\ b.self = e /\ b.next = None /\ b.stack = c.stack
      /\ b.ceiling = c.ceiling /\ b.preemptive = c.preemptive /\ b.cooperative = c.cooperative
  BY DEF ControlType
<1>6. None \notin Event
  BY CooperativeIsNat
<1> HIDE DEF b, w
<1>7. Fine(b, v, P, C) /\ ChoiceIsRight(b, v)
  <2>1. Fine(b, v, P, C)
    BY <1>3, <1>5 DEF Fine, Hold, ChoiceIsHead
  <2>2. v[e].priority \in Int
    BY CooperativeIsNat DEF EventType
  <2>3. ~Eligible(b, v)
    BY <1>5, <1>6, <2>2 DEF Eligible, More
  <2> QED
    BY <1>5, <2>1, <2>3 DEF ChoiceIsRight
<1>8. /\ Fine(d, v, P \ {e}, C \ {e}) /\ Kept(b, d) /\ ChoiceIsRight(d, v)
      /\ \A x, y : x # e /\ y # e =>
            (Precedes(b.preemptive, x, y) <=> Precedes(d.preemptive, x, y))
  <2>1. IF v[e].priority = Cooperative THEN e \in C \ P ELSE e \in P \ C
    BY <1>2, <1>3
  <2> HIDE DEF P, C
  <2> QED
    BY <1>7, <2>1, RemoveFine
<1> HIDE DEF d
<1>9. C \ {e} = C
  BY <1>3
<1>10. Fine(d, w, P \ {e}, C) /\ ChoiceIsRight(d, w)
  <2>1. \A x \in P \ {e} : w[x].priority = v[x].priority
    BY <1>3, <1>4 DEF SamePriorities
  <2>2. Fine(d, w, P \ {e}, C)
    BY <1>8, <1>9, <2>1, FineOfPriorities
  <2>3. ChoiceIsRight(d, w)
    BY <1>4, <1>8, RightOfPriorities DEF Fine, SamePriorities
  <2> QED
    BY <2>2, <2>3
<1>11. \A x \in Event : x # e => (x \in Preempting(w) <=> x \in P) /\ (x \in Polled(w) <=> x \in C)
  BY <1>4 DEF Preempting, Polled, Due
<1>12. e \in Preempting(w) <=> w[e].count # 0
  BY <1>3, <1>4 DEF Preempting, Due
<1>13. Polled(w) = C
  BY <1>3, <1>4, <1>11 DEF Polled, Due
<1>14. CASE w[e].count # 0
  <2>1. Preempting(w) = (P \ {e}) \cup {e}
    BY <1>11, <1>12, <1>14 DEF Preempting, Due
  <2> DEFINE Q == P \ {e}
  <2>2. e \notin Q /\ e \notin C /\ Fine(d, w, Q, C) /\ w[e].priority # Cooperative
        /\ g = EventInsert(d, w, e)
    BY <1>3, <1>4, <1>10, <1>14
  <2> HIDE DEF Q, g, C
  <2>3. /\ Fine(g, w, Q \cup {e}, C) /\ Kept(d, g)
        /\ ChoiceIsRight(d, w) => ChoiceIsRight(g, w)
        /\ \A x, y : Precedes(d.preemptive, x, y) => Precedes(g.preemptive, x, y)
    BY <1>4, <2>2, InsertFine
  <2>4. Sound(g, w) /\ Kept(b, g) /\ ChoiceIsRight(g, w)
    BY <1>4, <1>8, <1>10, <1>13, <2>1, <2>3 DEF Sound, Kept, Q
  <2>5. Ordered(c.preemptive, g.preemptive, v, {e})
    <3> SUFFICES ASSUME NEW x \in Event \ {e}, NEW y \in Event \ {e}, x # y,
                        x \in ToSet(c.preemptive), ~Precedes(c.preemptive, y, x),
                        {x, y} \subseteq ToSet(g.preemptive)
                 PROVE  Precedes(g.preemptive, x, y)
      BY DEF Ordered
    <3>1. ToSet(g.preemptive) = Q \cup {e} /\ ToSet(c.preemptive) = P
      BY <1>2, <2>3, ListsHead DEF Fine, Hold
    <3>2. y \in P
      BY <3>1 DEF Q
    <3>3. Precedes(c.preemptive, x, y)
      BY <1>2, <3>1, <3>2, BeforeIsTotal
    <3> QED
      BY <3>3, <1>5, <1>8, <2>3
  <2> QED
    BY <1>1, <1>3, <1>4, <1>5, <2>4, <2>5 DEF Kept
<1>15. CASE w[e].count = 0
  <2>1. Preempting(w) = P \ {e}
    BY <1>11, <1>12, <1>15 DEF Preempting, Due
  <2>2. g = d
    BY <1>15
  <2> HIDE DEF g
  <2>3. Sound(g, w) /\ Kept(b, g) /\ ChoiceIsRight(g, w)
    BY <1>4, <1>8, <1>10, <1>13, <2>1, <2>2 DEF Sound
  <2>4. Ordered(c.preemptive, g.preemptive, v, {e})
    <3> DEFINE M == P \ {e}
    <3>1. M \subseteq P /\ Lists(g.preemptive, M)
      BY <1>8, <2>2 DEF Fine, Hold
    <3> HIDE DEF M
    <3> QED
      BY <1>2, <1>5, <1>8, <2>2, <3>1, OrderedRemove
  <2> QED
    BY <1>1, <1>3, <1>4, <1>5, <2>3, <2>4 DEF Kept
<1> QED
  BY <1>14, <1>15

\* The switch runs the chosen event, and puts it back behind its equals if it is
\* still counted.
LEMMA CallbackInv ==
  ASSUME IInv, Callback
  PROVE  /\ IInv'
         /\ \/ UNCHANGED control
            \/ Ordered(control.preemptive, control'.preemptive, event, {control.next})
<1>0. /\ stage = "callback" /\ stage' = "thread"
      /\ UNCHANGED <<program, alive, deferred, saved, ops>>
  BY DEF Callback
<1>1. /\ program' \in Programs /\ Op' = Op /\ Plain' = Plain
  BY <1>0, ProgramFacts DEF IInv, TypeInv
<1>2. CASE control.next = None
  <2>1. UNCHANGED <<control, event, owed>>
    BY <1>2 DEF Callback
  <2>2. ChoiceInv'
    BY <1>2, <2>1 DEF ChoiceInv, ChoiceIsHead
  <2> QED
    BY <1>0, <1>1, <2>1, <2>2
    DEF IInv, TypeInv, ListsInv, CountInv, AliveInv, StackInv, PlainInv,
        Preempting, Polled, Due
<1>3. CASE control.next # None
  <2> DEFINE e == control.next
             c == [control EXCEPT !.stack = Append(@, control.self)]
             r == EventSwitch(c, event)
  <2>1. /\ control' = r.control /\ event' = r.event
        /\ owed' = [owed EXCEPT ![e] = @ - 1]
    BY <1>3 DEF Callback
  <2>2. /\ control \in ControlType /\ event \in EventType /\ owed \in [Event -> Nat]
        /\ ListsInv /\ ChoiceIsHead(control, event)
    BY DEF IInv, TypeInv, ChoiceInv
  <2>3. Running(control) \in Seq(Event \union {None})
    BY <2>2, RunningFacts
  <2>4. /\ c \in ControlType /\ c.stack = Running(control) /\ c.next = e
        /\ c.preemptive = control.preemptive /\ c.cooperative = control.cooperative
        /\ c.ceiling = control.ceiling
    BY <2>2, <2>3 DEF ControlType, Running
  <2>5. /\ e \in Event /\ c.preemptive # <<>> /\ e = Head(c.preemptive)
        /\ Hold(c, event, Preempting(event), Polled(event))
    BY <1>3, <2>2, <2>4 DEF ControlType, ChoiceIsHead, ListsInv, Hold
  <2> HIDE DEF c, r, e
  <2>6. /\ Sound(r.control, r.event)
        /\ r.control.self = e /\ r.control.stack = c.stack /\ r.control.ceiling = c.ceiling
        /\ r.event[e].count = event[e].count - 1 /\ event[e].count # 0
        /\ \A x \in Event : x # e => r.event[x] = event[x]
        /\ SamePriorities(event, r.event)
        /\ ChoiceIsRight(r.control, r.event)
        /\ Ordered(c.preemptive, r.control.preemptive, event, {e})
    BY <2>2, <2>4, <2>5, SwitchFacts DEF r
  <2>7. /\ control' \in ControlType /\ event' \in EventType
        /\ ListsInv' /\ ChoiceInv'
    BY <2>1, <2>6, SoundIsInv
  <2>8. /\ owed' \in [Event -> Nat]
        /\ \A x \in Event : event'[x].count = owed'[x] /\ owed'[x] <= owed[x]
    <3>1. \A x \in Event : event[x].count = owed[x] /\ owed[x] \in Nat
      BY <2>2 DEF IInv, CountInv
    <3>2. owed[e] - 1 \in Nat /\ owed'[e] = owed[e] - 1
      BY <2>1, <2>2, <2>5, <2>6, <3>1
    <3>3. \A x \in Event : x # e => owed'[x] = owed[x]
      BY <2>1, <2>2, <2>5
    <3>4. owed' \in [Event -> Nat]
      BY <2>1, <2>2, <3>2
    <3> QED
      BY <2>1, <2>5, <2>6, <3>1, <3>2, <3>3, <3>4
  <2>9. TypeInv'
    BY <1>0, <1>1, <2>7, <2>8 DEF IInv, TypeInv
  <2>10. CountInv'
    <3>1. \A x \in Event : owed[x] \in Nat /\ owed'[x] \in Nat /\ owed[x] + Len(deferred) <= ops
      BY <2>2, <2>8 DEF IInv, CountInv
    <3>2. ops \in Nat /\ Len(deferred) \in Nat
      BY LenProperties DEF IInv, TypeInv
    <3> QED
      BY <1>0, <2>8, <3>1, <3>2 DEF IInv, CountInv
  <2>11. AliveInv'
    <3>1. e \in alive \/ Destroys(deferred, 1, e)
      BY <2>5, <2>6 DEF IInv, AliveInv
    <3>2. \A x \in Event \ alive : event'[x].count = 0 \/ Destroys(deferred, 1, x)
      BY <2>1, <2>6, <3>1 DEF IInv, AliveInv
    <3> QED
      BY <1>0, <3>2 DEF IInv, AliveInv
  <2>12. /\ Len(Running(control')) = Len(Running(control)) + 1
         /\ Len(Running(control)) \in Nat \ {0}
         /\ Running(control')[Len(Running(control)) + 1] = e
         /\ \A i \in 1..Len(Running(control)) : Running(control')[i] = Running(control)[i]
    <3>1. control' \in ControlType /\ control'.self = e /\ control'.stack = Running(control)
      BY <2>1, <2>4, <2>6, <2>7, Zenon
    <3>2. Len(Running(control)) \in Nat /\ Len(Running(control)) # 0
      <4>1. Len(Running(control)) = Len(control.stack) + 1 /\ Len(control.stack) \in Nat
        BY <2>2, RunningFacts, Zenon
      <4> QED
        BY <4>1
    <3>3. /\ Len(Running(control')) = Len(control'.stack) + 1
          /\ Running(control')[Len(control'.stack) + 1] = control'.self
          /\ \A i \in 1..Len(control'.stack) : Running(control')[i] = control'.stack[i]
      BY <3>1, RunningFacts, Zenon
    <3> QED
      BY <3>1, <3>2, <3>3, Zenon
  <2>13. StackInv'
    <3>1. \A j \in 1..Len(Running(control)) : Running(control)[j] = None <=> j = 1
      BY DEF IInv, StackInv
    <3>2. \A j \in 1..Len(Running(control')) : j \in 1..Len(Running(control))
                                             \/ j = Len(Running(control)) + 1
      BY <2>12
    <3>3. e # None /\ Len(Running(control)) + 1 # 1
      BY <2>5, <2>12, CooperativeIsNat
    <3> QED
      BY <3>1, <3>2, <3>3, <2>12 DEF StackInv
  <2>14. PlainInv'
    <3> SUFFICES ASSUME Plain PROVE Nested(control', event')
      BY <1>0, <1>1, <2>1, <2>6 DEF IInv, PlainInv
    <3> DEFINE n == Len(Running(control))
               R == Running(control)
    <3>1. Nested(control, event) /\ ChoiceIsRight(control, event)
      BY DEF IInv, PlainInv
    <3>2. control.self = None \/ More(event, e, control.self)
      BY <1>3, <2>4, <2>5, <3>1 DEF ChoiceIsRight, Eligible, e
    <3>3. \A i \in 1..n : R[i] \in Event \union {None}
      BY <2>3, ElementOfSeq
    <3>4. n \in Nat \ {0} /\ R[n] = control.self
      BY <2>2, RunningFacts
    <3>5. \A j \in 1..n : R[j] = None <=> j = 1
      BY DEF IInv, StackInv
    <3>6. \A x \in Event : event'[x].priority = event[x].priority /\ event[x].priority \in Int
      BY <2>1, <2>2, <2>6, CooperativeIsNat DEF SamePriorities, EventType
    <3> HIDE DEF n, R
    <3>7. ASSUME NEW i \in 1..n, R[i] # None PROVE More(event, e, R[i])
      <4>1. CASE i = n
        BY <4>1, <3>2, <3>4, <3>7
      <4>2. CASE i < n
        <5>1. More(event, R[n], R[i]) /\ R[n] # None
          BY <4>2, <3>1, <3>4, <3>5, <3>7 DEF Nested, n, R
        <5>2. More(event, e, R[n]) /\ R[n] \in Event /\ R[i] \in Event
          BY <5>1, <3>2, <3>3, <3>4, <3>7
        <5> QED
          BY <5>1, <5>2, <3>6, <2>5 DEF More
      <4> QED
        BY <4>1, <4>2, <3>4
    <3>8. ASSUME NEW i \in 1..n + 1, NEW j \in 1..n + 1, i < j, Running(control')[i] # None
          PROVE  More(event', Running(control')[j], Running(control')[i])
      <4>0. i \in 1..n /\ Running(control')[i] = R[i] /\ R[i] # None /\ R[i] \in Event
        BY <3>3, <3>4, <3>8, <2>12 DEF n, R
      <4>1. CASE j = n + 1
        BY <4>0, <4>1, <3>6, <3>7, <2>5, <2>12 DEF More, n, R
      <4>2. CASE j \in 1..n
        <5>1. Running(control')[j] = R[j] /\ More(event, R[j], R[i])
          BY <4>0, <4>2, <3>1, <3>8, <2>12 DEF Nested, n, R
        <5>2. R[j] \in Event
          BY <4>2, <3>3, <3>5, <3>8, <4>0
        <5> QED
          BY <4>0, <5>1, <5>2, <3>6 DEF More
      <4> QED
        BY <4>1, <4>2, <3>4
    <3> QED
      BY <3>8, <2>12 DEF Nested, n
  <2> QED
    BY <2>1, <2>4, <2>6, <2>7, <2>9, <2>10, <2>11, <2>13, <2>14 DEF IInv, e
<1> QED
  BY <1>2, <1>3

\* The end of a routine resumes what it interrupted and chooses again.
LEMMA ReturnInv ==
  ASSUME IInv, Return
  PROVE  /\ IInv'
         /\ control'.preemptive = control.preemptive
<1> DEFINE c == [control EXCEPT !.self = Last(control.stack), !.stack = Front(@)]
           n == Len(control.stack)
<1>0. /\ stage = "thread" /\ deferred = <<>> /\ ~control.notify /\ control.self # None
      /\ control' = EventSchedule(c, event)
      /\ UNCHANGED <<program, alive, event, deferred, stage, saved, ops, owed>>
  BY DEF Return, ThreadRuns
<1>1. /\ program' \in Programs /\ Op' = Op /\ Plain' = Plain
  BY <1>0, ProgramFacts DEF IInv, TypeInv
<1>2. /\ control \in ControlType /\ event \in EventType
      /\ control.stack \in Seq(Event \union {None})
  BY DEF IInv, TypeInv, ControlType
<1>3. /\ n \in Nat \ {0} /\ Len(Running(control)) = n + 1
      /\ \A i \in 1..n : Running(control)[i] = control.stack[i]
      /\ \A i \in 1..n : control.stack[i] \in Event \union {None}
  <2>1. /\ n \in Nat /\ Len(Running(control)) = n + 1
        /\ \A i \in 1..n : Running(control)[i] = control.stack[i]
        /\ Running(control)[n + 1] = control.self
    BY <1>2, RunningFacts
  <2>2. n + 1 # 1
    BY <1>0, <2>1 DEF IInv, StackInv
  <2> QED
    BY <1>2, <2>1, <2>2, ElementOfSeq
<1>4. /\ Last(control.stack) = control.stack[n] /\ Last(control.stack) \in Event \union {None}
      /\ Front(control.stack) \in Seq(Event \union {None})
      /\ Len(Front(control.stack)) = n - 1
      /\ \A i \in 1..n - 1 : Front(control.stack)[i] = control.stack[i]
  BY <1>2, <1>3, FrontLast, EmptySeq
<1>5. /\ c \in ControlType /\ c.preemptive = control.preemptive
      /\ c.cooperative = control.cooperative
      /\ c.self = Last(control.stack) /\ c.stack = Front(control.stack)
  BY <1>2, <1>4 DEF ControlType
<1> HIDE DEF c, n
<1>6. /\ control' \in ControlType /\ Kept(c, control')
      /\ control'.preemptive = control.preemptive /\ control'.cooperative = control.cooperative
      /\ ChoiceIsHead(control', event) /\ ChoiceIsRight(control', event)
      /\ control'.next # None => control'.notify
  BY <1>0, <1>5, ScheduleFacts
<1>7. TypeInv'
  BY <1>0, <1>1, <1>6 DEF IInv, TypeInv
<1>8. ListsInv' /\ ChoiceInv'
  BY <1>0, <1>6 DEF IInv, ListsInv, ChoiceInv, Hold, ChoiceIsHead, Preempting, Polled, Due
<1>9. CountInv' /\ AliveInv'
  BY <1>0 DEF IInv, CountInv, AliveInv
<1>10. /\ Len(Running(control')) = n
       /\ \A i \in 1..n : Running(control')[i] = Running(control)[i]
  <2> DEFINE R == Running(control')
             S == control'.stack
  <2>1. /\ Len(R) = Len(S) + 1 /\ R[Len(S) + 1] = control'.self
        /\ \A i \in 1..Len(S) : R[i] = S[i]
    BY <1>6, RunningFacts
  <2>2. /\ Len(S) = n - 1 /\ control'.self = control.stack[n]
        /\ \A i \in 1..n - 1 : S[i] = control.stack[i]
    BY <1>4, <1>5, <1>6 DEF Kept
  <2> HIDE DEF R, S
  <2>3. Len(S) + 1 = n
    BY <1>3, <2>2
  <2> QED
    BY <2>1, <2>2, <2>3, <1>3 DEF R
<1>11. StackInv'
  BY <1>3, <1>10 DEF IInv, StackInv
<1>12. PlainInv'
  BY <1>0, <1>1, <1>3, <1>6, <1>10 DEF IInv, PlainInv, Nested
<1> QED
  BY <1>6, <1>7, <1>8, <1>9, <1>11, <1>12 DEF IInv

\* The thread polls a cooperative event; the preemptive list is left alone.
LEMMA DequeueInv ==
  ASSUME IInv, Dequeue
  PROVE  /\ IInv'
         /\ control'.preemptive = control.preemptive
<1> DEFINE e == Head(control.cooperative)
           v == [event EXCEPT ![e].count = @ - 1]
           d == IF v[e].count = 0 THEN EventRemove(control, v, e) ELSE control
<1>0. /\ stage = "thread" /\ deferred = <<>> /\ ~control.notify /\ control.cooperative # <<>>
      /\ event' = v /\ control' = d /\ owed' = [owed EXCEPT ![e] = @ - 1]
      /\ UNCHANGED <<program, alive, deferred, stage, saved, ops>>
  BY DEF Dequeue, ThreadRuns
<1>1. /\ program' \in Programs /\ Op' = Op /\ Plain' = Plain
  BY <1>0, ProgramFacts DEF IInv, TypeInv
<1>2. /\ control \in ControlType /\ event \in EventType /\ owed \in [Event -> Nat]
      /\ Lists(control.cooperative, Polled(event))
      /\ \A x \in Event : event[x].count = owed[x] /\ owed[x] \in Nat
      /\ Fine(control, event, Preempting(event), Polled(event))
  BY <1>0, SoundNow DEF IInv, TypeInv, ListsInv, Hold, CountInv, ChoiceInv, Sound
<1>3. e \in Polled(event)
  BY <1>0, <1>2, ListsHead
<1>4. /\ e \in Event /\ e \notin Preempting(event) /\ event[e].count # 0 /\ ~event[e].lock
      /\ event[e].priority = Cooperative
  BY <1>3 DEF Preempting, Polled, Due
<1> HIDE DEF e
<1>5. /\ v \in EventType /\ SamePriorities(event, v) /\ v[e].count = event[e].count - 1
      /\ \A x \in Event : x # e => v[x] = event[x]
      /\ v[e].lock = event[e].lock
  BY <1>2, <1>4 DEF EventType, SamePriorities
<1> HIDE DEF v
<1>6. Fine(control, v, Preempting(event), Polled(event))
      /\ (ChoiceIsRight(control, event) => ChoiceIsRight(control, v))
  <2>1. \A x \in Preempting(event) : v[x].priority = event[x].priority
    BY <1>5 DEF Preempting, Due, SamePriorities
  <2>2. Fine(control, v, Preempting(event), Polled(event))
    BY <1>2, <2>1, FineOfPriorities
  <2>3. ChoiceIsRight(control, event) => ChoiceIsRight(control, v)
    BY <1>2, <1>5, RightOfPriorities DEF SamePriorities
  <2> QED
    BY <2>2, <2>3
<1>7. v[e].priority = Cooperative
  BY <1>4, <1>5 DEF SamePriorities
<1>8. Preempting(v) = Preempting(event)
      /\ Polled(v) = IF v[e].count = 0 THEN Polled(event) \ {e} ELSE Polled(event)
  BY <1>4, <1>5, <1>7 DEF Preempting, Polled, Due
<1>9. /\ Sound(d, v) /\ Kept(control, d) /\ d.preemptive = control.preemptive
      /\ ChoiceIsRight(control, event) => ChoiceIsRight(d, v)
  <2>1. CASE v[e].count = 0
    <3> DEFINE P == Preempting(event)
               C == Polled(event)
    <3>1. /\ Fine(control, v, P, C) /\ d = EventRemove(control, v, e)
          /\ IF v[e].priority = Cooperative THEN e \in C \ P ELSE e \in P \ C
      BY <1>3, <1>4, <1>6, <1>7, <2>1
    <3> HIDE DEF P, C, d
    <3>2. /\ Fine(d, v, P \ {e}, C \ {e}) /\ Kept(control, d)
          /\ ChoiceIsRight(control, v) => ChoiceIsRight(d, v)
      BY <1>4, <1>5, <3>1, RemoveFine
    <3>3. P \ {e} = P
      BY <1>4 DEF P
    <3>4. d.preemptive = control.preemptive
      <4>1. control.next # e
        <5>1. control.next = None
          BY <1>0 DEF IInv, ChoiceInv
        <5> QED
          BY <5>1, <1>4, CooperativeIsNat
      <4> QED
        BY <3>1, <4>1, <1>2, <1>7 DEF EventRemove, ControlType
    <3> QED
      BY <1>5, <1>6, <1>8, <2>1, <3>2, <3>3, <3>4 DEF Sound, P, C
  <2>2. CASE v[e].count # 0
    BY <1>5, <1>6, <1>8, <2>2 DEF Sound, Kept
  <2> QED
    BY <2>1, <2>2
<1> HIDE DEF d
<1>10. /\ control' \in ControlType /\ event' \in EventType
       /\ ListsInv' /\ ChoiceInv'
  BY <1>0, <1>9, SoundIsInv
<1>11. /\ owed' \in [Event -> Nat]
       /\ \A x \in Event : event'[x].count = owed'[x] /\ owed'[x] <= owed[x]
  <2>1. owed[e] - 1 \in Nat /\ owed'[e] = owed[e] - 1
    BY <1>0, <1>2, <1>4
  <2>2. \A x \in Event : x # e => owed'[x] = owed[x]
    BY <1>0, <1>2, <1>4
  <2>3. owed' \in [Event -> Nat]
    BY <1>0, <1>2, <2>1
  <2> QED
    BY <1>0, <1>2, <1>4, <1>5, <2>1, <2>2, <2>3
<1>12. TypeInv'
  BY <1>0, <1>1, <1>10, <1>11 DEF IInv, TypeInv
<1>13. CountInv'
  <2>1. \A x \in Event : owed[x] \in Nat /\ owed'[x] \in Nat /\ owed[x] + Len(deferred) <= ops
    BY <1>2, <1>11 DEF IInv, CountInv
  <2>2. ops \in Nat /\ Len(deferred) \in Nat
    BY LenProperties DEF IInv, TypeInv
  <2> QED
    BY <1>0, <1>11, <2>1, <2>2 DEF IInv, CountInv
<1>14. AliveInv'
  <2>0. \A x : ~Destroys(deferred, 1, x)
    BY <1>0 DEF Destroys
  <2>1. e \in alive
    BY <1>4, <2>0 DEF IInv, AliveInv
  <2> QED
    BY <1>0, <1>5, <2>0, <2>1 DEF IInv, AliveInv
<1>15. StackInv' /\ (Plain => Nested(control', event'))
  BY <1>0, <1>5, <1>9, KeptRunning
<1>16. PlainInv'
  BY <1>0, <1>1, <1>9, <1>15 DEF IInv, PlainInv
<1> QED
  BY <1>0, <1>9, <1>10, <1>12, <1>13, <1>14, <1>15, <1>16 DEF IInv

\* armv6m_event_acquire lowers the ceiling while nothing is chosen.
LEMMA AcquireInv ==
  ASSUME IInv, NEW p \in program.ceilings, Acquire(p)
  PROVE  IInv'
<1>0. /\ stage = "thread" /\ ~control.notify /\ ops < program.ops /\ ops' = ops + 1
      /\ saved' = Append(saved, [ceiling |-> control.ceiling, depth |-> Len(control.stack)])
      /\ control' = IF p < control.ceiling THEN [control EXCEPT !.ceiling = p] ELSE control
      /\ UNCHANGED <<program, alive, event, deferred, stage, owed>>
  BY DEF Acquire, ThreadRuns
<1>1. /\ program' \in Programs /\ Op' = Op /\ Plain' = Plain /\ program.ops \in Nat
      /\ p \in 0..Cooperative /\ ~Plain
  BY <1>0, ProgramFacts DEF IInv, TypeInv, Plain
<1>2. /\ control' \in ControlType /\ control'.next = control.next
      /\ control'.self = control.self /\ control'.stack = control.stack
      /\ control'.preemptive = control.preemptive /\ control'.cooperative = control.cooperative
  BY <1>0, <1>1 DEF IInv, TypeInv, ControlType
<1>3. control.next = None
  BY <1>0 DEF IInv, ChoiceInv
<1>4. saved' \in Seq([ceiling : 0..Cooperative, depth : Nat])
  <2>1. control.ceiling \in 0..Cooperative /\ Len(control.stack) \in Nat
    BY LenProperties DEF IInv, TypeInv, ControlType
  <2> QED
    BY <1>0, <2>1, AppendProperties DEF IInv, TypeInv
<1>5. TypeInv'
  BY <1>0, <1>1, <1>2, <1>4 DEF IInv, TypeInv
<1>6. ListsInv' /\ ChoiceInv' /\ StackInv' /\ PlainInv' /\ AliveInv'
  BY <1>0, <1>1, <1>2, <1>3
  DEF IInv, ListsInv, Hold, ChoiceInv, ChoiceIsHead, StackInv, Running, PlainInv, AliveInv,
      Preempting, Polled, Due
<1>7. CountInv'
  <2>1. \A x \in Event : owed[x] \in Nat
    BY DEF IInv, TypeInv
  <2>2. ops \in Nat /\ Len(deferred) \in Nat
    BY LenProperties DEF IInv, TypeInv
  <2> QED
    BY <1>0, <1>1, <2>1, <2>2 DEF IInv, CountInv
<1> QED
  BY <1>5, <1>6, <1>7 DEF IInv

\* armv6m_event_release restores the ceiling while nothing is chosen.
LEMMA ReleaseInv ==
  ASSUME IInv, Release
  PROVE  IInv'
<1>0. /\ stage = "thread" /\ ~control.notify /\ saved # <<>>
      /\ control' = [control EXCEPT !.ceiling = Last(saved).ceiling]
      /\ saved' = Front(saved)
      /\ UNCHANGED <<program, alive, event, deferred, stage, ops, owed>>
  BY DEF Release, ThreadRuns
<1>1. /\ program' \in Programs /\ Op' = Op /\ Plain' = Plain /\ ~Plain
  BY <1>0, ProgramFacts DEF IInv, TypeInv, PlainInv
<1>2. /\ Last(saved).ceiling \in 0..Cooperative
      /\ saved' \in Seq([ceiling : 0..Cooperative, depth : Nat])
  <2> DEFINE T == [ceiling : 0..Cooperative, depth : Nat]
  <2>1. saved \in Seq(T)
    BY DEF IInv, TypeInv
  <2> HIDE DEF T
  <2>2. Last(saved) \in T /\ Front(saved) \in Seq(T)
    BY <1>0, <2>1, FrontLast
  <2> QED
    BY <1>0, <2>2 DEF T
<1>3. /\ control' \in ControlType /\ control'.next = control.next
      /\ control'.self = control.self /\ control'.stack = control.stack
      /\ control'.preemptive = control.preemptive /\ control'.cooperative = control.cooperative
  BY <1>0, <1>2 DEF IInv, TypeInv, ControlType
<1>4. control.next = None
  BY <1>0 DEF IInv, ChoiceInv
<1>5. TypeInv'
  BY <1>0, <1>1, <1>2, <1>3 DEF IInv, TypeInv
<1>6. ListsInv' /\ ChoiceInv' /\ StackInv' /\ PlainInv' /\ AliveInv' /\ CountInv'
  BY <1>0, <1>1, <1>3, <1>4
  DEF IInv, ListsInv, Hold, ChoiceInv, ChoiceIsHead, StackInv, Running, PlainInv, AliveInv,
      Preempting, Polled, Due, CountInv
<1> QED
  BY <1>5, <1>6 DEF IInv

\* A step that changes nothing keeps the invariant.
LEMMA StutterInv ==
  ASSUME IInv, UNCHANGED vars
  PROVE  IInv'
<1>1. UNCHANGED program /\ program \in Programs
  BY DEF vars, IInv, TypeInv
<1>2. Op' = Op /\ Plain' = Plain
  BY <1>1, ProgramFacts
<1> QED
  BY <1>2 DEF vars, IInv, TypeInv, ListsInv, ChoiceInv, CountInv, AliveInv, StackInv, PlainInv,
              Preempting, Polled, Due

\* The invariant holds when the kernel starts, with empty lists.
LEMMA InitInv == Init => IInv
<1> SUFFICES ASSUME Init PROVE IInv
  OBVIOUS
<1>1. program \in Programs /\ program.events \subseteq Event /\ program.ops \in Nat
  BY ArmEventAssumption DEF Init
<1>2. /\ control = [self |-> None, next |-> None, stack |-> <<>>,
                    preemptive |-> <<>>, cooperative |-> <<>>,
                    ceiling |-> Cooperative, notify |-> FALSE]
      /\ event = [e \in Event |-> [priority |-> InitPriority[e], lock |-> FALSE, count |-> 0]]
      /\ alive = program.events /\ deferred = <<>> /\ stage = "thread" /\ saved = <<>>
      /\ ops = 0 /\ owed = [e \in Event |-> 0]
  BY DEF Init
<1>3. event \in EventType /\ control \in ControlType
  <2>1. Cooperative \in Nat /\ \A e \in Event : InitPriority[e] \in 0..Cooperative
    BY ArmEventAssumption
  <2>2. event \in EventType
    BY <1>2, <2>1 DEF EventType
  <2>3. <<>> \in Seq(Event) /\ <<>> \in Seq(Event \union {None}) /\ Cooperative \in 0..Cooperative
    BY <2>1
  <2>4. control \in ControlType
    BY <1>2, <2>3 DEF ControlType
  <2> QED
    BY <2>2, <2>4
<1>4. TypeInv
  BY <1>1, <1>2, <1>3, ArmEventAssumption DEF TypeInv
<1>5. Preempting(event) = {} /\ Polled(event) = {}
  BY <1>2 DEF Preempting, Polled, Due
<1>6. ListsInv /\ ChoiceInv
  <2>1. control.preemptive = <<>> /\ control.cooperative = <<>> /\ control.next = None
    BY <1>2
  <2>2. Sorted(<<>>, event)
    BY DEF Sorted
  <2> QED
    BY <1>5, <2>1, <2>2, EmptyLists DEF ListsInv, Hold, ChoiceInv, ChoiceIsHead
<1>7. CountInv /\ AliveInv
  BY <1>1, <1>2 DEF CountInv, AliveInv
<1>8. Len(Running(control)) = 1 /\ Running(control)[1] = None
  BY <1>2 DEF Running
<1>9. StackInv
  BY <1>8 DEF StackInv
<1>10. PlainInv
  <2>1. Nested(control, event)
    BY <1>8 DEF Nested
  <2>2. ChoiceIsRight(control, event)
    BY <1>2 DEF ChoiceIsRight, Eligible
  <2> QED
    BY <1>2, <2>1, <2>2 DEF PlainInv
<1> QED
  BY <1>4, <1>6, <1>7, <1>9, <1>10 DEF IInv

\* Every step keeps the invariant.
LEMMA NextInv == IInv /\ [Next]_vars => IInv'
<1> SUFFICES ASSUME IInv, [Next]_vars PROVE IInv'
  OBVIOUS
<1>1. ASSUME NEW op \in Op, Svc(op) \/ Isr(op) PROVE IInv'
  BY <1>1, SvcInv, IsrInv
<1>2. ASSUME NEW e \in program.events, Create(e) PROVE IInv'
  BY <1>2, CreateInv
<1>3. CASE PendSV
  BY <1>3, RunDeferredInv, EnterCallbackInv, CallbackInv DEF PendSV
<1>4. CASE Return \/ Dequeue \/ Release
  BY <1>4, ReturnInv, DequeueInv, ReleaseInv
<1>5. ASSUME NEW p \in program.ceilings, Acquire(p) PROVE IInv'
  BY <1>5, AcquireInv
<1>6. CASE UNCHANGED vars
  BY <1>6, StutterInv
<1> QED
  BY <1>1, <1>2, <1>3, <1>4, <1>5, <1>6 DEF Next

\* The inductive invariant holds of every behaviour.
THEOREM Invariance == Spec => []IInv
  BY InitInv, NextInv, PTL DEF Spec

-----------------------------------------------------------------------------
(* What the invariant says. *)

\* The type invariant of ArmEvent, the bounds on its counters included: an event
\* is never counted more often than calls were made.
THEOREM TypeCorrect == Spec => []TypeOK
<1>1. IInv => TypeOK
  <2> SUFFICES ASSUME IInv PROVE TypeOK
    OBVIOUS
  <2>1. /\ program \in Programs /\ control \in ControlType /\ event \in EventType
        /\ alive \subseteq program.events /\ stage \in {"thread", "callback"}
        /\ ops \in Nat /\ owed \in [Event -> Nat] /\ Len(deferred) <= Depth
        /\ Len(deferred) \in Nat
    BY LenProperties DEF IInv, TypeInv
  <2>2. program.ops \in Nat
    BY <2>1, ArmEventAssumption
  <2>3. /\ ops \in 0..program.ops
        /\ \A e \in Event : event[e].count = owed[e] /\ owed[e] \in 0..program.ops
    BY <2>1, <2>2 DEF IInv, CountInv
  <2>4. /\ owed \in [Event -> 0..program.ops]
        /\ event \in [Event -> [priority : 0..Cooperative, lock : BOOLEAN,
                                count : 0..program.ops]]
    BY <2>1, <2>3 DEF EventType
  <2> QED
    BY <2>1, <2>3, <2>4 DEF TypeOK, ControlType
<1> QED
  BY <1>1, Invariance, PTL

\* Each event that is due is once in the list its priority selects, no other is in
\* one, the preemptive list is ordered by urgency, and what is counted is owed.
THEOREM ListsAreSound == Spec => []ListsSound
<1>1. IInv => ListsSound
  <2> SUFFICES ASSUME IInv PROVE ListsSound
    OBVIOUS
  <2>1. QueuedOnce
    <3>1. /\ Lists(control.preemptive, Preempting(event))
          /\ Lists(control.cooperative, Polled(event))
      BY DEF IInv, ListsInv, Hold
    <3>2. ASSUME NEW e \in Event
          PROVE  /\ Cardinality({i \in 1..Len(control.preemptive) : control.preemptive[i] = e})
                      = IF e \in Preempting(event) THEN 1 ELSE 0
                 /\ Cardinality({i \in 1..Len(control.cooperative) : control.cooperative[i] = e})
                      = IF e \in Polled(event) THEN 1 ELSE 0
      BY <3>1, ListsTimes
    <3> QED
      BY <3>2 DEF QueuedOnce, Preempting, Polled, Due
  <2>2. ListSorted
    BY DEF IInv, ListsInv, Hold, Sorted, ListSorted
  <2>3. CountIsOwed
    BY DEF IInv, CountInv, CountIsOwed
  <2> QED
    BY <2>1, <2>2, <2>3 DEF ListsSound
<1> QED
  BY <1>1, Invariance, PTL

\* The event that PendSV was told to switch to is still the one to run when it does.
THEOREM TheNextEventIsReady == Spec => []NextIsReady
<1>1. IInv => NextIsReady
  <2> SUFFICES ASSUME IInv, control.next # None
               PROVE  /\ control.preemptive # <<>> /\ control.next = Head(control.preemptive)
                      /\ ~event[control.next].lock
                      /\ event[control.next].priority < control.ceiling
                      /\ control.notify \/ stage = "callback"
    BY DEF NextIsReady
  <2>1. /\ control.preemptive # <<>> /\ control.next = Head(control.preemptive)
        /\ event[control.next].priority < control.ceiling
        /\ control.notify \/ stage = "callback"
    BY DEF IInv, ChoiceInv, ChoiceIsHead
  <2>2. control.next \in Preempting(event)
    BY <2>1, ListsHead DEF IInv, ListsInv, Hold
  <2> QED
    BY <2>1, <2>2 DEF Preempting, Due
<1> QED
  BY <1>1, Invariance, PTL

\* In a program that sets no ceiling and leaves priorities as they were created,
\* routines nest by strictly increasing urgency, whatever interrupts do, and
\* nothing more urgent than what runs is left waiting.
THEOREM TheMostUrgentRuns == Spec => []MostUrgentRuns
<1>1. IInv => MostUrgentRuns
  <2> SUFFICES ASSUME IInv, Plain PROVE NestedByUrgency /\ NothingReadyWaits
    BY DEF MostUrgentRuns
  <2>1. Nested(control, event) /\ ChoiceIsRight(control, event) /\ StackInv /\ ChoiceInv
    BY DEF IInv, PlainInv
  <2>2. NestedByUrgency
    BY <2>1 DEF NestedByUrgency, Nested, StackInv, Running
  <2>3. NothingReadyWaits
    BY <2>1 DEF NothingReadyWaits, ThreadRuns, ChoiceIsRight, ChoiceInv
  <2> QED
    BY <2>2, <2>3
<1> QED
  BY <1>1, Invariance, PTL

\* Of two equally urgent events, whoever was queued first is executed first, across
\* every other call, deferred or not.
THEOREM Fifo == Spec => FifoAmongEquals
<1> DEFINE F(X) == Ordered(control.preemptive, control'.preemptive, event, X)
<1>1. IInv /\ [Next]_vars => F(program.retuned)
                          \/ (stage = "callback" /\ F({control.next}))
  <2> SUFFICES ASSUME IInv, [Next]_vars
               PROVE  F(program.retuned) \/ (stage = "callback" /\ F({control.next}))
    OBVIOUS
  <2>0. ASSUME control'.preemptive = control.preemptive PROVE F(program.retuned)
    BY <2>0, OrderedSame DEF IInv, ListsInv, Hold
  <2>1. ASSUME NEW op \in Op, Svc(op) PROVE F(program.retuned)
    BY <2>1, PerformStep DEF Svc, ThreadRuns
  <2>2. ASSUME NEW op \in Op, Isr(op) PROVE F(program.retuned)
    BY <2>0, <2>2 DEF Isr
  <2>3. ASSUME NEW e \in program.events, Create(e) PROVE F(program.retuned)
    BY <2>0, <2>3 DEF Create
  <2>4. ASSUME RunDeferred PROVE F(program.retuned)
    <3>1. Head(deferred) \in Op
      BY <2>4, HeadTailProperties DEF RunDeferred, IInv, TypeInv
    <3> QED
      BY <2>4, <3>1, PerformStep DEF RunDeferred
  <2>5. ASSUME EnterCallback PROVE F(program.retuned)
    BY <2>0, <2>5 DEF EnterCallback, IInv, TypeInv, ControlType
  <2>6. ASSUME Callback PROVE F(program.retuned) \/ (stage = "callback" /\ F({control.next}))
    BY <2>0, <2>6, CallbackInv DEF Callback
  <2>7. ASSUME Return PROVE F(program.retuned)
    BY <2>0, <2>7, ReturnInv
  <2>8. ASSUME Dequeue PROVE F(program.retuned)
    BY <2>0, <2>8, DequeueInv
  <2>9. ASSUME Release PROVE F(program.retuned)
    BY <2>0, <2>9 DEF Release, IInv, TypeInv, ControlType
  <2>10. ASSUME NEW p \in program.ceilings, Acquire(p) PROVE F(program.retuned)
    BY <2>0, <2>10 DEF Acquire, IInv, TypeInv, ControlType
  <2>11. ASSUME UNCHANGED vars PROVE F(program.retuned)
    BY <2>0, <2>11 DEF vars
  <2> HIDE DEF F
  <2> QED
    BY <2>1, <2>2, <2>3, <2>4, <2>5, <2>6, <2>7, <2>8, <2>9, <2>10, <2>11 DEF Next, PendSV
<1>2. IInv /\ [Next]_vars => [KeepsOrder]_vars
  <2> SUFFICES ASSUME IInv, [Next]_vars,
                      NEW e \in program.events \ program.retuned,
                      NEW f \in program.events \ program.retuned,
                      e # f, event[e].priority = event[f].priority,
                      e \in ToSet(control.preemptive), ~Precedes(control.preemptive, f, e),
                      {e, f} \subseteq ToSet(control'.preemptive)
               PROVE  Precedes(control'.preemptive, e, f) \/ (stage = "callback" /\ control.next = e)
    BY DEF KeepsOrder, Precedes
  <2>0. e \in Event /\ f \in Event
    BY ArmEventAssumption DEF IInv, TypeInv
  <2>1. CASE F(program.retuned)
    BY <2>0, <2>1 DEF Ordered
  <2>2. CASE stage = "callback" /\ F({control.next})
    <3>1. f # control.next
      <4> SUFFICES ASSUME f = control.next PROVE FALSE
        OBVIOUS
      <4>1. Lists(control.preemptive, Preempting(event))
        BY DEF IInv, ListsInv, Hold
      <4>2. control.next # None
        BY <2>0, CooperativeIsNat
      <4>3. /\ f = control.preemptive[1] /\ Len(control.preemptive) \in Nat
            /\ ToSet(control.preemptive) = Preempting(event)
        BY <4>1, <4>2, ListsHead DEF IInv, ChoiceInv, ChoiceIsHead
      <4>4. PICK j \in 1..Len(control.preemptive) : control.preemptive[j] = e
        BY <4>1, <4>3 DEF Lists
      <4> QED
        BY <4>3, <4>4 DEF Precedes
    <3> QED
      BY <2>0, <2>2, <3>1 DEF Ordered
  <2> QED
    BY <1>1, <2>1, <2>2
<1> QED
  BY <1>2, Invariance, PTL DEF FifoAmongEquals, Spec
=============================================================================
