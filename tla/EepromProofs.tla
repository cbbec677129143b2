---------------------------- MODULE EepromProofs ----------------------------
(***************************************************************************)
(* Theorems about Eeprom for every set of transactions, areas of every     *)
(* length and every bound, in a program whose interrupt enqueues only      *)
(* transactions of the bank the program is fetched from, and whose         *)
(* callbacks enqueue only transactions of the other bank.                  *)
(*                                                                         *)
(* The argument follows a transaction from hand to hand: linked by the     *)
(* thread, in the list, taken by the interrupt, being written, reported.   *)
(* It is in one of these places, and only the last one changes its status. *)
(***************************************************************************)
EXTENDS Eeprom, ListFacts

\* Who enqueues what, where every word stalls the program or is alone.
TwoBanks ==
    /\ Careful
    /\ Synced \intersect Stalling = {}
    /\ UrgentOnes \subseteq Stalling

-----------------------------------------------------------------------------
(* The inductive invariant. *)

Elsewhere == Transactions \ Stalling

\* c is the list from h on, linked by nx, and nothing is in it twice.
IsList(h, nx, c) ==
    /\ c \in Seq(Transactions)
    /\ \A i, j \in 1..Len(c) : c[i] = c[j] => i = j
    /\ h = IF c = <<>> THEN Null ELSE c[1]
    /\ \A i \in 1..Len(c) : nx[c[i]] = IF i = Len(c) THEN Null ELSE c[i + 1]

In(c, t) == \E i \in 1..Len(c) : c[i] = t

TypeInv ==
    /\ state \in {"READY", "BUSY"}
    /\ next \in [Transactions -> Transactions \union {Null}]
    /\ status \in [Transactions -> {"NONE", "BUSY", "SUCCESS", "FAIL"}]
    /\ current \in Transactions \union {Null} /\ done \in Nat
    /\ hw \in {"idle", "busy", "eop", "error"}
    /\ irq \in {"idle", "call", "drain", "swap", "begin"}
    /\ seen \in Transactions \union {Null}
    /\ tpc \in Pcs
    /\ {mine, loaded} \subseteq Transactions \union {Null}

FlagInv == locked \in BOOLEAN /\ pend \in BOOLEAN

CountInv ==
    /\ refused \in 0 .. MaxRefused
    /\ stops = refused + (IF current = Null THEN 0 ELSE 1)
    /\ times \in [Transactions -> 0 .. MaxTimes]
    /\ tpc = "link" => times[mine] < MaxTimes

\* The pending list is a list of transactions under way.
ListInv ==
    /\ IsList(head, next, Chain)
    /\ \A i \in 1..Len(Chain) : status[Chain[i]] = "BUSY"

\* Where the interrupt is, and what it holds.
SeenInv ==
    /\ seen # Null <=> irq \in {"call", "swap", "begin"}
    /\ irq = "swap" => Chain # <<>> /\ seen = Chain[Len(Chain)]
    /\ irq = "begin" => status[seen] = "BUSY" /\ ~In(Chain, seen)
    /\ irq = "call" /\ seen \in Synced => status[seen] # "BUSY" /\ tpc # "link"

\* What the thread holds.
MineInv ==
    tpc = "link" =>
        /\ mine \in Transactions \ UrgentOnes
        /\ status[mine] = "BUSY" /\ next[mine] = loaded
        /\ ~In(Chain, mine) /\ mine # current /\ mine # seen

\* What is being written.
CurrentInv ==
    /\ current # Null <=> hw # "idle"
    /\ current # Null =>
          /\ status[current] = "BUSY" /\ ~In(Chain, current)
          /\ irq \in {"idle", "drain"}
          /\ irq = "drain" => current \notin Stalling
          /\ locked = FALSE

\* The words of the one being written that were passed hold its value.
StoredInv ==
    current # Null =>
        /\ Control[current] # "READ"
        /\ done \in 1..Len(Area[current])
        /\ \A j \in 1..done : j < done \/ hw = "eop"
                => mem[Area[current][j]] = Data[current]

MemInv == mem \in [Word -> Range(Data) \union {Erased}]

\* A transaction of the other bank is alone: nothing is behind it.
AloneInv ==
    \A u \in Elsewhere : status[u] = "BUSY" =>
        /\ \A v \in Elsewhere : status[v] = "BUSY" => v = u
        /\ tpc = "link" => mine = u
        /\ \A i \in 1..Len(Chain) : Chain[i] = u => i = 1
        /\ current = u \/ (irq = "begin" /\ seen = u) => Chain = <<>>
        /\ ~ (irq = "call" /\ seen \in Synced)

\* The owner of the flash controller.
OwnerInv ==
    /\ state = "BUSY" <=> tpc \in {"spin", "owner"}
    /\ state = "BUSY" => irq \notin {"swap", "begin"}
    /\ tpc = "owner" => current = Null /\ locked = FALSE /\ irq \in {"idle", "drain"}

IInv == /\ TypeInv /\ FlagInv /\ CountInv /\ ListInv /\ SeenInv /\ MineInv
        /\ CurrentInv /\ StoredInv /\ MemInv /\ AloneInv /\ OwnerInv

-----------------------------------------------------------------------------
(* The list. *)

\* A list without duplicates is no longer than there are transactions.
LEMMA ListLength ==
  ASSUME NEW c \in Seq(Transactions), \A i, j \in 1..Len(c) : c[i] = c[j] => i = j
  PROVE  Len(c) <= Cardinality(Transactions) /\ Cardinality(Transactions) \in Nat
<1>0. IsFiniteSet(Transactions) /\ Len(c) \in Nat
  BY EepromAssumption
<1>1. Cardinality(Transactions) \in Nat
  BY <1>0, FS_CardinalityType
<1>2. c \in [1..Len(c) -> Transactions]
  OBVIOUS
<1>3. c \in Injection(1..Len(c), Transactions)
  BY <1>2 DEF Injection, IsInjective
<1>4. Cardinality(1..Len(c)) <= Cardinality(Transactions)
  BY <1>0, <1>3, FS_Injection, Zenon
<1>5. Cardinality(1..Len(c)) = Len(c)
  <2>1. 1 \in Int /\ Len(c) \in Int
    BY <1>0
  <2>2. Cardinality(1..Len(c)) = IF 1 > Len(c) THEN 0 ELSE Len(c) - 1 + 1
    BY <2>1, FS_Interval, Zenon
  <2> QED
    BY <1>0, <2>2
<1> QED
  BY <1>1, <1>4, <1>5

\* Following the links from the head yields the list.
LEMMA ChainIs ==
  ASSUME NEW h, NEW nx, NEW c, IsList(h, nx, c)
  PROVE  ChainOf(h, nx) = c
<1> DEFINE N == Cardinality(Transactions)
           Step(f) == [n \in 0..N |-> IF n = 0 THEN h
                         ELSE IF f[n - 1] = Null THEN Null ELSE nx[f[n - 1]]]
           nth == CHOOSE f : f = Step(f)
           g == [n \in 0..N |-> IF n < Len(c) THEN c[n + 1] ELSE Null]
           length == Cardinality({n \in DOMAIN nth : nth[n] # Null})
<1>1. /\ c \in Seq(Transactions) /\ Len(c) \in Nat
      /\ \A i \in 1..Len(c) : c[i] \in Transactions
      /\ h = IF c = <<>> THEN Null ELSE c[1]
      /\ \A i \in 1..Len(c) : nx[c[i]] = IF i = Len(c) THEN Null ELSE c[i + 1]
      /\ Null \notin Transactions
  BY EepromAssumption DEF IsList
<1>2. Len(c) <= N /\ N \in Nat
  BY ListLength DEF IsList
<1>3. ChainOf(h, nx) = [n \in 1..length |-> nth[n - 1]]
  BY DEF ChainOf
<1> HIDE DEF N
<1>4. g = Step(g)
  <2>1. \A n \in 0..N : g[n] = Step(g)[n]
    <3> TAKE n \in 0..N
    <3>1. CASE n = 0
      <4>1. g[0] = IF 0 < Len(c) THEN c[1] ELSE Null
        BY <1>2
      <4>2. Step(g)[0] = h
        BY <1>2
      <4> QED
        BY <3>1, <4>1, <4>2, <1>1
    <3>2. CASE n # 0
      <4>1. n - 1 \in 0..N /\ n \in Nat \ {0}
        BY <3>2, <1>2
      <4>2. g[n - 1] = IF n - 1 < Len(c) THEN c[n] ELSE Null
        BY <4>1
      <4>3. Step(g)[n] = IF g[n - 1] = Null THEN Null ELSE nx[g[n - 1]]
        BY <3>2
      <4>4. g[n] = IF n < Len(c) THEN c[n + 1] ELSE Null
        OBVIOUS
      <4> HIDE DEF g, Step
      <4>5. CASE n - 1 < Len(c)
        <5>1. n \in 1..Len(c)
          BY <4>1, <4>5, <1>1
        <5>2. g[n - 1] = c[n] /\ c[n] # Null
          BY <4>2, <4>5, <5>1, <1>1
        <5>3. nx[c[n]] = IF n = Len(c) THEN Null ELSE c[n + 1]
          BY <5>1, <1>1
        <5> QED
          BY <4>3, <4>4, <5>1, <5>2, <5>3, <1>1
      <4>6. CASE ~(n - 1 < Len(c))
        BY <4>1, <4>2, <4>3, <4>4, <4>6, <1>1
      <4> QED
        BY <4>5, <4>6
    <3> QED
      BY <3>1, <3>2
  <2> QED
    BY <2>1
<1>5. nth = Step(nth)
  <2> HIDE DEF g, Step
  <2> QED
    BY <1>4
<1>6. \A n \in 0..N : nth[n] = g[n]
  <2> SUFFICES ASSUME {n \in 0..N : nth[n] # g[n]} # {}
               PROVE  FALSE
    OBVIOUS
  <2> HIDE DEF nth
  <2> DEFINE B == {n \in 0..N : nth[n] # g[n]}
  <2> HIDE DEF g
  <2>1. B \in SUBSET Nat /\ B # {}
    BY <1>2
  <2>2. PICK n \in B : \A k \in B : n <= k
    <3> HIDE DEF B
    <3> QED
      BY <2>1, LeastNat
  <2>3. n \in 0..N /\ nth[n] # g[n]
    OBVIOUS
  <2>4. n = 0 => nth[n] = g[n]
    <3>1. Step(nth)[0] = h /\ Step(g)[0] = h
      BY <1>2
    <3> HIDE DEF Step
    <3> QED
      BY <3>1, <1>4, <1>5
  <2>5. n - 1 \in 0..N /\ n # 0 /\ n - 1 \notin B
    BY <2>2, <2>3, <2>4, <1>2
  <2>6. nth[n - 1] = g[n - 1]
    BY <2>5
  <2>7. Step(nth)[n] = Step(g)[n]
    BY <2>3, <2>6
  <2> HIDE DEF Step
  <2> QED
    BY <2>3, <2>7, <1>4, <1>5
<1>7. DOMAIN nth = 0..N
  <2>1. DOMAIN Step(nth) = 0..N
    OBVIOUS
  <2> HIDE DEF Step, nth
  <2> QED
    BY <2>1, <1>5
<1>8. {n \in DOMAIN nth : nth[n] # Null} = 0..Len(c) - 1
  <2>1. \A n \in 0..N : nth[n] # Null <=> n < Len(c)
    <3> TAKE n \in 0..N
    <3>1. nth[n] = IF n < Len(c) THEN c[n + 1] ELSE Null
      BY <1>6
    <3> HIDE DEF nth
    <3>2. n < Len(c) => c[n + 1] \in Transactions
      BY <1>1, <1>2
    <3> QED
      BY <3>1, <3>2, <1>1
  <2> HIDE DEF nth
  <2> QED
    BY <2>1, <1>1, <1>2, <1>7
<1>9. length = Len(c)
  <2>1. Cardinality(0..Len(c) - 1) = Len(c)
    <3>1. 0 \in Int /\ Len(c) - 1 \in Int
      BY <1>1
    <3>2. Cardinality(0..Len(c) - 1) = IF 0 > Len(c) - 1 THEN 0 ELSE Len(c) - 1 - 0 + 1
      BY <3>1, FS_Interval, Zenon
    <3> QED
      BY <1>1, <3>2
  <2> HIDE DEF nth
  <2> QED
    BY <2>1, <1>8
<1>10. \A n \in 1..Len(c) : nth[n - 1] = c[n]
  <2> TAKE n \in 1..Len(c)
  <2>1. n - 1 \in 0..N /\ n - 1 < Len(c)
    BY <1>1, <1>2
  <2> HIDE DEF nth
  <2> QED
    BY <2>1, <1>6
<1> HIDE DEF nth, length
<1> QED
  <2>1. c = [n \in 1..Len(c) |-> c[n]]
    BY <1>1
  <2> QED
    BY <2>1, <1>3, <1>9, <1>10

\* What a list is, as far as the entries go.
LEMMA ListFacts1 ==
  ASSUME NEW h, NEW nx, NEW c, IsList(h, nx, c)
  PROVE  /\ Len(c) \in Nat /\ \A i \in 1..Len(c) : c[i] \in Transactions
         /\ c = <<>> <=> Len(c) = 0
         /\ h = Null <=> c = <<>>
         /\ c # <<>> => h = c[1] /\ h \in Transactions
         /\ h \in Transactions \union {Null}
<1>1. Len(c) \in Nat /\ \A i \in 1..Len(c) : c[i] \in Transactions
  BY DEF IsList
<1>2. c = <<>> <=> Len(c) = 0
  BY EmptySeq DEF IsList
<1> QED
  BY <1>1, <1>2, EepromAssumption DEF IsList

\* The empty list.
LEMMA EmptyList == ASSUME NEW nx PROVE IsList(Null, nx, <<>>)
  BY DEF IsList

\* The link of a transaction that is not in the list does not matter.
LEMMA LinkOutside ==
  ASSUME NEW h, NEW nx \in [Transactions -> Transactions \union {Null}],
         NEW c, IsList(h, nx, c),
         NEW t \in Transactions, ~In(c, t), NEW x
  PROVE  IsList(h, [nx EXCEPT ![t] = x], c)
<1>1. \A i \in 1..Len(c) : c[i] \in Transactions /\ c[i] # t
  BY ListFacts1 DEF In
<1>2. \A i \in 1..Len(c) : [nx EXCEPT ![t] = x][c[i]] = nx[c[i]]
  BY <1>1
<1> HIDE DEF In
<1> QED
  BY <1>2 DEF IsList

\* A transaction that links to the head comes first.
LEMMA PushFront ==
  ASSUME NEW h, NEW nx, NEW c, IsList(h, nx, c),
         NEW t \in Transactions, ~In(c, t), nx[t] = h
  PROVE  /\ IsList(t, nx, <<t>> \o c)
         /\ Len(<<t>> \o c) = Len(c) + 1
         /\ \A i \in 1..Len(c) + 1 : (<<t>> \o c)[i] = IF i = 1 THEN t ELSE c[i - 1]
         /\ \A u : In(<<t>> \o c, u) <=> u = t \/ In(c, u)
<1> DEFINE d == <<t>> \o c
<1>1. /\ Len(c) \in Nat /\ \A i \in 1..Len(c) : c[i] \in Transactions /\ c[i] # t
      /\ c = <<>> <=> Len(c) = 0
  BY ListFacts1 DEF In
<1>2. /\ d \in Seq(Transactions) /\ Len(d) = Len(c) + 1
      /\ \A i \in 1..Len(c) + 1 : d[i] = IF i = 1 THEN t ELSE c[i - 1]
  <2>1. /\ <<t>> \in Seq(Transactions) /\ Len(<<t>>) = 1 /\ <<t>>[1] = t
        /\ c \in Seq(Transactions)
    BY DEF IsList
  <2>2. /\ d \in Seq(Transactions) /\ Len(d) = Len(<<t>>) + Len(c)
        /\ \A i \in 1..Len(<<t>>) + Len(c) : d[i] = IF i <= Len(<<t>>) THEN <<t>>[i] ELSE c[i - Len(<<t>>)]
    BY <2>1, ConcatProperties, Zenon
  <2> HIDE DEF d
  <2> QED
    BY <1>1, <2>1, <2>2
<1> HIDE DEF d
<1>3. \A i, j \in 1..Len(d) : d[i] = d[j] => i = j
  <2>1. \A i, j \in 1..Len(c) : c[i] = c[j] => i = j
    BY DEF IsList
  <2> TAKE i, j \in 1..Len(d)
  <2>2. \A k \in 1..Len(d) : k = 1 \/ (k - 1 \in 1..Len(c) /\ d[k] = c[k - 1])
    BY <1>1, <1>2
  <2>3. CASE i = 1 \/ j = 1
    <3>1. d[1] = t
      BY <1>1, <1>2
    <3>2. \A k \in 1..Len(d) : k # 1 => d[k] # t
      BY <2>2, <1>1
    <3> QED
      BY <2>3, <3>1, <3>2
  <2>4. CASE i # 1 /\ j # 1
    BY <2>1, <2>2, <2>4
  <2> QED
    BY <2>3, <2>4
<1>4. d # <<>> /\ d[1] = t
  BY <1>1, <1>2
<1>5. \A i \in 1..Len(d) : nx[d[i]] = IF i = Len(d) THEN Null ELSE d[i + 1]
  <2> TAKE i \in 1..Len(d)
  <2>1. \A k \in 1..Len(c) : nx[c[k]] = IF k = Len(c) THEN Null ELSE c[k + 1]
    BY DEF IsList
  <2>2. CASE i = 1
    <3>1. h = IF Len(c) = 0 THEN Null ELSE c[1]
      BY <1>1 DEF IsList
    <3> QED
      BY <1>1, <1>2, <2>2, <3>1
  <2>3. CASE i # 1
    <3>1. i - 1 \in 1..Len(c) /\ d[i] = c[i - 1]
      BY <1>1, <1>2, <2>3
    <3>2. nx[c[i - 1]] = IF i - 1 = Len(c) THEN Null ELSE c[i]
      BY <2>1, <3>1, <1>1
    <3>3. i # Len(d) => d[i + 1] = c[i]
      BY <1>1, <1>2, <2>3
    <3> QED
      BY <3>1, <3>2, <3>3, <1>1, <1>2
  <2> QED
    BY <2>2, <2>3
<1>6. \A u : In(d, u) <=> u = t \/ In(c, u)
  <2> TAKE u
  <2>1. ASSUME In(d, u) PROVE u = t \/ In(c, u)
    <3>1. PICK i \in 1..Len(d) : d[i] = u
      BY <2>1 DEF In
    <3>2. i # 1 => i - 1 \in 1..Len(c) /\ c[i - 1] = u
      BY <3>1, <1>1, <1>2
    <3>3. i = 1 => u = t
      BY <3>1, <1>4
    <3> QED
      BY <3>2, <3>3 DEF In
  <2>2. ASSUME In(c, u) PROVE In(d, u)
    <3>1. PICK i \in 1..Len(c) : c[i] = u
      BY <2>2 DEF In
    <3>2. i + 1 \in 1..Len(d) /\ d[i + 1] = u
      BY <3>1, <1>1, <1>2
    <3> QED
      BY <3>2 DEF In
  <2>3. ASSUME u = t PROVE In(d, u)
    <3>1. 1 \in 1..Len(d)
      BY <1>1, <1>2
    <3> QED
      BY <3>1, <2>3, <1>4 DEF In
  <2> QED
    BY <2>1, <2>2, <2>3
<1> QED
  BY <1>2, <1>3, <1>4, <1>5, <1>6 DEF IsList, d

\* Cutting the link behind the last but one drops the last.
LEMMA CutLast ==
  ASSUME NEW h, NEW nx \in [Transactions -> Transactions \union {Null}],
         NEW c, IsList(h, nx, c), Len(c) > 1
  PROVE  /\ IsList(h, [nx EXCEPT ![c[Len(c) - 1]] = Null], Front(c))
         /\ Len(Front(c)) = Len(c) - 1
         /\ \A i \in 1..Len(c) - 1 : Front(c)[i] = c[i]
         /\ Last(c) = c[Len(c)] /\ Last(c) \in Transactions
         /\ \A u : In(Front(c), u) <=> In(c, u) /\ u # Last(c)
<1> DEFINE d == Front(c)
           n2 == [nx EXCEPT ![c[Len(c) - 1]] = Null]
<1>1. /\ c \in Seq(Transactions) /\ Len(c) \in Nat /\ c # <<>>
      /\ \A i \in 1..Len(c) : c[i] \in Transactions
      /\ h = c[1]
  BY ListFacts1 DEF IsList
<1>2. /\ d \in Seq(Transactions) /\ Len(d) = Len(c) - 1
      /\ \A i \in 1..Len(c) - 1 : d[i] = c[i]
      /\ Last(c) = c[Len(c)] /\ Last(c) \in Transactions
  BY <1>1, FrontLast
<1> HIDE DEF d
<1>3. \A i, j \in 1..Len(c) : c[i] = c[j] => i = j
  BY DEF IsList
<1>4. \A i \in 1..Len(c) - 1 : n2[c[i]] = IF i = Len(c) - 1 THEN Null ELSE c[i + 1]
  <2> TAKE i \in 1..Len(c) - 1
  <2>1. i \in 1..Len(c) /\ Len(c) - 1 \in 1..Len(c) /\ i # Len(c)
    BY <1>1
  <2>2. nx[c[i]] = c[i + 1]
    BY <2>1 DEF IsList
  <2>3. c[i] = c[Len(c) - 1] <=> i = Len(c) - 1
    BY <1>3, <2>1
  <2>4. n2[c[i]] = IF c[i] = c[Len(c) - 1] THEN Null ELSE nx[c[i]]
    BY <1>1, <2>1
  <2> QED
    BY <2>2, <2>3, <2>4
<1> HIDE DEF n2
<1>5. IsList(h, n2, d)
  <2>1. \A i, j \in 1..Len(d) : d[i] = d[j] => i = j
    BY <1>1, <1>2, <1>3
  <2>2. d # <<>> /\ h = d[1]
    BY <1>1, <1>2
  <2>3. \A i \in 1..Len(d) : n2[d[i]] = IF i = Len(d) THEN Null ELSE d[i + 1]
    BY <1>1, <1>2, <1>4
  <2> QED
    BY <1>2, <2>1, <2>2, <2>3 DEF IsList
<1>6. \A u : In(d, u) <=> In(c, u) /\ u # Last(c)
  <2> TAKE u
  <2>1. ASSUME In(d, u) PROVE In(c, u) /\ u # Last(c)
    <3>1. PICK i \in 1..Len(d) : d[i] = u
      BY <2>1 DEF In
    <3>2. i \in 1..Len(c) /\ i # Len(c) /\ Len(c) \in 1..Len(c) /\ c[i] = u
      BY <3>1, <1>1, <1>2
    <3> QED
      BY <3>2, <1>2, <1>3 DEF In
  <2>2. ASSUME In(c, u), u # Last(c) PROVE In(d, u)
    <3>1. PICK i \in 1..Len(c) : c[i] = u
      BY <2>2 DEF In
    <3>2. i # Len(c)
      BY <3>1, <2>2, <1>2
    <3>3. i \in 1..Len(d) /\ d[i] = u
      BY <3>1, <3>2, <1>1, <1>2
    <3> QED
      BY <3>3 DEF In
  <2> QED
    BY <2>1, <2>2
<1> QED
  BY <1>2, <1>5, <1>6 DEF d, n2

-----------------------------------------------------------------------------
(* The invariant is preserved: the thread. *)

\* A step that leaves the list alone.
LEMMA SameList == ASSUME UNCHANGED list PROVE Chain' = Chain
  BY DEF Chain, list

\* The thread marks its transaction and reads the head.
LEMMA LinkIsInvariant ==
  ASSUME IInv, TwoBanks, NEW t \in Transactions, EnqueueLink(t)
  PROVE  IInv'
<1>1. /\ irq = "idle" /\ tpc = "run" /\ t \notin UrgentOnes /\ status[t] # "BUSY"
      /\ times[t] < MaxTimes
      /\ \A u \in Elsewhere : status[u] # "BUSY"
      /\ status' = [status EXCEPT ![t] = "BUSY"]
      /\ next' = [next EXCEPT ![t] = head]
      /\ tpc' = "link" /\ mine' = t /\ loaded' = head
      /\ UNCHANGED <<state, head, current, done, locked, hw, mem, pend, irq, seen,
                     stops, refused, times>>
  BY DEF EnqueueLink, InThread, MayEnqueue, TwoBanks, Elsewhere, device, handler, counts
<1>2. TypeInv /\ ListInv /\ SeenInv /\ MineInv /\ CurrentInv /\ AloneInv /\ OwnerInv
  BY DEF IInv
<1>3. /\ head \in Transactions \union {Null} /\ Len(Chain) \in Nat
      /\ \A i \in 1..Len(Chain) : Chain[i] \in Transactions
  BY <1>2, ListFacts1 DEF ListInv
<1>4. ~In(Chain, t)
  BY <1>1, <1>2 DEF ListInv, In
<1>5. Chain' = Chain /\ ListInv'
  <2>1. IsList(head, next', Chain)
    BY <1>1, <1>2, <1>4, LinkOutside DEF ListInv, TypeInv
  <2>2. ChainOf(head, next') = Chain
    BY <2>1, ChainIs
  <2>3. Chain' = Chain
    BY <2>2, <1>1 DEF Chain
  <2> QED
    BY <2>1, <2>3, <1>1, <1>2, <1>3 DEF ListInv, TypeInv
<1>6. TypeInv'
  BY <1>1, <1>2, <1>3 DEF TypeInv, Pcs
<1>7. FlagInv' /\ CountInv' /\ StoredInv' /\ MemInv'
  BY <1>1 DEF IInv, FlagInv, CountInv, StoredInv, MemInv
<1>8. SeenInv' /\ CurrentInv'
  BY <1>1, <1>2, <1>5 DEF SeenInv, CurrentInv, TypeInv, In
<1>9. MineInv'
  BY <1>1, <1>2, <1>4, <1>5, EepromAssumption DEF MineInv, TypeInv, In, SeenInv, CurrentInv
<1>10. AloneInv'
  <2>1. \A u \in Elsewhere : status'[u] = "BUSY" => u = t
    BY <1>1, <1>2 DEF TypeInv, Elsewhere
  <2>2. current # t
    BY <1>1, <1>2, EepromAssumption DEF CurrentInv
  <2> QED
    BY <2>1, <2>2, <1>1, <1>4, <1>5 DEF AloneInv, In
<1>11. OwnerInv'
  BY <1>1, <1>2 DEF OwnerInv
<1> QED
  BY <1>5, <1>6, <1>7, <1>8, <1>9, <1>10, <1>11 DEF IInv

\* The compare-and-swap puts it first, or the head is read again.
LEMMA SwapIsInvariant ==
  ASSUME IInv, TwoBanks, EnqueueSwap
  PROVE  IInv'
<1>1. /\ irq = "idle" /\ tpc = "link"
      /\ UNCHANGED <<state, status, current, done, locked, hw, mem, irq, seen, mine,
                     stops, refused>>
  BY DEF EnqueueSwap, InThread, device, handler, counts
<1>2. TypeInv /\ ListInv /\ SeenInv /\ MineInv /\ CurrentInv /\ AloneInv /\ OwnerInv
  BY DEF IInv
<1>3. /\ head \in Transactions \union {Null} /\ Len(Chain) \in Nat
      /\ \A i \in 1..Len(Chain) : Chain[i] \in Transactions
  BY <1>2, ListFacts1 DEF ListInv
<1>4. mine \in Transactions /\ ~In(Chain, mine) /\ next[mine] = loaded /\ status[mine] = "BUSY"
  BY <1>1, <1>2 DEF MineInv
<1>5. CASE head = loaded
  <2>1. /\ head' = mine /\ pend' = TRUE /\ times' = [times EXCEPT ![mine] = @ + 1]
        /\ tpc' \in {"run", "wait"} /\ UNCHANGED <<next, loaded>>
    BY <1>5 DEF EnqueueSwap
  <2> DEFINE d == <<mine>> \o Chain
  <2>2. /\ IsList(mine, next, d)
        /\ Len(d) = Len(Chain) + 1
        /\ \A i \in 1..Len(Chain) + 1 : d[i] = IF i = 1 THEN mine ELSE Chain[i - 1]
        /\ \A u : In(d, u) <=> u = mine \/ In(Chain, u)
    BY <1>2, <1>4, <1>5, PushFront DEF ListInv
  <2> HIDE DEF d
  <2>3. Chain' = d
    BY <2>1, <2>2, ChainIs DEF Chain
  <2>4. ListInv'
    <3>1. \A i \in 1..Len(d) : status[d[i]] = "BUSY"
      <4> TAKE i \in 1..Len(d)
      <4>1. i = 1 \/ (i - 1 \in 1..Len(Chain) /\ d[i] = Chain[i - 1])
        BY <1>3, <2>2
      <4>2. d[1] = mine
        BY <1>3, <2>2
      <4> QED
        BY <4>1, <4>2, <1>2, <1>4 DEF ListInv
    <3> QED
      BY <3>1, <1>1, <2>1, <2>2, <2>3 DEF ListInv
  <2>5. TypeInv'
    BY <1>1, <1>2, <2>1 DEF TypeInv, Pcs
  <2>6. FlagInv' /\ StoredInv' /\ MemInv'
    BY <1>1, <2>1 DEF IInv, FlagInv, StoredInv, MemInv
  <2>7. CountInv'
    <3>1. CountInv /\ MaxTimes \in Nat
      BY EepromAssumption DEF IInv
    <3>2. times[mine] + 1 \in 0..MaxTimes
      BY <3>1, <1>1, <1>4 DEF CountInv
    <3> QED
      BY <3>1, <3>2, <1>1, <1>4, <2>1 DEF CountInv
  <2>8. SeenInv' /\ CurrentInv'
    BY <1>1, <1>2, <2>1, <2>2, <2>3 DEF SeenInv, CurrentInv, MineInv
  <2>9. MineInv'
    BY <2>1 DEF MineInv
  <2>10. AloneInv'
    <3>1. \A u \in Elsewhere : status[u] = "BUSY" => mine = u
      BY <1>1, <1>2 DEF AloneInv
    <3>2. \A i \in 1..Len(d) : d[i] = mine => i = 1
      <4> TAKE i \in 1..Len(d)
      <4>1. i = 1 \/ (i - 1 \in 1..Len(Chain) /\ d[i] = Chain[i - 1])
        BY <1>3, <2>2
      <4> QED
        BY <4>1, <1>4 DEF In
    <3>3. mine # current /\ mine # seen
      BY <1>1, <1>2 DEF MineInv
    <3> QED
      BY <3>1, <3>2, <3>3, <1>1, <2>1, <2>3 DEF AloneInv
  <2>11. OwnerInv'
    BY <1>1, <1>2, <2>1 DEF OwnerInv
  <2> QED
    BY <2>4, <2>5, <2>6, <2>7, <2>8, <2>9, <2>10, <2>11 DEF IInv
<1>6. CASE head # loaded
  <2>1. /\ next' = [next EXCEPT ![mine] = head] /\ loaded' = head
        /\ UNCHANGED <<head, pend, times, tpc>>
    BY <1>6 DEF EnqueueSwap
  <2>2. Chain' = Chain /\ ListInv'
    <3>1. IsList(head, next', Chain)
      BY <1>2, <1>4, <2>1, LinkOutside DEF ListInv, TypeInv
    <3>2. ChainOf(head, next') = Chain
      BY <3>1, ChainIs
    <3>3. Chain' = Chain
      BY <3>2, <2>1 DEF Chain
    <3> QED
      BY <3>1, <3>3, <1>1, <1>2, <2>1 DEF ListInv
  <2>3. TypeInv'
    BY <1>1, <1>2, <1>3, <2>1 DEF TypeInv
  <2>4. FlagInv' /\ CountInv' /\ StoredInv' /\ MemInv'
    BY <1>1, <2>1 DEF IInv, FlagInv, CountInv, StoredInv, MemInv
  <2>5. SeenInv' /\ CurrentInv' /\ AloneInv' /\ OwnerInv'
    BY <1>1, <1>2, <2>1, <2>2 DEF SeenInv, CurrentInv, AloneInv, OwnerInv
  <2>6. MineInv'
    BY <1>1, <1>2, <1>4, <2>1, <2>2 DEF MineInv, TypeInv
  <2> QED
    BY <2>2, <2>3, <2>4, <2>5, <2>6 DEF IInv
<1> QED
  BY <1>5, <1>6

\* The wait, and the owner of the flash controller, leave the list alone.
LEMMA ThreadIsInvariant ==
  ASSUME IInv, WaitOver \/ Acquire \/ Unlock \/ Release
  PROVE  IInv'
<1>1. /\ UNCHANGED <<head, next, status, current, done, hw, mem, irq, seen, mine, loaded,
                     stops, refused, times>>
      /\ irq = "idle"
  BY DEF WaitOver, Acquire, Unlock, Release, InThread, list, device, handler, counts
<1>2. TypeInv /\ ListInv /\ SeenInv /\ MineInv /\ CurrentInv /\ AloneInv /\ OwnerInv /\ FlagInv
  BY DEF IInv
<1>3. tpc # "link" /\ tpc' # "link" /\ tpc' \in Pcs /\ state' \in {"READY", "BUSY"}
  BY <1>2 DEF WaitOver, Acquire, Unlock, Release, Pcs, TypeInv
<1>4. FlagInv'
  BY <1>2 DEF WaitOver, Acquire, Unlock, Release, FlagInv, device
<1>5. current # Null => locked' = FALSE
  <2>1. current # Null => locked = FALSE /\ tpc # "owner"
    BY <1>2 DEF CurrentInv, OwnerInv
  <2> QED
    BY <2>1 DEF WaitOver, Acquire, Unlock, Release, device
<1>6. OwnerInv'
  BY <1>1, <1>2 DEF WaitOver, Acquire, Unlock, Release, OwnerInv, device
<1>7. Chain' = Chain
  BY <1>1 DEF Chain
<1>8. TypeInv'
  BY <1>1, <1>2, <1>3 DEF TypeInv
<1>9. CountInv' /\ StoredInv' /\ MemInv'
  BY <1>1, <1>3 DEF IInv, CountInv, StoredInv, MemInv
<1>10. ListInv' /\ SeenInv' /\ CurrentInv' /\ AloneInv' /\ MineInv'
  BY <1>1, <1>2, <1>3, <1>5, <1>7 DEF ListInv, SeenInv, CurrentInv, AloneInv, MineInv
<1> QED
  BY <1>4, <1>6, <1>8, <1>9, <1>10 DEF IInv

-----------------------------------------------------------------------------
(* The interrupts and the flash controller. *)

\* A transaction that is handed over in one step comes first in the list.
LEMMA PushedFirst ==
  ASSUME TypeInv, ListInv, NEW t \in Transactions, status[t] # "BUSY", Push(t)
  PROVE  /\ ListInv' /\ ~In(Chain, t)
         /\ Chain' = <<t>> \o Chain
         /\ Len(Chain') = Len(Chain) + 1 /\ Len(Chain) \in Nat
         /\ \A i \in 1..Len(Chain') : Chain'[i] = IF i = 1 THEN t ELSE Chain[i - 1]
         /\ \A u : In(Chain', u) <=> u = t \/ In(Chain, u)
<1>1. /\ status' = [status EXCEPT ![t] = "BUSY"] /\ head' = t
      /\ next' = [next EXCEPT ![t] = head]
  BY DEF Push
<1>2. ~In(Chain, t)
  BY DEF ListInv, In
<1>3. IsList(head, next', Chain)
  BY <1>1, <1>2, LinkOutside DEF ListInv, TypeInv
<1>4. next'[t] = head
  BY <1>1 DEF TypeInv
<1> DEFINE d == <<t>> \o Chain
<1>5. /\ IsList(t, next', d)
      /\ Len(d) = Len(Chain) + 1
      /\ \A i \in 1..Len(Chain) + 1 : d[i] = IF i = 1 THEN t ELSE Chain[i - 1]
      /\ \A u : In(d, u) <=> u = t \/ In(Chain, u)
  BY <1>2, <1>3, <1>4, PushFront
<1>6. Len(Chain) \in Nat /\ \A i \in 1..Len(Chain) : Chain[i] \in Transactions
  BY ListFacts1 DEF ListInv
<1>7. Chain' = d
  <2>1. ChainOf(t, next') = d
    <3> HIDE DEF d
    <3> QED
      BY <1>5, ChainIs, Zenon
  <2> QED
    BY <2>1, <1>1 DEF Chain
<1>8. ListInv'
  <2>1. \A i \in 1..Len(d) : status'[d[i]] = "BUSY"
    <3> HIDE DEF d
    <3> TAKE i \in 1..Len(d)
    <3>1. i = 1 \/ (i - 1 \in 1..Len(Chain) /\ d[i] = Chain[i - 1])
      BY <1>5, <1>6
    <3>2. d[1] = t /\ status'[t] = "BUSY"
      BY <1>1, <1>5, <1>6 DEF TypeInv
    <3>3. \A k \in 1..Len(Chain) : status'[Chain[k]] = "BUSY"
      BY <1>1, <1>6 DEF TypeInv, ListInv
    <3> QED
      BY <3>1, <3>2, <3>3
  <2> HIDE DEF d
  <2> QED
    BY <2>1, <1>1, <1>5, <1>7 DEF ListInv
<1> HIDE DEF d
<1>9. Len(Chain') = Len(Chain) + 1 /\ Chain' = <<t>> \o Chain
  BY <1>5, <1>7 DEF d
<1> QED
  BY <1>2, <1>5, <1>6, <1>7, <1>8, <1>9

\* The urgent interrupt hands over one that stalls, when the other bank rests.
LEMMA UrgentIsInvariant ==
  ASSUME IInv, TwoBanks, NEW t \in UrgentOnes, UrgentEnqueue(t)
  PROVE  IInv'
<1>0. t \in Transactions /\ t \notin Elsewhere /\ t \notin Synced
  BY EepromAssumption DEF TwoBanks, Elsewhere
<1>1. /\ Push(t) /\ status[t] # "BUSY" /\ times[t] < MaxTimes
      /\ \A u \in Elsewhere : status[u] # "BUSY"
      /\ UNCHANGED <<state, current, done, locked, hw, mem, irq, seen, tpc, mine, loaded,
                     stops, refused>>
  BY DEF UrgentEnqueue, MayEnqueue, TwoBanks, Elsewhere, device, handler, counts, thread
<1>2. /\ status' = [status EXCEPT ![t] = "BUSY"] /\ next' = [next EXCEPT ![t] = head]
      /\ head' = t /\ times' = [times EXCEPT ![t] = @ + 1] /\ pend' = TRUE
  BY <1>1 DEF Push
<1>3. TypeInv /\ ListInv /\ SeenInv /\ MineInv /\ CurrentInv /\ AloneInv /\ OwnerInv
  BY DEF IInv
<1>4. /\ ListInv' /\ ~In(Chain, t)
      /\ Len(Chain') = Len(Chain) + 1 /\ Len(Chain) \in Nat
      /\ \A i \in 1..Len(Chain') : Chain'[i] = IF i = 1 THEN t ELSE Chain[i - 1]
      /\ \A u : In(Chain', u) <=> u = t \/ In(Chain, u)
  BY <1>0, <1>1, <1>3, PushedFirst
<1>5. head \in Transactions \union {Null}
  BY <1>3, ListFacts1 DEF ListInv
<1>6. TypeInv'
  BY <1>0, <1>1, <1>2, <1>3, <1>5 DEF TypeInv
<1>7. FlagInv' /\ StoredInv' /\ MemInv'
  BY <1>1, <1>2 DEF IInv, FlagInv, StoredInv, MemInv
<1>8. tpc = "link" => mine # t /\ mine \in Transactions
  BY <1>1, <1>3 DEF MineInv
<1>9. CountInv'
  <2>1. CountInv /\ MaxTimes \in Nat
    BY EepromAssumption DEF IInv
  <2>2. times[t] + 1 \in 0..MaxTimes
    BY <2>1, <1>0, <1>1 DEF CountInv
  <2>3. tpc = "link" => times'[mine] = times[mine]
    BY <2>1, <1>2, <1>8 DEF CountInv
  <2>4. times' \in [Transactions -> 0..MaxTimes]
    BY <2>1, <2>2, <1>0, <1>2 DEF CountInv
  <2> QED
    BY <2>1, <2>3, <2>4, <1>1 DEF CountInv
<1>10. \A u \in Transactions : u # t => status'[u] = status[u] /\ next'[u] = next[u]
  BY <1>2, <1>3 DEF TypeInv
<1>11. SeenInv'
  <2>1. irq = "swap" => Chain' # <<>> /\ seen = Chain'[Len(Chain')]
    <3> HAVE irq = "swap"
    <3>1. Chain # <<>> /\ seen = Chain[Len(Chain)] /\ Len(Chain) > 0
      BY <1>3, ListFacts1 DEF SeenInv, ListInv
    <3>2. Chain'[Len(Chain')] = Chain[Len(Chain)] /\ Len(Chain') > 0
      BY <3>1, <1>4
    <3>3. Chain' # <<>>
      BY <1>4, ListFacts1 DEF ListInv
    <3> QED
      BY <3>1, <3>2, <3>3
  <2>2. irq = "begin" => seen \in Transactions /\ seen # t
    BY <1>1, <1>3, EepromAssumption DEF SeenInv, TypeInv
  <2>3. irq = "begin" => status'[seen] = "BUSY" /\ ~In(Chain', seen)
    BY <2>2, <1>3, <1>4, <1>10 DEF SeenInv
  <2>4. irq = "call" /\ seen \in Synced => status'[seen] # "BUSY" /\ tpc # "link"
    <3>1. seen \in Synced => seen # t /\ seen \in Transactions
      BY <1>0, EepromAssumption
    <3> QED
      BY <3>1, <1>3, <1>10 DEF SeenInv
  <2> QED
    BY <2>1, <2>3, <2>4, <1>1, <1>3 DEF SeenInv
<1>12. MineInv'
  BY <1>1, <1>3, <1>4, <1>8, <1>10 DEF MineInv
<1>13. CurrentInv'
  <2>1. current # Null => current # t /\ current \in Transactions
    BY <1>1, <1>3 DEF CurrentInv, TypeInv
  <2> QED
    BY <2>1, <1>1, <1>3, <1>4, <1>10 DEF CurrentInv
<1>14. AloneInv'
  <2>1. \A u \in Elsewhere : status'[u] # "BUSY"
    BY <1>0, <1>1, <1>10 DEF Elsewhere
  <2> QED
    BY <2>1 DEF AloneInv
<1>15. OwnerInv'
  BY <1>1, <1>3 DEF OwnerInv
<1> QED
  BY <1>4, <1>6, <1>7, <1>9, <1>11, <1>12, <1>13, <1>14, <1>15 DEF IInv

\* A word is written, or an error is flagged.
LEMMA WordIsInvariant ==
  ASSUME IInv, WordDone
  PROVE  IInv'
<1>1. /\ hw = "busy" /\ pend' = TRUE
      /\ UNCHANGED <<state, head, next, status, current, done, locked, irq, seen, tpc, mine,
                     loaded, stops, refused, times>>
  BY DEF WordDone, list, handler, thread, counts
<1>2. /\ TypeInv /\ ListInv /\ SeenInv /\ MineInv /\ CurrentInv /\ AloneInv /\ OwnerInv
      /\ StoredInv /\ MemInv
  BY DEF IInv
<1>3. hw' \in {"eop", "error"}
  BY DEF WordDone
<1>4. Chain' = Chain
  BY <1>1 DEF Chain
<1>5. TypeInv' /\ CountInv' /\ OwnerInv' /\ FlagInv'
  BY <1>1, <1>3 DEF IInv, TypeInv, CountInv, OwnerInv, FlagInv
<1>6. ListInv' /\ SeenInv' /\ CurrentInv' /\ AloneInv' /\ MineInv'
  BY <1>1, <1>2, <1>3, <1>4 DEF ListInv, SeenInv, CurrentInv, AloneInv, MineInv
<1>7. /\ current \in Transactions /\ done \in 1..Len(Area[current])
      /\ Area[current] \in Seq(Word) /\ Data[current] \in Range(Data)
      /\ Area[current][done] \in Word
  <2>1. current \in Transactions /\ done \in 1..Len(Area[current])
    BY <1>1, <1>2 DEF CurrentInv, StoredInv, TypeInv
  <2>2. Area[current] \in Seq(Word) /\ DOMAIN Data = Transactions
    BY <2>1, EepromAssumption
  <2> QED
    BY <2>1, <2>2, ElementOfSeq DEF Range
<1>8. CASE UNCHANGED mem /\ hw' = "error"
  <2>1. StoredInv' /\ MemInv'
    BY <1>1, <1>2, <1>8 DEF StoredInv, MemInv
  <2> QED
    BY <2>1, <1>5, <1>6 DEF IInv
<1>9. CASE hw' = "eop" /\ mem' = [mem EXCEPT ![Area[current][done]] = Data[current]]
  <2>1. MemInv'
    BY <1>2, <1>7, <1>9 DEF MemInv
  <2>2. \A j \in 1..done : mem'[Area[current][j]] = Data[current]
    <3> TAKE j \in 1..done
    <3>1. j \in 1..Len(Area[current])
      BY <1>7
    <3>2. Area[current][j] \in Word
      BY <3>1, <1>7, ElementOfSeq
    <3>3. j < done => mem[Area[current][j]] = Data[current]
      BY <1>2, <1>7, EepromAssumption DEF StoredInv
    <3>4. j < done \/ j = done
      BY <1>7
    <3> QED
      BY <3>2, <3>3, <3>4, <1>2, <1>9 DEF MemInv
  <2>3. StoredInv'
    BY <2>2, <1>1, <1>2 DEF StoredInv
  <2> QED
    BY <2>1, <2>3, <1>5, <1>6 DEF IInv
<1> QED
  BY <1>8, <1>9 DEF WordDone

-----------------------------------------------------------------------------
(* FLASH_IRQHandler. *)

\* The next word to write is the first of those that differ.
LEMMA NextWord ==
  ASSUME NEW t \in Transactions, NEW k \in Nat, ToWrite(t, k) # {}
  PROVE  /\ Min(ToWrite(t, k)) \in ToWrite(t, k)
         /\ \A j \in ToWrite(t, k) : Min(ToWrite(t, k)) <= j
<1>1. ToWrite(t, k) \in SUBSET Nat
  BY EepromAssumption DEF ToWrite
<1>2. \E i \in ToWrite(t, k) : \A j \in ToWrite(t, k) : i <= j
  BY <1>1, LeastNat
<1> QED
  BY <1>2 DEF Min

\* The interrupt is entered with nothing to conclude.
LEMMA EnterIsInvariant ==
  ASSUME IInv, EnterDrain
  PROVE  IInv'
<1>1. /\ irq = "idle" /\ irq' = "drain" /\ pend' = FALSE /\ ~Stalled
      /\ current = Null \/ hw \notin {"eop", "error"}
      /\ UNCHANGED <<state, head, next, status, current, done, locked, hw, mem, seen, tpc,
                     mine, loaded, stops, refused, times>>
  BY DEF EnterDrain, InIrq, list, device, thread, counts
<1>2. /\ TypeInv /\ ListInv /\ SeenInv /\ MineInv /\ CurrentInv /\ AloneInv /\ OwnerInv
  BY DEF IInv
<1>3. Chain' = Chain
  BY <1>1 DEF Chain
<1>4. current # Null => current \notin Stalling
  BY <1>1, <1>2 DEF CurrentInv, Stalled, TypeInv
<1>5. TypeInv' /\ CountInv' /\ OwnerInv' /\ FlagInv' /\ StoredInv' /\ MemInv'
  BY <1>1 DEF IInv, TypeInv, CountInv, OwnerInv, FlagInv, StoredInv, MemInv
<1>6. ListInv' /\ SeenInv' /\ CurrentInv' /\ AloneInv' /\ MineInv'
  BY <1>1, <1>2, <1>3, <1>4 DEF ListInv, SeenInv, CurrentInv, AloneInv, MineInv
<1> QED
  BY <1>5, <1>6 DEF IInv

\* A transaction that was taken is reported: nobody held it but the interrupt.
LEMMA ReportIsInvariant ==
  ASSUME IInv, TwoBanks,
         NEW t \in Transactions, NEW result \in {"SUCCESS", "FAIL"},
         status[t] = "BUSY", ~In(Chain, t), tpc = "link" => mine # t,
         state = "BUSY" => tpc = "spin",
         current = Null \/ current = t,
         current' = Null, done' \in Nat, hw' = "idle",
         status' = [status EXCEPT ![t] = result],
         irq' = "call", seen' = t,
         locked' \in BOOLEAN, pend' \in BOOLEAN,
         UNCHANGED <<head, next, state, mem, tpc, mine, loaded, times>>,
         refused' \in 0..MaxRefused, stops' = refused'
  PROVE  IInv'
<1>1. /\ TypeInv /\ ListInv /\ SeenInv /\ MineInv /\ CurrentInv /\ AloneInv /\ OwnerInv
      /\ CountInv /\ MemInv
  BY DEF IInv
<1>2. Chain' = Chain
  BY DEF Chain
<1>3. /\ status'[t] = result /\ result # "BUSY"
      /\ \A u \in Transactions : u # t => status'[u] = status[u]
  BY <1>1 DEF TypeInv
<1>4. \A i \in 1..Len(Chain) : Chain[i] \in Transactions /\ Chain[i] # t
  BY <1>1, ListFacts1 DEF ListInv, In
<1>5. TypeInv' /\ FlagInv' /\ MemInv' /\ OwnerInv'
  <2>1. TypeInv'
    BY <1>1 DEF TypeInv
  <2>2. FlagInv'
    BY DEF FlagInv
  <2>3. MemInv'
    BY <1>1 DEF MemInv
  <2>4. OwnerInv'
    <3>1. state = "BUSY" <=> tpc \in {"spin", "owner"}
      BY <1>1 DEF OwnerInv
    <3>2. tpc' # "owner" /\ irq' \notin {"swap", "begin"}
      BY <3>1
    <3> QED
      BY <3>1, <3>2 DEF OwnerInv
  <2> QED
    BY <2>1, <2>2, <2>3, <2>4
<1>6. CountInv'
  <2>1. refused' \in Nat
    BY EepromAssumption
  <2>2. stops' = refused' + (IF current' = Null THEN 0 ELSE 1)
    <3>1. (IF current' = Null THEN 0 ELSE 1) = 0
      OBVIOUS
    <3>2. \A x \in Nat : x = x + 0
      OBVIOUS
    <3>3. stops' = refused' + 0
      BY <2>1, <3>2, Zenon
    <3> QED
      BY <3>1, <3>3, Zenon
  <2>3. times \in [Transactions -> 0..MaxTimes] /\ (tpc = "link" => times[mine] < MaxTimes)
    BY <1>1 DEF CountInv
  <2> QED
    BY <2>2, <2>3 DEF CountInv
<1>7. ListInv'
  BY <1>1, <1>2, <1>3, <1>4 DEF ListInv
<1>8. t \in Synced => tpc # "link" /\ t \in Elsewhere
  BY <1>1, EepromAssumption DEF AloneInv, TwoBanks, Elsewhere
<1>9a. SeenInv'
  BY <1>3, <1>8, EepromAssumption DEF SeenInv
<1>9. MineInv'
  <2>1. tpc = "link" => mine \in Transactions /\ mine # t
    BY <1>1 DEF MineInv
  <2> QED
    BY <2>1, <1>1, <1>2, <1>3, EepromAssumption DEF MineInv
<1>10. CurrentInv' /\ StoredInv'
  BY DEF CurrentInv, StoredInv
<1>11. AloneInv'
  <2>1. \A u \in Elsewhere : u \in Transactions /\ u # Null
    BY EepromAssumption DEF Elsewhere
  <2>2. \A u \in Elsewhere : status'[u] = "BUSY" =>
           /\ u # t /\ status[u] = "BUSY"
           /\ t \notin Elsewhere
    BY <1>1, <1>3, <2>1 DEF AloneInv
  <2>3. \A u \in Elsewhere : status'[u] = "BUSY" => ~(irq' = "call" /\ seen' \in Synced)
    BY <2>2, <1>8
  <2>4. \A u \in Elsewhere : current' # u /\ irq' # "begin"
    BY <2>1
  <2>5. \A u \in Elsewhere : status'[u] = "BUSY" =>
           /\ \A v \in Elsewhere : status'[v] = "BUSY" => v = u
           /\ tpc' = "link" => mine' = u
           /\ \A i \in 1..Len(Chain') : Chain'[i] = u => i = 1
    BY <2>2, <1>1, <1>2 DEF AloneInv
  <2> QED
    BY <2>3, <2>4, <2>5 DEF AloneInv
<1> QED
  BY <1>5, <1>6, <1>7, <1>9a, <1>9, <1>10, <1>11 DEF IInv

\* The next word of a transaction that was taken is written.
LEMMA WriteIsInvariant ==
  ASSUME IInv, TwoBanks,
         NEW t \in Transactions, NEW k \in Nat, ToWrite(t, k) # {},
         \A j \in 1..Len(Area[t]) : j <= k => mem[Area[t][j]] = Data[t],
         Control[t] # "READ",
         status[t] = "BUSY", ~In(Chain, t), tpc = "link" => mine # t,
         tpc # "owner",
         t \in Elsewhere => Chain = <<>>,
         current = Null \/ current = t,
         WriteWord(t, k),
         locked' = FALSE, pend' \in BOOLEAN, stops' = refused + 1,
         UNCHANGED <<head, next, state, status, mem, tpc, mine, loaded, refused, times>>
  PROVE  IInv'
<1>1. /\ TypeInv /\ ListInv /\ SeenInv /\ MineInv /\ CurrentInv /\ AloneInv /\ OwnerInv
      /\ CountInv /\ MemInv
  BY DEF IInv
<1>2. Chain' = Chain
  BY DEF Chain
<1>3. /\ done' = Min(ToWrite(t, k)) /\ hw' = "busy" /\ current' = t
      /\ irq' = "idle" /\ seen' = Null
  BY DEF WriteWord
<1>4. /\ done' \in k + 1 .. Len(Area[t]) /\ Len(Area[t]) \in Nat
      /\ \A j \in k + 1 .. Len(Area[t]) : j < done' => mem[Area[t][j]] = Data[t]
  <2>1. done' \in ToWrite(t, k) /\ \A j \in ToWrite(t, k) : done' <= j
    BY <1>3, NextWord
  <2>2. Len(Area[t]) \in Nat
    BY EepromAssumption
  <2> QED
    BY <2>1, <2>2 DEF ToWrite
<1>5. t # Null
  BY EepromAssumption
<1>6. TypeInv'
  BY <1>1, <1>3, <1>4 DEF TypeInv
<1>7. FlagInv'
  BY DEF FlagInv
<1>8. CountInv' /\ MemInv'
  BY <1>1, <1>3, <1>5 DEF CountInv, MemInv
<1>9. ListInv' /\ SeenInv' /\ OwnerInv'
  BY <1>1, <1>2, <1>3 DEF ListInv, SeenInv, OwnerInv
<1>10. MineInv'
  BY <1>1, <1>2, <1>3, EepromAssumption DEF MineInv
<1>11. CurrentInv'
  BY <1>2, <1>3, <1>5 DEF CurrentInv
<1>12. StoredInv'
  <2>1. done' \in 1..Len(Area[t])
    BY <1>4
  <2>2. \A j \in 1..done' : j < done' => mem[Area[t][j]] = Data[t]
    BY <1>4
  <2> QED
    BY <2>1, <2>2, <1>3 DEF StoredInv
<1>13. AloneInv'
  <2>1. \A u \in Elsewhere : current' = u => Chain' = <<>>
    BY <1>2, <1>3
  <2> QED
    BY <2>1, <1>1, <1>2, <1>3 DEF AloneInv
<1> QED
  BY <1>6, <1>7, <1>8, <1>9, <1>10, <1>11, <1>12, <1>13 DEF IInv

\* It is entered after a word: the next one, or the report.
LEMMA WordsAreInvariant ==
  ASSUME IInv, TwoBanks, EnterWord \/ EnterError
  PROVE  IInv'
<1>1. /\ irq = "idle" /\ current # Null /\ hw \in {"eop", "error"} /\ pend' = FALSE
      /\ UNCHANGED <<state, head, next, mem, tpc, mine, loaded, refused, times>>
  BY DEF EnterWord, EnterError, InIrq, list, thread
<1>2. /\ TypeInv /\ SeenInv /\ MineInv /\ CurrentInv /\ AloneInv /\ OwnerInv
      /\ CountInv /\ StoredInv
  BY DEF IInv
<1>3. /\ current \in Transactions /\ status[current] = "BUSY" /\ ~In(Chain, current)
      /\ tpc = "link" => mine # current
      /\ tpc # "owner"
      /\ state = "BUSY" => tpc = "spin"
      /\ current \in Elsewhere => Chain = <<>>
      /\ locked = FALSE
  BY <1>1, <1>2 DEF TypeInv, CurrentInv, MineInv, OwnerInv, AloneInv
<1>4. /\ refused \in 0..MaxRefused /\ refused \in Nat /\ stops = refused + 1
  BY <1>1, <1>2, EepromAssumption DEF CountInv
<1>5. \A result \in {"SUCCESS", "FAIL"} :
         Finish(current, result) /\ locked' = TRUE /\ stops' = stops - 1 => IInv'
  <2> SUFFICES ASSUME NEW result \in {"SUCCESS", "FAIL"}, Finish(current, result),
                      locked' = TRUE, stops' = stops - 1
               PROVE  IInv'
    OBVIOUS
  <2>1. /\ current' = Null /\ done' = 0 /\ hw' = "idle" /\ irq' = "call" /\ seen' = current
        /\ status' = [status EXCEPT ![current] = result]
    BY DEF Finish
  <2>2. stops' = refused'
    BY <1>1, <1>4
  <2>3. locked' \in BOOLEAN /\ pend' \in BOOLEAN
    BY <1>1
  <2>4. refused' \in 0..MaxRefused /\ done' \in Nat
    BY <1>1, <1>4, <2>1
  <2> QED
    BY <1>1, <1>3, <2>1, <2>2, <2>3, <2>4, ReportIsInvariant
<1>6. CASE EnterError
  BY <1>5, <1>6 DEF EnterError
<1>7. CASE EnterWord /\ ToWrite(current, done) = {}
  BY <1>5, <1>7 DEF EnterWord
<1>8. CASE EnterWord /\ ToWrite(current, done) # {}
  <2>1. WriteWord(current, done) /\ UNCHANGED <<locked, stops, status>> /\ hw = "eop"
    BY <1>8 DEF EnterWord
  <2>2. done \in Nat /\ done \in 1..Len(Area[current]) /\ Control[current] # "READ"
    BY <1>1, <1>2 DEF StoredInv, TypeInv
  <2>3. \A j \in 1..Len(Area[current]) : j <= done => mem[Area[current][j]] = Data[current]
    BY <2>1, <2>2, <1>1, <1>2 DEF StoredInv
  <2>4. locked' = FALSE /\ pend' \in BOOLEAN
    BY <2>1, <1>1, <1>3
  <2>5. stops' = refused + 1
    BY <2>1, <1>4
  <2> QED
    BY <1>1, <1>3, <1>8, <2>1, <2>2, <2>3, <2>4, <2>5, WriteIsInvariant
<1> QED
  BY <1>6, <1>7, <1>8

\* A transaction that was taken off the list begins, or is reported at once.
LEMMA BeginIsInvariant ==
  ASSUME IInv, TwoBanks, BeginWrite \/ BeginRefused \/ BeginRead
  PROVE  IInv'
<1>1. /\ irq = "begin"
      /\ UNCHANGED <<state, head, next, mem, pend, tpc, mine, loaded, times>>
  BY DEF BeginWrite, BeginRefused, BeginRead, InIrq, list, device, thread
<1>2. /\ TypeInv /\ SeenInv /\ MineInv /\ CurrentInv /\ AloneInv /\ OwnerInv
      /\ CountInv /\ FlagInv
  BY DEF IInv
<1>3. /\ seen \in Transactions /\ status[seen] = "BUSY" /\ ~In(Chain, seen)
      /\ current = Null /\ hw = "idle"
      /\ tpc = "link" => mine # seen
      /\ tpc # "owner" /\ state # "BUSY"
      /\ seen \in Elsewhere => Chain = <<>>
  BY <1>1, <1>2 DEF TypeInv, SeenInv, CurrentInv, MineInv, OwnerInv, AloneInv
<1>4. refused \in 0..MaxRefused /\ refused \in Nat /\ stops = refused
  BY <1>2, <1>3, EepromAssumption DEF CountInv
<1>5. locked \in BOOLEAN /\ pend' \in BOOLEAN
  BY <1>1, <1>2 DEF FlagInv
<1>6. CASE BeginWrite /\ ToWrite(seen, 0) = {}
  <2>1. /\ current' = Null /\ done' = 0 /\ hw' = "idle" /\ irq' = "call" /\ seen' = seen
        /\ status' = [status EXCEPT ![seen] = "SUCCESS"]
        /\ locked' = TRUE /\ UNCHANGED <<stops, refused>>
    BY <1>6 DEF BeginWrite, Finish
  <2>2. locked' \in BOOLEAN /\ done' \in Nat
    BY <2>1
  <2>3. stops' = refused' /\ refused' \in 0..MaxRefused
    BY <2>1, <1>4
  <2> QED
    BY <1>1, <1>3, <1>5, <2>1, <2>2, <2>3, ReportIsInvariant
<1>7. CASE BeginWrite /\ ToWrite(seen, 0) # {}
  <2>1. /\ WriteWord(seen, 0) /\ locked' = FALSE /\ stops' = stops + 1
        /\ UNCHANGED <<status, refused>> /\ Control[seen] # "READ"
    BY <1>7 DEF BeginWrite
  <2>2. \A j \in 1..Len(Area[seen]) : j <= 0 => mem[Area[seen][j]] = Data[seen]
    OBVIOUS
  <2>3. stops' = refused + 1 /\ 0 \in Nat
    BY <2>1, <1>4
  <2> QED
    BY <1>1, <1>3, <1>5, <1>7, <2>1, <2>2, <2>3, WriteIsInvariant
<1>8. CASE BeginRefused \/ BeginRead
  <2>1. /\ UNCHANGED <<current, done, hw, locked, seen>> /\ irq' = "call"
    BY <1>8 DEF BeginRefused, BeginRead, device
  <2>2. \E result \in {"SUCCESS", "FAIL"} : status' = [status EXCEPT ![seen] = result]
    BY <1>8 DEF BeginRefused, BeginRead
  <2>3. refused' \in 0..MaxRefused /\ stops' = refused'
    <3>1. CASE BeginRefused
      BY <3>1, <1>4, EepromAssumption DEF BeginRefused
    <3>2. CASE BeginRead
      BY <3>2, <1>4 DEF BeginRead, counts
    <3> QED
      BY <1>8, <3>1, <3>2
  <2>4. locked' \in BOOLEAN
    BY <2>1, <1>5
  <2>5. done' \in Nat
    BY <2>1, <1>2 DEF TypeInv
  <2> QED
    BY <1>1, <1>3, <1>5, <2>1, <2>2, <2>3, <2>4, <2>5, ReportIsInvariant
<1> QED
  BY <1>6, <1>7, <1>8

\* The callback returns, or hands its transaction over again.
LEMMA CallIsInvariant ==
  ASSUME IInv, TwoBanks, Call
  PROVE  IInv'
<1>1. /\ irq = "call" /\ irq' = "drain" /\ seen' = Null
      /\ UNCHANGED <<state, current, done, locked, hw, mem, tpc, mine, loaded, stops, refused>>
  BY DEF Call, InIrq, device, thread, counts
<1>2. /\ TypeInv /\ ListInv /\ SeenInv /\ MineInv /\ CurrentInv /\ AloneInv /\ OwnerInv
      /\ CountInv /\ FlagInv
  BY DEF IInv
<1>3. current = Null /\ seen \in Transactions
  BY <1>1, <1>2 DEF CurrentInv, SeenInv, TypeInv
<1>4. OwnerInv' /\ CurrentInv' /\ StoredInv' /\ MemInv'
  BY <1>1, <1>2, <1>3 DEF IInv, OwnerInv, CurrentInv, StoredInv, MemInv
<1>5. CASE UNCHANGED <<list, status, times, pend>>
  <2>1. UNCHANGED <<head, next, status, times, pend>> /\ Chain' = Chain
    BY <1>5 DEF list, Chain
  <2>2. TypeInv' /\ CountInv'
    BY <2>1, <1>1, <1>2 DEF TypeInv, CountInv
  <2>3. FlagInv'
    BY <2>1, <1>1, <1>2 DEF FlagInv
  <2>4. ListInv' /\ SeenInv'
    BY <2>1, <1>1, <1>2 DEF ListInv, SeenInv
  <2>5. MineInv'
    BY <2>1, <1>1, <1>2, EepromAssumption DEF MineInv
  <2>6. AloneInv'
    BY <2>1, <1>1, <1>2 DEF AloneInv
  <2> QED
    BY <2>2, <2>3, <2>4, <2>5, <2>6, <1>4 DEF IInv
<1>6. CASE seen \in Synced /\ times[seen] < MaxTimes /\ Push(seen)
  <2>1. status[seen] # "BUSY" /\ tpc # "link" /\ seen \in Elsewhere
    BY <1>1, <1>2, <1>3, <1>6 DEF SeenInv, TwoBanks, Elsewhere
  <2>2. /\ ListInv' /\ ~In(Chain, seen)
        /\ Len(Chain') = Len(Chain) + 1 /\ Len(Chain) \in Nat
        /\ \A i \in 1..Len(Chain') : Chain'[i] = IF i = 1 THEN seen ELSE Chain[i - 1]
        /\ \A u : In(Chain', u) <=> u = seen \/ In(Chain, u)
    BY <1>2, <1>3, <1>6, <2>1, PushedFirst
  <2>3. /\ status' = [status EXCEPT ![seen] = "BUSY"] /\ next' = [next EXCEPT ![seen] = head]
        /\ head' = seen /\ times' = [times EXCEPT ![seen] = @ + 1] /\ pend' = TRUE
    BY <1>6 DEF Push
  <2>4. TypeInv'
    <3>1. head \in Transactions \union {Null}
      BY <1>2, ListFacts1 DEF ListInv
    <3> QED
      BY <3>1, <2>3, <1>1, <1>2, <1>3 DEF TypeInv
  <2>5. FlagInv'
    BY <2>3, <1>1, <1>2 DEF FlagInv
  <2>6. CountInv'
    <3>1. times[seen] + 1 \in 0..MaxTimes
      BY <1>2, <1>3, <1>6, EepromAssumption DEF CountInv
    <3>2. times' \in [Transactions -> 0..MaxTimes]
      BY <3>1, <2>3, <1>2, <1>3 DEF CountInv
    <3> QED
      BY <3>2, <2>1, <1>1, <1>2 DEF CountInv
  <2>7. SeenInv' /\ MineInv'
    BY <2>1, <1>1 DEF SeenInv, MineInv
  <2>8. AloneInv'
    <3>1. \A u \in Elsewhere : status'[u] = "BUSY" => u = seen
      BY <2>3, <1>1, <1>2, <1>6 DEF AloneInv, TypeInv, Elsewhere
    <3>2. \A i \in 1..Len(Chain') : Chain'[i] = seen => i = 1
      BY <2>2 DEF In
    <3>3. \A u \in Elsewhere : u # Null
      BY EepromAssumption DEF Elsewhere
    <3> QED
      BY <3>1, <3>2, <3>3, <2>1, <1>1, <1>3 DEF AloneInv
  <2> QED
    BY <2>2, <2>4, <2>5, <2>6, <2>7, <2>8, <1>4 DEF IInv
<1> QED
  BY <1>5, <1>6 DEF Call

\* There is nothing to take, or the head is all there is.
LEMMA DrainIsInvariant ==
  ASSUME IInv, DrainNone \/ DrainHead
  PROVE  IInv'
<1>1. /\ irq = "drain" /\ irq' \in {"idle", "swap"}
      /\ UNCHANGED <<state, head, next, status, current, done, locked, hw, mem, pend, tpc, mine,
                     loaded, stops, refused, times>>
  BY DEF DrainNone, DrainHead, InIrq, list, device, thread, counts
<1>2. /\ TypeInv /\ ListInv /\ SeenInv /\ MineInv /\ CurrentInv /\ AloneInv /\ OwnerInv
      /\ CountInv /\ FlagInv
  BY DEF IInv
<1>3. Chain' = Chain /\ seen = Null
  BY <1>1, <1>2 DEF Chain, SeenInv
<1>4. CountInv' /\ StoredInv' /\ MemInv' /\ ListInv'
  BY <1>1, <1>2, <1>3 DEF IInv, CountInv, StoredInv, MemInv, ListInv
<1>5. FlagInv'
  BY <1>1, <1>2 DEF FlagInv
<1>6. AloneInv'
  BY <1>1, <1>2, <1>3 DEF AloneInv
<1>7. CASE DrainNone
  <2>1. irq' = "idle" /\ seen' = Null
    BY <1>3, <1>7 DEF DrainNone
  <2>2. TypeInv' /\ SeenInv' /\ MineInv'
    BY <2>1, <1>1, <1>2, <1>3 DEF TypeInv, SeenInv, MineInv
  <2>3. CurrentInv' /\ OwnerInv'
    BY <2>1, <1>1, <1>2, <1>3 DEF CurrentInv, OwnerInv
  <2> QED
    BY <2>2, <2>3, <1>4, <1>5, <1>6 DEF IInv
<1>8. CASE DrainHead
  <2>1. irq' = "swap" /\ seen' = head /\ state = "READY" /\ Len(Chain) = 1
    BY <1>8 DEF DrainHead
  <2>2. Chain # <<>> /\ head = Chain[1] /\ head \in Transactions
    BY <2>1, <1>2, ListFacts1 DEF ListInv
  <2>3. current = Null
    <3> SUFFICES ASSUME current # Null PROVE FALSE
      OBVIOUS
    <3>1. current \in Elsewhere /\ status[current] = "BUSY"
      BY <1>1, <1>2 DEF CurrentInv, TypeInv, Elsewhere
    <3> QED
      BY <3>1, <2>2, <1>2 DEF AloneInv
  <2>4. TypeInv' /\ SeenInv'
    BY <2>1, <2>2, <1>1, <1>2, <1>3, EepromAssumption DEF TypeInv, SeenInv
  <2>5. MineInv'
    <3>1. In(Chain, head)
      BY <2>1, <2>2 DEF In
    <3> QED
      BY <3>1, <2>1, <1>1, <1>2, <1>3 DEF MineInv
  <2>6. CurrentInv' /\ OwnerInv'
    BY <2>1, <2>3, <1>1, <1>2, <1>3 DEF CurrentInv, OwnerInv
  <2> QED
    BY <2>4, <2>5, <2>6, <1>4, <1>5, <1>6 DEF IInv
<1> QED
  BY <1>7, <1>8

\* The oldest is cut off the list.
LEMMA CutIsInvariant ==
  ASSUME IInv, DrainCut
  PROVE  IInv'
<1>1. /\ irq = "drain" /\ irq' = "begin" /\ state = "READY" /\ Len(Chain) > 1
      /\ seen' = Last(Chain)
      /\ next' = [next EXCEPT ![Chain[Len(Chain) - 1]] = Null]
      /\ UNCHANGED <<state, head, status, current, done, locked, hw, mem, pend, tpc, mine,
                     loaded, stops, refused, times>>
  BY DEF DrainCut, InIrq, device, thread, counts
<1>2. /\ TypeInv /\ ListInv /\ SeenInv /\ MineInv /\ CurrentInv /\ AloneInv /\ OwnerInv
      /\ CountInv /\ FlagInv
  BY DEF IInv
<1>3. /\ IsList(head, next', Front(Chain))
      /\ Len(Front(Chain)) = Len(Chain) - 1
      /\ \A i \in 1..Len(Chain) - 1 : Front(Chain)[i] = Chain[i]
      /\ Last(Chain) = Chain[Len(Chain)] /\ Last(Chain) \in Transactions
      /\ \A u : In(Front(Chain), u) <=> In(Chain, u) /\ u # Last(Chain)
  BY <1>1, <1>2, CutLast DEF ListInv, TypeInv
<1>4. Chain' = Front(Chain)
  <2>1. ChainOf(head, next') = Front(Chain)
    BY <1>3, ChainIs, Zenon
  <2> QED
    BY <1>1, <2>1 DEF Chain
<1>5. /\ Len(Chain) \in Nat /\ Chain # <<>>
      /\ \A i \in 1..Len(Chain) : Chain[i] \in Transactions
  BY <1>1, <1>2, ListFacts1 DEF ListInv
<1>6. /\ status[seen'] = "BUSY" /\ In(Chain, seen') /\ ~In(Chain', seen')
      /\ seen' \in Transactions
  <2>1. Len(Chain) \in 1..Len(Chain) /\ seen' = Chain[Len(Chain)]
    BY <1>1, <1>3, <1>5
  <2>2. status[seen'] = "BUSY" /\ In(Chain, seen')
    BY <1>2, <2>1 DEF ListInv, In
  <2> QED
    BY <1>1, <1>3, <1>4, <2>2, Zenon
<1>7. current = Null
  <2> SUFFICES ASSUME current # Null PROVE FALSE
    OBVIOUS
  <2>1. current \in Elsewhere /\ status[current] = "BUSY"
    BY <1>1, <1>2 DEF CurrentInv, TypeInv, Elsewhere
  <2> QED
    BY <2>1, <1>2, <1>5 DEF AloneInv
<1>8. seen' \notin Elsewhere
  BY <1>1, <1>2, <1>3, <1>5, <1>6 DEF AloneInv
<1>9. CountInv' /\ StoredInv' /\ MemInv' /\ OwnerInv'
  BY <1>1, <1>2 DEF IInv, CountInv, StoredInv, MemInv, OwnerInv
<1>10. FlagInv'
  BY <1>1, <1>2 DEF FlagInv
<1>11. TypeInv'
  <2>1. Chain[Len(Chain) - 1] \in Transactions
    BY <1>1, <1>5
  <2> QED
    BY <2>1, <1>1, <1>2, <1>6 DEF TypeInv
<1>12. ListInv'
  <2>1. \A i \in 1..Len(Chain) - 1 : status[Chain[i]] = "BUSY"
    BY <1>2, <1>5 DEF ListInv
  <2> QED
    BY <2>1, <1>1, <1>3, <1>4 DEF ListInv
<1>13. SeenInv'
  BY <1>1, <1>6, EepromAssumption DEF SeenInv
<1>14. MineInv'
  <2>1. tpc = "link" => mine \in Transactions /\ ~In(Chain, mine)
    BY <1>2 DEF MineInv
  <2>2. tpc = "link" => mine # Chain[Len(Chain) - 1] /\ ~In(Chain', mine) /\ mine # seen'
    BY <2>1, <1>1, <1>3, <1>4, <1>5, <1>6 DEF In
  <2>3. tpc = "link" => next'[mine] = next[mine]
    BY <2>1, <2>2, <1>1, <1>2 DEF TypeInv
  <2> QED
    BY <2>2, <2>3, <1>1, <1>2 DEF MineInv
<1>15. CurrentInv'
  BY <1>1, <1>2, <1>7 DEF CurrentInv
<1>16. AloneInv'
  <2>1. \A u \in Elsewhere : u # seen' /\ u # Null
    BY <1>8, EepromAssumption DEF Elsewhere
  <2>2. \A u \in Elsewhere : status[u] = "BUSY" =>
           \A i \in 1..Len(Chain') : Chain'[i] = u => i = 1
    BY <1>2, <1>3, <1>4, <1>5 DEF AloneInv
  <2> QED
    BY <2>1, <2>2, <1>1, <1>2, <1>7 DEF AloneInv
<1> QED
  BY <1>9, <1>10, <1>11, <1>12, <1>13, <1>14, <1>15, <1>16 DEF IInv

\* The only one is swapped out, or something came before it.
LEMMA DrainSwapIsInvariant ==
  ASSUME IInv, DrainSwap
  PROVE  IInv'
<1>1. /\ irq = "swap"
      /\ UNCHANGED <<state, next, status, current, done, locked, hw, mem, pend, tpc, mine,
                     loaded, stops, refused, times>>
  BY DEF DrainSwap, InIrq, device, thread, counts
<1>2. /\ TypeInv /\ ListInv /\ SeenInv /\ MineInv /\ CurrentInv /\ AloneInv /\ OwnerInv
      /\ CountInv /\ FlagInv
  BY DEF IInv
<1>3. /\ Len(Chain) \in Nat \ {0} /\ seen = Chain[Len(Chain)] /\ seen \in Transactions
      /\ current = Null /\ head = Chain[1] /\ seen # Null
  BY <1>1, <1>2, ListFacts1, EepromAssumption DEF ListInv, SeenInv, TypeInv, CurrentInv
<1>4. CountInv' /\ StoredInv' /\ MemInv'
  BY <1>1, <1>2 DEF IInv, CountInv, StoredInv, MemInv
<1>5. FlagInv'
  BY <1>1, <1>2 DEF FlagInv
<1>6. CASE head = seen
  <2>1. head' = Null /\ irq' = "begin" /\ seen' = seen
    BY <1>6 DEF DrainSwap
  <2>2. Chain' = <<>>
    BY <2>1, EmptyList, ChainIs DEF Chain
  <2>3. TypeInv' /\ CurrentInv' /\ OwnerInv'
    BY <2>1, <1>1, <1>2, <1>3 DEF TypeInv, CurrentInv, OwnerInv
  <2>4. ListInv'
    BY <2>1, <2>2, EmptyList DEF ListInv
  <2>5. SeenInv' /\ MineInv' /\ AloneInv'
    <3>1. \A u : ~In(<<>>, u)
      BY DEF In
    <3>2. status[seen] = "BUSY"
      BY <1>2, <1>3 DEF ListInv
    <3>3. SeenInv' /\ MineInv'
      BY <3>1, <3>2, <2>1, <2>2, <1>1, <1>2, <1>3 DEF SeenInv, MineInv
    <3>4. AloneInv'
      BY <2>1, <2>2, <1>1, <1>2 DEF AloneInv
    <3> QED
      BY <3>3, <3>4
  <2> QED
    BY <2>3, <2>4, <2>5, <1>4, <1>5 DEF IInv
<1>7. CASE head # seen
  <2>1. head' = head /\ irq' = "drain" /\ seen' = Null
    BY <1>7 DEF DrainSwap
  <2>2. Chain' = Chain
    BY <2>1, <1>1 DEF Chain
  <2>3. TypeInv' /\ CurrentInv' /\ OwnerInv' /\ ListInv'
    BY <2>1, <2>2, <1>1, <1>2, <1>3 DEF TypeInv, CurrentInv, OwnerInv, ListInv
  <2>4. SeenInv' /\ MineInv' /\ AloneInv'
    BY <2>1, <2>2, <1>1, <1>2, <1>3, EepromAssumption DEF SeenInv, MineInv, AloneInv
  <2> QED
    BY <2>3, <2>4, <1>4, <1>5 DEF IInv
<1> QED
  BY <1>6, <1>7

-----------------------------------------------------------------------------
(* The theorems. *)

\* Nothing is enqueued at first.
LEMMA InitIsInvariant == Init => IInv
<1> SUFFICES ASSUME Init PROVE IInv
  OBVIOUS
<1>1. /\ state = "READY" /\ head = Null /\ next = [t \in Transactions |-> Null]
      /\ status = [t \in Transactions |-> "NONE"]
      /\ current = Null /\ done = 0 /\ hw = "idle" /\ mem = [w \in Word |-> Erased]
      /\ irq = "idle" /\ seen = Null /\ tpc = "run" /\ mine = Null /\ loaded = Null
      /\ stops = 0 /\ refused = 0 /\ times = [t \in Transactions |-> 0]
  BY DEF Init
<1>2. Chain = <<>>
  BY <1>1, EmptyList, ChainIs DEF Chain
<1>3. TypeInv
  BY <1>1 DEF TypeInv, Pcs
<1>4. FlagInv
  BY DEF Init, FlagInv
<1>5. CountInv
  BY <1>1, EepromAssumption DEF CountInv
<1>6. ListInv
  BY <1>1, <1>2, EmptyList DEF ListInv
<1>7. SeenInv /\ MineInv /\ CurrentInv /\ StoredInv /\ MemInv
  BY <1>1 DEF SeenInv, MineInv, CurrentInv, StoredInv, MemInv
<1>8. AloneInv
  BY <1>1 DEF AloneInv, Elsewhere
<1>9. OwnerInv
  BY <1>1 DEF OwnerInv
<1> QED
  BY <1>3, <1>4, <1>5, <1>6, <1>7, <1>8, <1>9 DEF IInv

\* Nothing happens.
LEMMA StutterIsInvariant ==
  ASSUME IInv, UNCHANGED vars
  PROVE  IInv'
<1>1. /\ UNCHANGED <<state, head, next, status, current, done, locked, hw, mem, pend, irq,
                     seen, tpc, mine, loaded, stops, refused, times>>
  BY DEF vars, list, device, handler, thread, counts
<1>2. Chain' = Chain
  BY <1>1 DEF Chain
<1>3. FlagInv'
  BY <1>1 DEF IInv, FlagInv
<1>4. TypeInv' /\ CountInv' /\ ListInv' /\ SeenInv' /\ MineInv'
  BY <1>1, <1>2 DEF IInv, TypeInv, CountInv, ListInv, SeenInv, MineInv
<1>5. CurrentInv' /\ StoredInv' /\ MemInv' /\ OwnerInv'
  BY <1>1, <1>2 DEF IInv, CurrentInv, StoredInv, MemInv, OwnerInv
<1>6. AloneInv'
  BY <1>1, <1>2 DEF IInv, AloneInv
<1> QED
  BY <1>3, <1>4, <1>5, <1>6 DEF IInv

\* Where every word stalls the program or is alone, each step of the thread,
\* the interrupts and the controller keeps every transaction in its one place.
THEOREM Invariance == TwoBanks /\ Spec => []IInv
<1>1. TwoBanks /\ Init => IInv
  BY InitIsInvariant
<1>2. TwoBanks /\ IInv /\ [Next]_vars => IInv'
  <2> SUFFICES ASSUME TwoBanks, IInv, [Next]_vars PROVE IInv'
    OBVIOUS
  <2>1. CASE \E t \in Transactions : EnqueueLink(t)
    BY <2>1, LinkIsInvariant
  <2>2. CASE EnqueueSwap
    BY <2>2, SwapIsInvariant
  <2>3. CASE WaitOver \/ Acquire \/ Unlock \/ Release
    BY <2>3, ThreadIsInvariant
  <2>4. CASE \E t \in UrgentOnes : UrgentEnqueue(t)
    BY <2>4, UrgentIsInvariant
  <2>5. CASE WordDone
    BY <2>5, WordIsInvariant
  <2>6. CASE EnterDrain
    BY <2>6, EnterIsInvariant
  <2>7. CASE EnterWord \/ EnterError
    BY <2>7, WordsAreInvariant
  <2>8. CASE Call
    BY <2>8, CallIsInvariant
  <2>9. CASE DrainNone \/ DrainHead
    BY <2>9, DrainIsInvariant
  <2>10. CASE DrainCut
    BY <2>10, CutIsInvariant
  <2>11. CASE DrainSwap
    BY <2>11, DrainSwapIsInvariant
  <2>12. CASE BeginWrite \/ BeginRefused \/ BeginRead
    BY <2>12, BeginIsInvariant
  <2>13. CASE UNCHANGED vars
    BY <2>13, StutterIsInvariant
  <2> QED
    BY <2>1, <2>2, <2>3, <2>4, <2>5, <2>6, <2>7, <2>8, <2>9, <2>10, <2>11, <2>12, <2>13
       DEF Next, ThreadGoesOn, Handler
<1>3. TwoBanks => []TwoBanks
  <2>1. TwoBanks => TwoBanks'
    BY DEF TwoBanks
  <2>2. TwoBanks /\ [TRUE]_vars => TwoBanks'
    BY <2>1
  <2> QED
    BY <2>1, PTL
<1> QED
  BY <1>1, <1>2, <1>3, PTL DEF Spec

\* The variables of the driver keep their types: stm32l0_eeprom_device_t, the
\* transactions and the lock count are always what the code takes them for.
THEOREM TypeCorrect == TwoBanks /\ Spec => []TypeOK
<1>1. IInv => TypeOK
  <2> SUFFICES ASSUME IInv PROVE TypeOK
    OBVIOUS
  <2>1. TypeInv /\ ListInv /\ SeenInv /\ CountInv /\ MemInv
    BY DEF IInv
  <2>2. head \in Transactions \union {Null}
    BY <2>1, ListFacts1 DEF ListInv
  <2>3. locked \in BOOLEAN /\ pend \in BOOLEAN
    BY DEF IInv, FlagInv
  <2>4. stops \in Nat /\ refused \in 0..MaxRefused /\ times \in [Transactions -> 0..MaxTimes]
    BY <2>1, EepromAssumption DEF CountInv
  <2>5. (seen # Null) <=> irq \in {"call", "swap", "begin"}
    BY <2>1 DEF SeenInv
  <2>6. /\ state \in {"READY", "BUSY"}
        /\ next \in [Transactions -> Transactions \union {Null}]
        /\ status \in [Transactions -> {"NONE", "BUSY", "SUCCESS", "FAIL"}]
        /\ current \in Transactions \union {Null} /\ done \in Nat
        /\ hw \in {"idle", "busy", "eop", "error"}
        /\ irq \in {"idle", "call", "drain", "swap", "begin"}
        /\ seen \in Transactions \union {Null} /\ tpc \in Pcs
        /\ {mine, loaded} \subseteq Transactions \union {Null}
        /\ mem \in [Word -> Range(Data) \union {Erased}]
    BY <2>1 DEF TypeInv, MemInv
  <2> QED
    BY <2>2, <2>3, <2>4, <2>5, <2>6, Zenon DEF TypeOK
<1> QED
  BY <1>1, Invariance, PTL

\* Whoever writes a word, or owns the controller between stm32l0_flash_unlock
\* and stm32l0_flash_lock, is undisturbed, and the processor stays awake.
THEOREM NobodyDisturbs == TwoBanks /\ Spec => []Undisturbed
<1>1. IInv => Undisturbed
  <2> SUFFICES ASSUME IInv PROVE Undisturbed
    OBVIOUS
  <2>1. TypeInv /\ CountInv /\ CurrentInv /\ OwnerInv
    BY DEF IInv
  <2>2. hw # "idle" => current # Null /\ locked = FALSE
    BY <2>1 DEF CurrentInv
  <2>3. tpc = "owner" => current = Null /\ hw = "idle" /\ locked = FALSE
    BY <2>1 DEF OwnerInv, CurrentInv
  <2>4. stops = refused + (IF current = Null THEN 0 ELSE 1) /\ (current # Null => stops > 0)
    BY <2>1, EepromAssumption DEF CountInv
  <2>5. AwakeWhileWriting
    BY <2>2, <2>4 DEF AwakeWhileWriting
  <2>6. OwnerIsAlone
    BY <2>3 DEF OwnerIsAlone
  <2> QED
    BY <2>5, <2>6 DEF Undisturbed
<1> QED
  BY <1>1, Invariance, PTL

\* The handler reports SUCCESS after the last word that differs, or where none
\* did: the words passed before and those left now all hold the value.
LEMMA StoredStep ==
  ASSUME IInv, [Next]_vars
  PROVE  SuccessMeansStored
<1>1. /\ TypeInv /\ StoredInv /\ SeenInv
  BY DEF IInv
<1>2. ASSUME NEW t \in Transactions, NEW k \in Nat, ToWrite(t, k) = {}, UNCHANGED mem,
             \A j \in 1..Len(Area[t]) : j <= k => mem[Area[t][j]] = Data[t],
             \A u \in Transactions : status[u] = "BUSY" /\ status'[u] = "SUCCESS" => u = t
      PROVE  SuccessMeansStored
  <2>1. Area[t] \in Seq(Word) /\ Len(Area[t]) \in Nat
    BY EepromAssumption
  <2>2. \A j \in 1..Len(Area[t]) : mem[Area[t][j]] = Data[t]
    BY <1>2, <2>1 DEF ToWrite
  <2>3. \A w \in Range(Area[t]) : mem'[w] = Data[t]
    BY <1>2, <2>1, <2>2 DEF Range
  <2> QED
    BY <1>2, <2>3 DEF SuccessMeansStored
<1>3. ASSUME NEW t \in Transactions, status' = [status EXCEPT ![t] = "SUCCESS"]
      PROVE  \A u \in Transactions : status[u] = "BUSY" /\ status'[u] = "SUCCESS" => u = t
  BY <1>1, <1>3 DEF TypeInv
<1>4. ASSUME NEW t \in Transactions, NEW result \in {"BUSY", "FAIL"},
             status' = [status EXCEPT ![t] = result]
      PROVE  SuccessMeansStored
  BY <1>1, <1>4 DEF TypeInv, SuccessMeansStored
<1>5. ASSUME UNCHANGED status PROVE SuccessMeansStored
  BY <1>5 DEF SuccessMeansStored
<1>6. irq = "begin" => seen \in Transactions
  BY <1>1 DEF TypeInv, SeenInv
<1>7. CASE \E t \in Transactions : EnqueueLink(t)
  BY <1>4, <1>7 DEF EnqueueLink
<1>8. CASE ThreadGoesOn \/ Acquire \/ WordDone \/ EnterDrain \/ DrainNone \/ DrainCut
           \/ DrainHead \/ DrainSwap
  BY <1>5, <1>8 DEF ThreadGoesOn, Acquire, EnqueueSwap, WaitOver, Unlock, Release, WordDone,
     EnterDrain, DrainNone, DrainCut, DrainHead, DrainSwap
<1>9. CASE \E t \in UrgentOnes : UrgentEnqueue(t)
  BY <1>4, <1>9, EepromAssumption DEF UrgentEnqueue, Push
<1>10. CASE EnterWord
  <2>1. /\ current \in Transactions /\ hw = "eop" /\ done \in Nat /\ UNCHANGED mem
        /\ \A j \in 1..done : mem[Area[current][j]] = Data[current]
    BY <1>1, <1>10 DEF EnterWord, TypeInv, StoredInv
  <2>2. CASE ToWrite(current, done) # {}
    BY <2>2, <1>5, <1>10 DEF EnterWord
  <2>3. CASE ToWrite(current, done) = {}
    <3>1. status' = [status EXCEPT ![current] = "SUCCESS"]
      BY <2>3, <1>10 DEF EnterWord, Finish
    <3>2. \A j \in 1..Len(Area[current]) : j <= done => mem[Area[current][j]] = Data[current]
      BY <2>1, EepromAssumption
    <3> QED
      BY <2>1, <2>3, <3>1, <3>2, <1>2, <1>3
  <2> QED
    BY <2>2, <2>3
<1>11. CASE EnterError
  BY <1>1, <1>4, <1>11 DEF EnterError, Finish, TypeInv
<1>12. CASE Call
  <2>1. irq = "call" => seen \in Transactions
    BY <1>1 DEF TypeInv, SeenInv
  <2> QED
    BY <2>1, <1>4, <1>5, <1>12 DEF Call, Push, InIrq
<1>13. CASE BeginWrite
  <2>1. irq = "begin" /\ UNCHANGED mem
    BY <1>13 DEF BeginWrite, InIrq
  <2>2. CASE ToWrite(seen, 0) # {}
    BY <2>2, <1>5, <1>13 DEF BeginWrite
  <2>3. CASE ToWrite(seen, 0) = {}
    <3>1. status' = [status EXCEPT ![seen] = "SUCCESS"]
      BY <2>3, <1>13 DEF BeginWrite, Finish
    <3>2. \A j \in 1..Len(Area[seen]) : j <= 0 => mem[Area[seen][j]] = Data[seen]
      OBVIOUS
    <3> QED
      BY <2>1, <2>3, <3>1, <3>2, <1>2, <1>3, <1>6
  <2> QED
    BY <2>2, <2>3
<1>14. CASE BeginRefused
  BY <1>4, <1>6, <1>14 DEF BeginRefused, InIrq
<1>15. CASE BeginRead
  <2>1. seen \in Transactions /\ Control[seen] = "READ" /\ status' = [status EXCEPT ![seen] = "SUCCESS"]
    BY <1>6, <1>15 DEF BeginRead, InIrq
  <2> QED
    BY <2>1, <1>3 DEF SuccessMeansStored
<1>16. CASE UNCHANGED vars
  BY <1>5, <1>16 DEF vars
<1> QED
  BY <1>7, <1>8, <1>9, <1>10, <1>11, <1>12, <1>13, <1>14, <1>15, <1>16 DEF Next, Handler

\* A transaction that reports SUCCESS left its value in every word of its area,
\* whatever ran between two of them (stm32l0_eeprom_do_program and do_erase).
THEOREM SuccessMeansWritten == TwoBanks /\ Spec => SuccessIsStored
<1>1. IInv /\ [Next]_vars => [SuccessMeansStored]_vars
  BY StoredStep
<1> QED
  BY <1>1, Invariance, PTL DEF Spec, SuccessIsStored

-----------------------------------------------------------------------------
(* The driver is a queue.  The abstract queue is the list, oldest first,    *)
(* each transaction with the number of times it was enqueued.               *)

QueueOf(c, tm) ==
    [i \in 1..Len(c) |-> <<c[Len(c) - i + 1], tm[c[Len(c) - i + 1]]>>]

TurnedAround(c, tm) == Reverse([i \in DOMAIN c |-> <<c[i], tm[c[i]]>>])

Calls == Transactions \X (1 .. MaxTimes)
queueBar == Reverse([i \in DOMAIN Chain |-> Numbered(Chain[i])])
runningBar == {Numbered(t) : t \in Taken}
acceptedBar == {c \in Calls : c[2] <= times[c[1]]}

\* The list turned around.
LEMMA QueueIs ==
  ASSUME NEW c \in Seq(Transactions), NEW tm
  PROVE  TurnedAround(c, tm) = QueueOf(c, tm)
<1> DEFINE s == [i \in DOMAIN c |-> <<c[i], tm[c[i]]>>]
<1>1. DOMAIN c = 1..Len(c) /\ Len(c) \in Nat
  OBVIOUS
<1>2. Len(s) = Len(c)
  <2>1. s \in Seq({s[i] : i \in 1..Len(c)}) /\ DOMAIN s = 1..Len(c)
    BY <1>1
  <2> QED
    BY <2>1, <1>1, LenProperties
<1>3. Reverse(s) = [i \in 1..Len(s) |-> s[(Len(s) - i) + 1]]
  BY DEF Reverse
<1>4. \A i \in 1..Len(c) : s[(Len(c) - i) + 1] = <<c[Len(c) - i + 1], tm[c[Len(c) - i + 1]]>>
  <2> TAKE i \in 1..Len(c)
  <2>1. Len(c) - i + 1 \in DOMAIN c
    BY <1>1
  <2> QED
    BY <2>1
<1> HIDE DEF s
<1>5. Reverse(s) = QueueOf(c, tm)
  BY <1>2, <1>3, <1>4 DEF QueueOf
<1> QED
  BY <1>5 DEF s, TurnedAround

\* The abstract queue is the list turned around.
LEMMA QueueBarIs ==
  ASSUME IInv
  PROVE  queueBar = QueueOf(Chain, times)
<1>1. Chain \in Seq(Transactions)
  BY DEF IInv, ListInv, IsList
<1>2. TurnedAround(Chain, times) = QueueOf(Chain, times)
  BY <1>1, QueueIs
<1> QED
  BY <1>2 DEF queueBar, Numbered, TurnedAround

\* The abstract step of a transaction that is handed over.
LEMMA AcceptStep ==
  ASSUME IInv, IInv', NEW t \in Transactions, ~In(Chain, t), t \notin Taken,
         times[t] < MaxTimes, times' = [times EXCEPT ![t] = @ + 1],
         Len(Chain') = Len(Chain) + 1,
         \A i \in 1..Len(Chain') : Chain'[i] = IF i = 1 THEN t ELSE Chain[i - 1],
         Taken' = Taken, Taken \subseteq Transactions
  PROVE  <<t, times[t] + 1>> \in Calls /\ Queue!Accept(<<t, times[t] + 1>>)
<1> DEFINE call == <<t, times[t] + 1>>
<1>1. /\ Len(Chain) \in Nat /\ \A i \in 1..Len(Chain) : Chain[i] \in Transactions
      /\ times \in [Transactions -> 0..MaxTimes] /\ MaxTimes \in Nat
  BY ListFacts1, EepromAssumption DEF IInv, ListInv, CountInv
<1>2. call \in Calls /\ times'[t] = times[t] + 1
  BY <1>1 DEF Calls
<1>3. \A u \in Transactions : u # t => times'[u] = times[u]
  BY <1>1
<1>4. call \notin acceptedBar
  BY <1>1 DEF acceptedBar
<1>5. acceptedBar' = acceptedBar \union {call}
  <2> SUFFICES ASSUME NEW c \in Calls
               PROVE  c[2] <= times'[c[1]] <=> c[2] <= times[c[1]] \/ c = call
    BY <1>2 DEF acceptedBar
  <2>1. c = <<c[1], c[2]>> /\ c[1] \in Transactions /\ c[2] \in 1..MaxTimes
    BY DEF Calls
  <2>2. CASE c[1] # t
    BY <2>1, <2>2, <1>3
  <2>3. CASE c[1] = t
    <3>1. c = call <=> c[2] = times[t] + 1
      BY <2>1, <2>3
    <3>2. times[t] \in 0..MaxTimes
      BY <1>1
    <3> QED
      BY <3>1, <3>2, <2>1, <2>3, <1>2
  <2> QED
    BY <2>2, <2>3
<1>6. runningBar' = runningBar
  <2>1. \A u \in Taken : times'[u] = times[u]
    BY <1>3
  <2> QED
    BY <2>1 DEF runningBar, Numbered
<1>7. queueBar = QueueOf(Chain, times) /\ queueBar' = QueueOf(Chain', times')
  <2>1. queueBar' = QueueOf(Chain', times')
    <3>1. Chain' \in Seq(Transactions)
      BY DEF IInv, ListInv, IsList
    <3>2. TurnedAround(Chain', times') = QueueOf(Chain', times')
      BY <3>1, QueueIs
    <3> QED
      BY <3>2 DEF queueBar, Numbered, TurnedAround
  <2>2. queueBar = QueueOf(Chain, times)
    BY QueueBarIs
  <2> QED
    BY <2>1, <2>2, Zenon
<1>8. Len(queueBar) = Len(Chain) /\ queueBar \in Seq(Transactions \X Range(times))
  <2>1. \A i \in 1..Len(Chain) : Len(Chain) - i + 1 \in 1..Len(Chain)
    BY <1>1
  <2>2. \A u \in Transactions : times[u] \in Range(times)
    BY <1>1 DEF Range
  <2> DEFINE S == Transactions \X Range(times)
  <2>3. queueBar \in [1..Len(Chain) -> S]
    BY <2>1, <2>2, <1>1, <1>7 DEF QueueOf
  <2> HIDE DEF S
  <2>4. queueBar \in Seq(S) /\ DOMAIN queueBar = 1..Len(Chain)
    BY <2>3, <1>1
  <2>5. Len(queueBar) = Len(Chain)
    BY <2>4, <1>1, LenProperties
  <2> QED
    BY <2>4, <2>5 DEF S
<1>9. Len(queueBar) < Cardinality(Transactions)
  <2>1. Len(Chain') <= Cardinality(Transactions) /\ Cardinality(Transactions) \in Nat
    BY ListLength DEF IInv, ListInv, IsList
  <2> QED
    BY <2>1, <1>1, <1>8
<1>10. queueBar' = Append(queueBar, call)
  <2> DEFINE n == Len(Chain)
  <2>1. Append(queueBar, call) = [i \in 1..n + 1 |-> IF i = n + 1 THEN call ELSE queueBar[i]]
    BY <1>1, <1>8
  <2>2. queueBar' = [i \in 1..n + 1 |-> <<Chain'[n + 1 - i + 1], times'[Chain'[n + 1 - i + 1]]>>]
    BY <1>7 DEF QueueOf
  <2>3. \A i \in 1..n : queueBar[i] = <<Chain[n - i + 1], times[Chain[n - i + 1]]>>
    BY <1>7 DEF QueueOf
  <2>4. \A i \in 1..n + 1 :
           <<Chain'[n + 1 - i + 1], times'[Chain'[n + 1 - i + 1]]>> =
             IF i = n + 1 THEN call ELSE queueBar[i]
    <3> TAKE i \in 1..n + 1
    <3>1. CASE i = n + 1
      <4>1. Chain'[n + 1 - i + 1] = t
        BY <3>1, <1>1
      <4> QED
        BY <4>1, <3>1, <1>2
    <3>2. CASE i # n + 1
      <4>1. i \in 1..n /\ n - i + 1 \in 1..n
        BY <3>2, <1>1
      <4>2. Chain'[n + 1 - i + 1] = Chain[n - i + 1]
        <5>1. n + 1 - i + 1 \in 1..Len(Chain') /\ n + 1 - i + 1 # 1
          BY <4>1, <1>1
        <5>2. n + 1 - i + 1 - 1 = n - i + 1
          BY <4>1, <1>1
        <5> QED
          BY <5>1, <5>2
      <4>3. Chain[n - i + 1] \in Transactions /\ Chain[n - i + 1] # t
        BY <4>1, <1>1 DEF In
      <4> QED
        BY <4>1, <4>2, <4>3, <3>2, <2>3, <1>3
    <3> QED
      BY <3>1, <3>2
  <2> QED
    BY <2>1, <2>2, <2>4
<1> HIDE DEF call
<1>11. Queue!Accept(call)
  BY <1>4, <1>5, <1>6, <1>9, <1>10, <1>2
     DEF Queue!Accept, acceptedBar, runningBar, queueBar, Calls
<1> QED
  BY <1>2, <1>11 DEF call

\* The abstract step of a transaction that is taken off the list.
LEMMA StartStep ==
  ASSUME IInv, Len(Chain) > 0, Taken = {}, Taken' = {Chain[Len(Chain)]},
         Len(Chain') = Len(Chain) - 1,
         \A i \in 1..Len(Chain) - 1 : Chain'[i] = Chain[i],
         Chain' \in Seq(Transactions),
         UNCHANGED times
  PROVE  Queue!Start
<1> DEFINE n == Len(Chain)
<1>1. /\ n \in Nat \ {0} /\ \A i \in 1..n : Chain[i] \in Transactions
      /\ times \in [Transactions -> 0..MaxTimes]
  BY ListFacts1 DEF IInv, ListInv, CountInv
<1>2. queueBar = QueueOf(Chain, times)
  BY QueueBarIs
<1>3. queueBar' = QueueOf(Chain', times')
  <2>1. TurnedAround(Chain', times') = QueueOf(Chain', times')
    BY QueueIs
  <2> QED
    BY <2>1 DEF queueBar, Numbered, TurnedAround
<1>4. queueBar = [i \in 1..n |-> <<Chain[n - i + 1], times[Chain[n - i + 1]]>>]
  BY <1>2 DEF QueueOf
<1>5. queueBar' = [i \in 1..n - 1 |-> <<Chain'[n - 1 - i + 1], times[Chain'[n - 1 - i + 1]]>>]
  BY <1>3 DEF QueueOf
<1> HIDE DEF n
<1>6. queueBar \in Seq(Transactions \X Range(times)) /\ Len(queueBar) = n
  <2>1. \A i \in 1..n : n - i + 1 \in 1..n
    BY <1>1
  <2>2. \A u \in Transactions : times[u] \in Range(times)
    BY <1>1 DEF Range
  <2> DEFINE S == Transactions \X Range(times)
  <2>3. queueBar \in [1..n -> S]
    BY <2>1, <2>2, <1>1, <1>4
  <2> HIDE DEF S
  <2>4. queueBar \in Seq(S) /\ DOMAIN queueBar = 1..n
    BY <2>3, <1>1
  <2>5. Len(queueBar) = n
    BY <2>4, <1>1, LenProperties
  <2> QED
    BY <2>4, <2>5 DEF S
<1>7. queueBar # <<>> /\ Head(queueBar) = queueBar[1]
  BY <1>1, <1>6
<1>8. Head(queueBar) = <<Chain[n], times[Chain[n]]>>
  <2>1. n - 1 + 1 = n /\ 1 \in 1..n
    BY <1>1
  <2> QED
    BY <2>1, <1>4, <1>7
<1>9. queueBar' = Tail(queueBar)
  <2>1. Tail(queueBar) = [i \in 1..n - 1 |-> queueBar[i + 1]]
    <3> DEFINE S == Transactions \X Range(times)
               t == Tail(queueBar)
    <3> HIDE DEF S
    <3>1. t \in Seq(S) /\ Len(t) = n - 1 /\ \A i \in 1..Len(t) : t[i] = queueBar[i + 1]
      BY <1>6, <1>7, HeadTailProperties DEF S
    <3> HIDE DEF t
    <3>2. t = [i \in 1..n - 1 |-> t[i]]
      BY <3>1
    <3>3. t = [i \in 1..n - 1 |-> queueBar[i + 1]]
      BY <3>1, <3>2
    <3> QED
      BY <3>3 DEF t
  <2>2. \A i \in 1..n - 1 :
           <<Chain'[n - 1 - i + 1], times[Chain'[n - 1 - i + 1]]>> = queueBar[i + 1]
    <3> TAKE i \in 1..n - 1
    <3>1. i + 1 \in 1..n /\ n - (i + 1) + 1 = n - i /\ n - 1 - i + 1 = n - i /\ n - i \in 1..n - 1
      BY <1>1
    <3>2. Chain'[n - i] = Chain[n - i]
      BY <3>1 DEF n
    <3> QED
      BY <3>1, <3>2, <1>4
  <2> QED
    BY <2>1, <2>2, <1>5
<1>10. runningBar = {} /\ runningBar' = {Head(queueBar)}
  <2>1. runningBar' = {<<Chain[n], times[Chain[n]]>>}
    BY DEF runningBar, Numbered, n
  <2> QED
    BY <2>1, <1>8 DEF runningBar
<1>11. acceptedBar' = acceptedBar
  BY DEF acceptedBar
<1> QED
  BY <1>7, <1>9, <1>10, <1>11 DEF Queue!Start, queueBar, runningBar, acceptedBar, Calls

\* The abstract step of a transaction that is reported.
LEMMA FinishStep ==
  ASSUME Taken # {}, Taken' = {}, Chain' = Chain, UNCHANGED times
  PROVE  Queue!Finish
<1>1. runningBar # {} /\ runningBar' = {} /\ queueBar' = queueBar /\ acceptedBar' = acceptedBar
  BY DEF runningBar, queueBar, acceptedBar, Numbered
<1> QED
  BY <1>1 DEF Queue!Finish, queueBar, runningBar, acceptedBar, Calls

\* A step that leaves the abstract queue alone.
LEMMA QuietStep ==
  ASSUME Taken' = Taken, Chain' = Chain, UNCHANGED times
  PROVE  UNCHANGED Queue!tqvars
<1>1. runningBar' = runningBar /\ queueBar' = queueBar /\ acceptedBar' = acceptedBar
  BY DEF runningBar, queueBar, acceptedBar, Numbered
<1> QED
  BY <1>1 DEF Queue!tqvars, queueBar, runningBar, acceptedBar, Calls

\* Every step of the driver is a step of the queue, or leaves it alone.
LEMMA QueueStep ==
  ASSUME TwoBanks, IInv, IInv', [Next]_vars
  PROVE  [Queue!TQNext]_(Queue!tqvars)
<1>1. /\ TypeInv /\ ListInv /\ SeenInv /\ MineInv /\ CurrentInv /\ AloneInv /\ OwnerInv
  BY DEF IInv
<1>2. ASSUME UNCHANGED <<head, next, current, irq, seen, times>>
      PROVE  UNCHANGED Queue!tqvars
  BY <1>2, QuietStep DEF Chain, Taken
<1>3. Taken \subseteq Transactions /\ \A u \in Taken : status[u] = "BUSY"
  BY <1>1 DEF Taken, TypeInv, SeenInv, CurrentInv
<1>4. ASSUME NEW t \in Transactions, Queue!Accept(<<t, times[t] + 1>>),
             <<t, times[t] + 1>> \in Calls
      PROVE  Queue!TQNext
  BY <1>4, Zenon DEF Queue!TQNext, Queue!Accept, Calls
<1>5. ASSUME NEW t \in Transactions, status[t] # "BUSY", Push(t), times[t] < MaxTimes,
             Taken' = Taken
      PROVE  Queue!TQNext
  <2>1. /\ ~In(Chain, t)
        /\ Len(Chain') = Len(Chain) + 1
        /\ \A i \in 1..Len(Chain') : Chain'[i] = IF i = 1 THEN t ELSE Chain[i - 1]
    BY <1>1, <1>5, PushedFirst
  <2>2. t \notin Taken /\ times' = [times EXCEPT ![t] = @ + 1]
    BY <1>3, <1>5 DEF Push
  <2> QED
    BY <1>3, <1>4, <1>5, <2>1, <2>2, AcceptStep
<1>6. CASE \E t \in Transactions : EnqueueLink(t)
  <2>1. PICK t \in Transactions : EnqueueLink(t)
    BY <1>6
  <2>2. /\ UNCHANGED <<head, current, irq, seen, times>> /\ irq = "idle"
        /\ next' = [next EXCEPT ![t] = head] /\ status[t] # "BUSY"
    BY <2>1 DEF EnqueueLink, InThread, MayEnqueue, device, handler
  <2>3. Chain' = Chain
    <3>1. ~In(Chain, t)
      BY <1>1, <2>2 DEF ListInv, In
    <3>2. IsList(head, next', Chain)
      BY <1>1, <2>2, <3>1, LinkOutside DEF ListInv, TypeInv
    <3>3. ChainOf(head, next') = Chain
      BY <3>2, ChainIs
    <3> QED
      BY <3>3, <2>2 DEF Chain
  <2> QED
    BY <2>2, <2>3, QuietStep DEF Taken
<1>7. CASE EnqueueSwap
  <2>1. /\ irq = "idle" /\ tpc = "link" /\ UNCHANGED <<current, irq, seen>>
    BY <1>7 DEF EnqueueSwap, InThread, device, handler
  <2>2. mine \in Transactions /\ ~In(Chain, mine) /\ next[mine] = loaded /\ mine # current
    BY <1>1, <2>1 DEF MineInv
  <2>3. Taken' = Taken /\ mine \notin Taken
    BY <2>1, <2>2 DEF Taken
  <2>4. CASE head = loaded
    <3>1. /\ head' = mine /\ times' = [times EXCEPT ![mine] = @ + 1] /\ UNCHANGED next
      BY <1>7, <2>4 DEF EnqueueSwap
    <3> DEFINE d == <<mine>> \o Chain
    <3>2. /\ IsList(mine, next, d)
          /\ Len(d) = Len(Chain) + 1
          /\ \A i \in 1..Len(Chain) + 1 : d[i] = IF i = 1 THEN mine ELSE Chain[i - 1]
      BY <1>1, <2>2, <2>4, PushFront DEF ListInv
    <3> HIDE DEF d
    <3>3. Chain' = d
      BY <3>1, <3>2, ChainIs DEF Chain
    <3>4. times[mine] < MaxTimes
      BY <2>1 DEF IInv, CountInv
    <3>5. /\ Len(Chain') = Len(Chain) + 1
          /\ \A i \in 1..Len(Chain') : Chain'[i] = IF i = 1 THEN mine ELSE Chain[i - 1]
      BY <3>2, <3>3
    <3> QED
      BY <1>3, <1>4, <2>2, <2>3, <3>1, <3>4, <3>5, AcceptStep
  <2>5. CASE head # loaded
    <3>1. next' = [next EXCEPT ![mine] = head] /\ UNCHANGED <<head, times>>
      BY <1>7, <2>5 DEF EnqueueSwap
    <3>2. IsList(head, next', Chain)
      BY <1>1, <2>2, <3>1, LinkOutside DEF ListInv, TypeInv
    <3>3. ChainOf(head, next') = Chain
      BY <3>2, ChainIs
    <3>4. Chain' = Chain
      BY <3>3, <3>1 DEF Chain
    <3> QED
      BY <2>3, <3>1, <3>4, QuietStep
  <2> QED
    BY <2>4, <2>5
<1>8. CASE WaitOver \/ Acquire \/ Unlock \/ Release \/ WordDone
  <2>1. UNCHANGED <<head, next, current, irq, seen, times>>
    BY <1>8 DEF WaitOver, Acquire, Unlock, Release, WordDone, list, device, handler
  <2> QED
    BY <2>1, <1>2
<1>9. CASE \E t \in UrgentOnes : UrgentEnqueue(t)
  <2>1. PICK t \in UrgentOnes : UrgentEnqueue(t)
    BY <1>9
  <2>2. /\ t \in Transactions /\ status[t] # "BUSY" /\ Push(t) /\ times[t] < MaxTimes
        /\ UNCHANGED <<current, irq, seen>>
    BY <2>1, EepromAssumption DEF UrgentEnqueue, MayEnqueue, device, handler
  <2> QED
    BY <2>2, <1>5 DEF Taken
<1>10. CASE EnterDrain \/ DrainNone \/ DrainHead
  <2>1. /\ UNCHANGED <<head, next, current, times>> /\ irq # "begin" /\ irq' # "begin"
    BY <1>10 DEF EnterDrain, DrainNone, DrainHead, InIrq, list, device
  <2> QED
    BY <2>1, QuietStep DEF Taken, Chain
<1>11. CASE EnterWord \/ EnterError
  <2>1. /\ irq = "idle" /\ current # Null /\ current \in Transactions
        /\ UNCHANGED <<head, next, times>> /\ irq' \in {"idle", "call"}
    BY <1>1, <1>11 DEF EnterWord, EnterError, InIrq, list, TypeInv, WriteWord, Finish
  <2>2. Chain' = Chain /\ Taken = {current} /\ Taken' = {current'} \ {Null}
    BY <2>1 DEF Taken, Chain
  <2>3. current' = current \/ current' = Null
    BY <1>11 DEF EnterWord, EnterError, WriteWord, Finish
  <2>4. CASE current' = current
    BY <2>1, <2>2, <2>4, QuietStep
  <2>5. CASE current' = Null
    <3>1. Queue!Finish
      BY <2>1, <2>2, <2>5, FinishStep
    <3> QED
      BY <3>1 DEF Queue!TQNext
  <2> QED
    BY <2>3, <2>4, <2>5
<1>12. CASE Call
  <2>1. /\ irq = "call" /\ irq' = "drain" /\ UNCHANGED current
    BY <1>12 DEF Call, InIrq, device
  <2>2. Taken' = Taken
    BY <2>1 DEF Taken
  <2>3. CASE UNCHANGED <<list, status, times, pend>>
    BY <2>2, <2>3, QuietStep DEF list, Chain
  <2>4. CASE seen \in Synced /\ times[seen] < MaxTimes /\ Push(seen)
    <3>1. seen \in Transactions /\ status[seen] # "BUSY"
      BY <1>1, <2>1, <2>4, EepromAssumption DEF SeenInv
    <3> QED
      BY <3>1, <2>2, <2>4, <1>5
  <2> QED
    BY <1>12, <2>3, <2>4 DEF Call
<1>13. CASE DrainCut
  <2>1. /\ irq = "drain" /\ irq' = "begin" /\ Len(Chain) > 1 /\ seen' = Last(Chain)
        /\ next' = [next EXCEPT ![Chain[Len(Chain) - 1]] = Null]
        /\ UNCHANGED <<head, current, times>>
    BY <1>13 DEF DrainCut, InIrq, device
  <2>2. /\ IsList(head, next', Front(Chain))
        /\ Len(Front(Chain)) = Len(Chain) - 1
        /\ \A i \in 1..Len(Chain) - 1 : Front(Chain)[i] = Chain[i]
        /\ Last(Chain) = Chain[Len(Chain)]
    BY <1>1, <2>1, CutLast DEF ListInv, TypeInv
  <2>3. Chain' = Front(Chain)
    BY <2>1, <2>2, ChainIs DEF Chain
  <2>3a. Chain' \in Seq(Transactions)
    BY <2>2, <2>3 DEF IsList
  <2>4. current = Null
    BY <2>1 DEF IInv, CurrentInv
  <2>5. Taken = {} /\ Taken' = {Chain[Len(Chain)]}
    BY <2>1, <2>2, <2>4 DEF Taken
  <2>6. Len(Chain) > 0
    BY <1>1, <2>1, ListFacts1 DEF ListInv
  <2>7. Queue!Start
    BY <2>1, <2>2, <2>3, <2>3a, <2>5, <2>6, StartStep
  <2> QED
    BY <2>7 DEF Queue!TQNext
<1>14. CASE DrainSwap
  <2>1. /\ irq = "swap" /\ UNCHANGED <<next, current, times>>
    BY <1>14 DEF DrainSwap, InIrq, device
  <2>2. /\ Len(Chain) \in Nat \ {0} /\ seen = Chain[Len(Chain)] /\ current = Null
        /\ head = Chain[1]
    BY <1>1, <2>1, ListFacts1 DEF SeenInv, CurrentInv, ListInv
  <2>3. CASE head = seen
    <3>1. head' = Null /\ irq' = "begin" /\ seen' = seen
      BY <1>14, <2>3 DEF DrainSwap
    <3>2. Chain' = <<>>
      BY <3>1, EmptyList, ChainIs DEF Chain
    <3>3. Len(Chain) = 1
      <4>1. \A i, j \in 1..Len(Chain) : Chain[i] = Chain[j] => i = j
        BY <1>1 DEF ListInv, IsList
      <4>2. 1 \in 1..Len(Chain) /\ Len(Chain) \in 1..Len(Chain)
        BY <2>2
      <4> QED
        BY <4>1, <4>2, <2>2, <2>3
    <3>4. /\ Len(Chain') = Len(Chain) - 1 /\ Chain' \in Seq(Transactions)
          /\ \A i \in 1..Len(Chain) - 1 : Chain'[i] = Chain[i]
          /\ Len(Chain) > 0
      BY <3>2, <3>3
    <3>5. Taken = {} /\ Taken' = {Chain[Len(Chain)]}
      BY <2>1, <2>2, <3>1 DEF Taken
    <3>6. Queue!Start
      BY <2>1, <3>4, <3>5, StartStep
    <3> QED
      BY <3>6 DEF Queue!TQNext
  <2>4. CASE head # seen
    <3>1. irq' = "drain" /\ UNCHANGED head
      BY <1>14, <2>4 DEF DrainSwap
    <3> QED
      BY <2>1, <3>1, QuietStep DEF Taken, Chain
  <2> QED
    BY <2>3, <2>4
<1>15. CASE BeginWrite \/ BeginRefused \/ BeginRead
  <2>1. /\ irq = "begin" /\ UNCHANGED <<head, next, times>>
    BY <1>15 DEF BeginWrite, BeginRefused, BeginRead, InIrq, list
  <2>2. current = Null /\ seen \in Transactions
    BY <1>1, <2>1 DEF CurrentInv, SeenInv, TypeInv
  <2>3. Chain' = Chain /\ Taken = {seen}
    BY <2>1 DEF Chain, Taken
  <2>4. \/ irq' = "call" /\ current' = Null
        \/ irq' = "idle" /\ current' = seen
    BY <1>15, <2>2 DEF BeginWrite, BeginRefused, BeginRead, WriteWord, Finish, device
  <2>5. CASE irq' = "call" /\ current' = Null
    <3>1. Taken' = {}
      BY <2>5 DEF Taken
    <3>2. Queue!Finish
      BY <2>1, <2>3, <3>1, FinishStep
    <3> QED
      BY <3>2 DEF Queue!TQNext
  <2>6. CASE irq' = "idle" /\ current' = seen
    <3>1. Taken' = Taken
      BY <2>2, <2>3, <2>6, EepromAssumption DEF Taken
    <3> QED
      BY <2>1, <2>3, <3>1, QuietStep
  <2> QED
    BY <2>4, <2>5, <2>6
<1>16. CASE UNCHANGED vars
  BY <1>2, <1>16 DEF vars, list, device, handler
<1> QED
  BY <1>6, <1>7, <1>8, <1>9, <1>10, <1>11, <1>12, <1>13, <1>14, <1>15, <1>16
     DEF Next, ThreadGoesOn, Handler

\* The driver is a queue: what was accepted is taken once, in the order of the
\* compare-and-swaps, and only after the one before it was reported, for every
\* number of transactions (FLASH_IRQHandler and stm32l0_eeprom_enqueue).
THEOREM Refinement == TwoBanks /\ Spec => ImplementsTaskQueue
<1>1. Init => Queue!TQInit
  <2> SUFFICES ASSUME Init PROVE Queue!TQInit
    OBVIOUS
  <2>1. /\ head = Null /\ current = Null /\ irq = "idle"
        /\ times = [t \in Transactions |-> 0]
    BY DEF Init
  <2>2. Chain = <<>> /\ Taken = {}
    BY <2>1, EmptyList, ChainIs DEF Chain, Taken
  <2>3. queueBar = <<>>
    <3>1. queueBar = QueueOf(<<>>, times)
      BY <2>2, InitIsInvariant, QueueBarIs
    <3> QED
      BY <3>1 DEF QueueOf
  <2>4. runningBar = {} /\ acceptedBar = {}
    BY <2>1, <2>2, EepromAssumption DEF runningBar, acceptedBar, Calls
  <2> QED
    BY <2>3, <2>4 DEF Queue!TQInit, queueBar, runningBar, acceptedBar, Calls
<1>2. TwoBanks /\ IInv /\ IInv' /\ [Next]_vars => [Queue!TQNext]_(Queue!tqvars)
  BY QueueStep
<1>3. TwoBanks => []TwoBanks
  <2>1. TwoBanks => TwoBanks'
    BY DEF TwoBanks
  <2>2. TwoBanks /\ [TRUE]_vars => TwoBanks'
    BY <2>1
  <2> QED
    BY <2>1, PTL
<1> QED
  BY <1>1, <1>2, <1>3, Invariance, PTL DEF Spec, ImplementsTaskQueue, Queue!TQSpec
=============================================================================
