----------------------------- MODULE ListFacts -----------------------------
(***************************************************************************)
(* What the operations on sequences that the models of linked lists are    *)
(* built from do to the entries of a list.                                 *)
(***************************************************************************)
EXTENDS SequencesExt, Integers, TLAPS, SequenceTheorems, WellFoundedInduction,
        FiniteSetTheorems


\* A non-empty set of numbers has a least element.
LEMMA LeastNat ==
  ASSUME NEW T \in SUBSET Nat, T # {}
  PROVE  \E x \in T : \A y \in T : x <= y
<1>1. PICK x \in T : \A y \in T : <<y, x>> \notin OpToRel(<, Nat)
  BY WFMin, NatLessThanWellFounded, Zenon
<1>2. \A y \in T : ~(y < x)
  BY <1>1 DEF OpToRel
<1> QED
  BY <1>2

\* InsertAt shifts the entries from the place on by one.
LEMMA InsertAtEntries ==
  ASSUME NEW S, NEW list \in Seq(S), NEW e \in S, NEW p \in 1..Len(list) + 1
  PROVE  /\ InsertAt(list, p, e) \in Seq(S)
         /\ Len(InsertAt(list, p, e)) = Len(list) + 1
         /\ \A k \in 1..Len(list) + 1 : InsertAt(list, p, e)[k] =
               IF k < p THEN list[k] ELSE IF k = p THEN e ELSE list[k - 1]
<1> DEFINE a == SubSeq(list, 1, p - 1)
           b == SubSeq(list, p, Len(list))
           n == Len(list)
<1>0. n \in Nat /\ p \in Int /\ \A i \in 1..n : list[i] \in S
  BY LenProperties, ElementOfSeq
<1>1. /\ a \in Seq(S) /\ Len(a) = p - 1
      /\ \A i \in 1..p - 1 : a[i] = list[i]
  BY <1>0
<1>2. /\ b \in Seq(S) /\ Len(b) = n - p + 1
      /\ \A i \in 1..n - p + 1 : b[i] = list[p + i - 1]
  BY <1>0
<1>3. <<e>> \in Seq(S) /\ Len(<<e>>) = 1 /\ <<e>>[1] = e
  OBVIOUS
<1> HIDE DEF a, b, n
<1>4. /\ a \o <<e>> \in Seq(S) /\ Len(a \o <<e>>) = p
      /\ \A k \in 1..p : (a \o <<e>>)[k] = IF k < p THEN list[k] ELSE e
  BY <1>0, <1>1, <1>3, ConcatProperties
<1> DEFINE c == a \o <<e>>
           d == c \o b
<1> HIDE DEF c
<1>5. c \in Seq(S) /\ Len(c) = p /\ \A k \in 1..p : c[k] = IF k < p THEN list[k] ELSE e
  BY <1>4 DEF c
<1>6. /\ d \in Seq(S) /\ Len(d) = n + 1
      /\ \A k \in 1..n + 1 : d[k] = IF k <= p THEN c[k] ELSE b[k - p]
  <2>1. /\ d \in Seq(S) /\ Len(d) = Len(c) + Len(b)
        /\ \A k \in 1..Len(c) + Len(b) : d[k] = IF k <= Len(c) THEN c[k] ELSE b[k - Len(c)]
    BY <1>2, <1>5, ConcatProperties, Zenon
  <2> HIDE DEF d
  <2>2. Len(c) = p /\ Len(c) + Len(b) = n + 1
    BY <1>0, <1>2, <1>5
  <2> QED
    BY <2>1, <2>2, Zenon
<1>7. InsertAt(list, p, e) = d
  BY DEF InsertAt, a, b, c, n
<1> HIDE DEF d
<1>8. \A k \in 1..n + 1 : d[k] = IF k < p THEN list[k] ELSE IF k = p THEN e ELSE list[k - 1]
  <2> TAKE k \in 1..n + 1
  <2>1. CASE k <= p
    BY <2>1, <1>0, <1>5, <1>6
  <2>2. CASE k > p
    <3>1. d[k] = b[k - p] /\ k - p \in 1..n - p + 1
      BY <2>2, <1>0, <1>6
    <3> QED
      BY <3>1, <2>2, <1>0, <1>2
  <2> QED
    BY <2>1, <2>2, <1>0
<1> QED
  BY <1>0, <1>6, <1>7, <1>8 DEF n

\* RemoveAt shifts the entries behind the place back by one.
LEMMA RemoveAtEntries ==
  ASSUME NEW S, NEW list \in Seq(S), NEW p \in 1..Len(list)
  PROVE  /\ RemoveAt(list, p) \in Seq(S)
         /\ Len(RemoveAt(list, p)) = Len(list) - 1
         /\ \A k \in 1..Len(list) - 1 : RemoveAt(list, p)[k] =
               IF k < p THEN list[k] ELSE list[k + 1]
<1> DEFINE a == SubSeq(list, 1, p - 1)
           b == SubSeq(list, p + 1, Len(list))
           n == Len(list)
<1>0. n \in Nat /\ p \in Int /\ \A i \in 1..n : list[i] \in S
  BY LenProperties, ElementOfSeq
<1>1. /\ a \in Seq(S) /\ Len(a) = p - 1
      /\ \A i \in 1..p - 1 : a[i] = list[i]
  BY <1>0
<1>2. /\ b \in Seq(S) /\ Len(b) = n - p
      /\ \A i \in 1..n - p : b[i] = list[p + i]
  BY <1>0
<1> HIDE DEF a, b, n
<1>3. /\ a \o b \in Seq(S) /\ Len(a \o b) = n - 1
      /\ \A k \in 1..n - 1 : (a \o b)[k] = IF k <= p - 1 THEN a[k] ELSE b[k - (p - 1)]
  <2>1. Len(a) + Len(b) = n - 1
    BY <1>0, <1>1, <1>2
  <2>2. /\ a \o b \in Seq(S) /\ Len(a \o b) = Len(a) + Len(b)
        /\ \A k \in 1..Len(a) + Len(b) : (a \o b)[k] = IF k <= Len(a) THEN a[k]
                                                      ELSE b[k - Len(a)]
    BY <1>1, <1>2, ConcatProperties, Zenon
  <2> QED
    BY <1>1, <2>1, <2>2, Zenon
<1> DEFINE c == a \o b
<1>4. RemoveAt(list, p) = c
  BY DEF RemoveAt, a, b, n
<1> HIDE DEF c
<1>5. \A k \in 1..n - 1 : c[k] = IF k < p THEN list[k] ELSE list[k + 1]
  <2> TAKE k \in 1..n - 1
  <2>1. CASE k < p
    BY <2>1, <1>0, <1>1, <1>3 DEF c
  <2>2. CASE k >= p
    <3>1. c[k] = b[k - (p - 1)] /\ k - (p - 1) \in 1..n - p
      BY <2>2, <1>0, <1>3 DEF c
    <3> QED
      BY <3>1, <2>2, <1>0, <1>2
  <2> QED
    BY <2>1, <2>2, <1>0
<1> QED
  BY <1>0, <1>3, <1>4, <1>5 DEF n, c

\* A non-empty sequence is its front, then its last element.
LEMMA FrontLast ==
  ASSUME NEW S, NEW list \in Seq(S), list # <<>>
  PROVE  /\ Len(list) \in Nat \ {0}
         /\ Last(list) \in S /\ Last(list) = list[Len(list)]
         /\ Front(list) \in Seq(S) /\ Len(Front(list)) = Len(list) - 1
         /\ \A i \in 1..Len(list) - 1 : Front(list)[i] = list[i]
<1> DEFINE n == Len(list)
<1>1. n \in Nat \ {0} /\ \A i \in 1..n : list[i] \in S
  BY LenProperties, ElementOfSeq, EmptySeq
<1>2. \A i \in 1..n - 1 : list[i] \in S
  BY <1>1
<1> HIDE DEF n
<1>3. /\ SubSeq(list, 1, n - 1) \in Seq(S) /\ Len(SubSeq(list, 1, n - 1)) = n - 1
      /\ \A i \in 1..n - 1 : SubSeq(list, 1, n - 1)[i] = list[i]
  BY <1>1, <1>2
<1> QED
  BY <1>1, <1>3 DEF Front, Last, n

\* RemoveFirst of an element that is there.
LEMMA RemoveFirstIsRemoveAt ==
  ASSUME NEW S, NEW list \in Seq(S), NEW e, \E i \in 1..Len(list) : list[i] = e
  PROVE  \E p \in 1..Len(list) : list[p] = e /\ RemoveFirst(list, e) = RemoveAt(list, p)
<1> DEFINE I == {i \in 1..Len(list) : list[i] = e}
<1>1. I # {} /\ I \in SUBSET Nat
  BY LenProperties
<1>2. \E x \in I : \A y \in I : x <= y
  BY <1>1, LeastNat
<1>3. Min(I) \in I
  BY <1>2 DEF Min
<1>4. RemoveFirst(list, e) = RemoveAt(list, Min(I))
  BY <1>1 DEF RemoveFirst, SelectInSeq
<1> QED
  BY <1>3, <1>4
-----------------------------------------------------------------------------
(* Lists that hold each element of a set once, as linked lists do.          *)

Lists(list, M) ==
    /\ list \in Seq(M)
    /\ \A x \in M : \E i \in 1..Len(list) : list[i] = x
    /\ \A i, j \in 1..Len(list) : list[i] = list[j] => i = j

Precedes(list, a, b) == \E i, j \in 1..Len(list) : i < j /\ list[i] = a /\ list[j] = b

\* The empty list holds nothing.
LEMMA EmptyLists == Lists(<<>>, {})
  BY DEF Lists

\* The elements of a list are those of its set, its head one of them.
LEMMA ListsHead ==
  ASSUME NEW M, NEW list, Lists(list, M)
  PROVE  /\ Len(list) \in Nat
         /\ list = <<>> <=> M = {}
         /\ list = <<>> <=> Len(list) = 0
         /\ list # <<>> => Head(list) \in M /\ Head(list) = list[1]
         /\ ToSet(list) = M
<1>1. Len(list) \in Nat /\ DOMAIN list = 1..Len(list) /\ list \in Seq(M)
  BY LenProperties DEF Lists
<1>2. \A i \in 1..Len(list) : list[i] \in M
  BY <1>1, ElementOfSeq
<1>3. ToSet(list) = M
  BY <1>1, <1>2 DEF Lists, ToSet
<1> QED
  BY <1>1, <1>2, <1>3 DEF Lists

\* An insertion adds the element and keeps the others in their order.
LEMMA InsertLists ==
  ASSUME NEW M, NEW list, Lists(list, M), NEW e, e \notin M, NEW p \in 1..Len(list) + 1
  PROVE  /\ Lists(InsertAt(list, p, e), M \cup {e})
         /\ \A a, b : Precedes(list, a, b) => Precedes(InsertAt(list, p, e), a, b)
         /\ \/ Head(InsertAt(list, p, e)) = e
            \/ list # <<>> /\ Head(InsertAt(list, p, e)) = Head(list)
<1> DEFINE new == InsertAt(list, p, e)
           n == Len(list)
           N == M \cup {e}
<1>1. /\ list \in Seq(M) /\ list \in Seq(N) /\ n \in Nat
      /\ \A i \in 1..n : list[i] \in M
  BY LenProperties, ElementOfSeq, SeqMonotonic, M \subseteq N DEF Lists
<1>2. /\ new \in Seq(N) /\ Len(new) = n + 1
      /\ \A k \in 1..n + 1 : new[k] = IF k < p THEN list[k] ELSE IF k = p THEN e ELSE list[k - 1]
  <2>1. e \in N /\ p \in 1..Len(list) + 1
    OBVIOUS
  <2> HIDE DEF N
  <2>2. new \in Seq(N) /\ Len(new) = n + 1
    BY <1>1, <2>1, InsertAtEntries
  <2>3. \A k \in 1..n + 1 : new[k] =
           IF k < p THEN list[k] ELSE IF k = p THEN e ELSE list[k - 1]
    BY <1>1, <2>1, InsertAtEntries
  <2> QED
    BY <2>2, <2>3
<1> HIDE DEF new, n
<1> p \in 1..n + 1
  BY DEF n
<1>3. \A i \in 1..n : \E k \in 1..n + 1 : /\ new[k] = list[i]
                                         /\ k = IF i < p THEN i ELSE i + 1
  <2> TAKE i \in 1..n
  <2>1. CASE i < p
    <3>1. new[i] = list[i] /\ i \in 1..n + 1
      BY <2>1, <1>1, <1>2
    <3> QED
      BY <2>1, <3>1
  <2>2. CASE ~(i < p)
    <3>1. new[i + 1] = list[i] /\ i + 1 \in 1..n + 1
      BY <2>2, <1>1, <1>2
    <3> QED
      BY <2>2, <3>1
  <2> QED
    BY <2>1, <2>2
<1>4. new[p] = e
  BY <1>1, <1>2
<1>5. \A x \in N : \E i \in 1..n + 1 : new[i] = x
  BY <1>1, <1>3, <1>4 DEF Lists, n
<1>6. ASSUME NEW i \in 1..n + 1, NEW j \in 1..n + 1, new[i] = new[j] PROVE i = j
  <2>1. /\ i = p => new[i] \notin M
        /\ j = p => new[j] \notin M
        /\ i # p => new[i] \in M
        /\ j # p => new[j] \in M
    <3>1. \A k \in 1..n + 1 : k # p => new[k] = IF k < p THEN list[k] ELSE list[k - 1]
      BY <1>1, <1>2
    <3>2. \A k \in 1..n + 1 : k # p => new[k] \in M
      <4> SUFFICES ASSUME NEW k \in 1..n + 1, k # p PROVE new[k] \in M
        OBVIOUS
      <4>1. (k < p => k \in 1..n) /\ (~(k < p) => k - 1 \in 1..n)
        BY <1>1
      <4> QED
        BY <3>1, <4>1, <1>1
    <3> QED
      BY <1>4, <3>2
  <2>2. i = p <=> j = p
    BY <2>1, <1>6
  <2>3. CASE i # p
    <3> DEFINE a == IF i < p THEN i ELSE i - 1
               b == IF j < p THEN j ELSE j - 1
    <3>1. a \in 1..n /\ b \in 1..n /\ new[i] = list[a] /\ new[j] = list[b]
      BY <2>2, <2>3, <1>1, <1>2
    <3>2. a = b
      BY <3>1, <1>6 DEF Lists, n
    <3> QED
      BY <3>2, <2>2, <2>3, <1>1
  <2> QED
    BY <2>2, <2>3
<1>7. Lists(new, N)
  BY <1>2, <1>5, <1>6 DEF Lists
<1>8. \A a, b : Precedes(list, a, b) => Precedes(new, a, b)
  <2> SUFFICES ASSUME NEW a, NEW b, Precedes(list, a, b) PROVE Precedes(new, a, b)
    OBVIOUS
  <2>1. PICK i \in 1..n, j \in 1..n : i < j /\ list[i] = a /\ list[j] = b
    BY DEF Precedes, n
  <2>2. PICK k \in 1..n + 1 : new[k] = a /\ k = IF i < p THEN i ELSE i + 1
    BY <1>3, <2>1
  <2>3. PICK l \in 1..n + 1 : new[l] = b /\ l = IF j < p THEN j ELSE j + 1
    BY <1>3, <2>1
  <2>4. k < l
    BY <2>1, <2>2, <2>3, <1>1
  <2> QED
    BY <2>2, <2>3, <2>4, <1>2 DEF Precedes
<1>9. Head(new) = e \/ (list # <<>> /\ Head(new) = Head(list))
  <2>1. new # <<>> /\ Head(new) = new[1]
    BY <1>1, <1>2
  <2>2. CASE p = 1
    BY <2>1, <2>2, <1>4
  <2>3. CASE p # 1
    <3>1. n # 0 /\ 1 \in 1..n + 1 /\ 1 < p
      BY <2>3, <1>1
    <3>2. new[1] = list[1] /\ Head(list) = list[1]
      BY <3>1, <1>1, <1>2 DEF n
    <3>3. list # <<>>
      BY <3>1 DEF n
    <3> QED
      BY <2>1, <3>2, <3>3
  <2> QED
    BY <2>2, <2>3
<1> QED
  BY <1>7, <1>8, <1>9 DEF new

\* An element appended is added behind the others.
LEMMA AppendLists ==
  ASSUME NEW M, NEW list, Lists(list, M), NEW e, e \notin M
  PROVE  /\ Lists(Append(list, e), M \cup {e})
         /\ \A a, b : Precedes(list, a, b) => Precedes(Append(list, e), a, b)
<1> DEFINE new == Append(list, e)
           n == Len(list)
           N == M \cup {e}
<1>1. /\ list \in Seq(M) /\ list \in Seq(N) /\ n \in Nat
      /\ \A i \in 1..n : list[i] \in M
  BY LenProperties, ElementOfSeq, SeqMonotonic, M \subseteq N DEF Lists
<1>2. /\ new \in Seq(N) /\ Len(new) = n + 1 /\ new[n + 1] = e
      /\ \A k \in 1..n : new[k] = list[k]
  BY <1>1, AppendProperties
<1> HIDE DEF new
<1>3. \A i, j \in 1..n : list[i] = list[j] => i = j
  BY DEF Lists
<1>4. \A x \in M : \E i \in 1..n : list[i] = x
  BY DEF Lists
<1>5. \A i, j \in 1..n + 1 : new[i] = new[j] => i = j
  <2> SUFFICES ASSUME NEW i \in 1..n + 1, NEW j \in 1..n + 1, new[i] = new[j] PROVE i = j
    OBVIOUS
  <2>1. (i \in 1..n \/ i = n + 1) /\ (j \in 1..n \/ j = n + 1)
    BY <1>1
  <2> QED
    BY <2>1, <1>1, <1>2, <1>3
<1>6. \A x \in N : \E i \in 1..n + 1 : new[i] = x
  <2>1. n + 1 \in 1..n + 1 /\ \A i \in 1..n : i \in 1..n + 1
    BY <1>1
  <2>2. \A x \in M : \E i \in 1..n + 1 : new[i] = x
    BY <2>1, <1>2, <1>4
  <2> QED
    BY <2>1, <2>2, <1>2
<1>7. \A a, b : Precedes(list, a, b) => Precedes(new, a, b)
  BY <1>1, <1>2 DEF Precedes
<1>8. Lists(new, N)
  BY <1>2, <1>5, <1>6 DEF Lists
<1> QED
  BY <1>7, <1>8 DEF new

\* A removal takes the element out and keeps the others in their order.
LEMMA RemoveLists ==
  ASSUME NEW M, NEW list, Lists(list, M), NEW e \in M
  PROVE  /\ Lists(RemoveFirst(list, e), M \ {e})
         /\ \A a, b : /\ a # e /\ b # e
                     => (Precedes(list, a, b) <=> Precedes(RemoveFirst(list, e), a, b))
         /\ Head(list) # e => Head(RemoveFirst(list, e)) = Head(list)
<1> DEFINE new == RemoveFirst(list, e)
           n == Len(list)
           N == M \ {e}
<1>1. /\ list \in Seq(M) /\ n \in Nat
      /\ \A i \in 1..n : list[i] \in M
      /\ \E i \in 1..n : list[i] = e
  BY LenProperties, ElementOfSeq DEF Lists
<1>2. PICK p \in 1..n : list[p] = e /\ new = RemoveAt(list, p)
  BY <1>1, RemoveFirstIsRemoveAt
<1>3. /\ new \in Seq(M) /\ Len(new) = n - 1
      /\ \A k \in 1..n - 1 : new[k] = IF k < p THEN list[k] ELSE list[k + 1]
  BY <1>1, <1>2, RemoveAtEntries
<1> HIDE DEF new, n
<1>4. \A i, j \in 1..n : list[i] = list[j] => i = j
  BY DEF Lists, n
<1>5. \A k \in 1..n - 1 : new[k] \in N
  BY <1>1, <1>2, <1>3, <1>4
<1>6. new \in Seq(N)
  <2>1. new = [k \in 1..n - 1 |-> new[k]]
    BY <1>1, <1>3
  <2>2. n - 1 \in Nat
    BY <1>1, <1>2
  <2> QED
    BY <2>1, <2>2, <1>5
<1>7. \A i \in 1..n : list[i] # e => \E k \in 1..n - 1 : /\ new[k] = list[i]
                                                      /\ k = IF i < p THEN i ELSE i - 1
  <2> SUFFICES ASSUME NEW i \in 1..n, list[i] # e
               PROVE  \E k \in 1..n - 1 : new[k] = list[i] /\ k = IF i < p THEN i ELSE i - 1
    OBVIOUS
  <2>1. CASE i < p
    <3>1. new[i] = list[i] /\ i \in 1..n - 1
      BY <2>1, <1>1, <1>3
    <3> QED
      BY <2>1, <3>1
  <2>2. CASE i > p
    <3>1. i - 1 \in 1..n - 1 /\ ~(i - 1 < p)
      BY <2>2, <1>1
    <3>2. new[i - 1] = list[(i - 1) + 1]
      BY <3>1, <1>3
    <3>3. (i - 1) + 1 = i
      BY <1>1
    <3> QED
      BY <2>2, <3>1, <3>2, <3>3
  <2> QED
    BY <2>1, <2>2, <1>1, <1>2
<1>8. \A x \in N : \E k \in 1..n - 1 : new[k] = x
  BY <1>7 DEF Lists, n
<1>9. \A i, j \in 1..n - 1 : new[i] = new[j] => i = j
  <2> SUFFICES ASSUME NEW i \in 1..n - 1, NEW j \in 1..n - 1, new[i] = new[j] PROVE i = j
    OBVIOUS
  <2> DEFINE a == IF i < p THEN i ELSE i + 1
             b == IF j < p THEN j ELSE j + 1
  <2>1. a \in 1..n /\ b \in 1..n /\ list[a] = list[b]
    BY <1>1, <1>2, <1>3
  <2>2. a = b
    BY <2>1, <1>4
  <2> QED
    BY <2>2, <1>1
<1>10. Lists(new, N)
  BY <1>3, <1>6, <1>8, <1>9 DEF Lists
<1>11. ASSUME NEW a, NEW b, a # e, b # e, Precedes(list, a, b) PROVE Precedes(new, a, b)
  <2>1. PICK i \in 1..n, j \in 1..n : i < j /\ list[i] = a /\ list[j] = b
    BY <1>11 DEF Precedes, n
  <2>2. PICK k \in 1..n - 1 : new[k] = a /\ k = IF i < p THEN i ELSE i - 1
    BY <1>7, <1>11, <2>1
  <2>3. PICK l \in 1..n - 1 : new[l] = b /\ l = IF j < p THEN j ELSE j - 1
    BY <1>7, <1>11, <2>1
  <2>4. k < l
    BY <2>1, <2>2, <2>3, <1>1, <1>2, <1>11
  <2> QED
    BY <2>2, <2>3, <2>4, <1>3 DEF Precedes
<1>12. ASSUME NEW a, NEW b, Precedes(new, a, b) PROVE Precedes(list, a, b)
  <2>1. PICK i \in 1..n - 1, j \in 1..n - 1 : i < j /\ new[i] = a /\ new[j] = b
    BY <1>12, <1>3 DEF Precedes
  <2> DEFINE k == IF i < p THEN i ELSE i + 1
             l == IF j < p THEN j ELSE j + 1
  <2>2. k \in 1..n /\ l \in 1..n /\ k < l /\ list[k] = a /\ list[l] = b
    BY <2>1, <1>1, <1>3
  <2> QED
    BY <2>2 DEF Precedes, n
<1>13. Head(list) # e => Head(new) = Head(list)
  <2> SUFFICES ASSUME Head(list) # e PROVE Head(new) = Head(list)
    OBVIOUS
  <2>1. Head(list) = list[1] /\ p # 1
    BY <1>1, <1>2 DEF n
  <2>2. 1 \in 1..n - 1 /\ 1 < p
    BY <2>1, <1>1
  <2>3. Head(new) = new[1]
    BY <2>2, <1>1, <1>3
  <2> QED
    BY <2>1, <2>2, <2>3, <1>3
<1> QED
  BY <1>10, <1>11, <1>12, <1>13 DEF new

\* A list of a set holds its elements once, and nothing else.
LEMMA ListsTimes ==
  ASSUME NEW M, NEW list, Lists(list, M), NEW e
  PROVE  Cardinality({i \in 1..Len(list) : list[i] = e}) = IF e \in M THEN 1 ELSE 0
<1> DEFINE I == {i \in 1..Len(list) : list[i] = e}
<1>1. CASE e \in M
  <2>1. PICK i \in 1..Len(list) : list[i] = e
    BY <1>1 DEF Lists
  <2>2. I = {i}
    BY <2>1 DEF Lists
  <2> QED
    BY <1>1, <2>2, FS_Singleton
<1>2. CASE e \notin M
  <2>1. I = {}
    BY <1>2, ElementOfSeq DEF Lists
  <2> QED
    BY <1>2, <2>1, FS_EmptySet
<1> QED
  BY <1>1, <1>2

\* The end of a list is a list of some of its elements.
LEMMA SuffixLists ==
  ASSUME NEW M, NEW list, Lists(list, M), NEW p \in 1..Len(list) + 1
  PROVE  LET new == SubSeq(list, p, Len(list))
         IN  ToSet(new) \subseteq M /\ Lists(new, ToSet(new))
<1> DEFINE n == Len(list)
           new == SubSeq(list, p, n)
<1>1. list \in Seq(M) /\ n \in Nat /\ p \in 1..n + 1
  BY LenProperties DEF Lists
<1>2. \A i \in 1..n : list[i] \in M
  BY <1>1, ElementOfSeq
<1>3. \A i, j \in 1..n : list[i] = list[j] => i = j
  BY DEF Lists
<1> HIDE DEF n
<1>4. /\ new \in Seq(M) /\ Len(new) = n - p + 1
      /\ \A i \in 1..n - p + 1 : new[i] = list[p + i - 1]
  BY <1>1, <1>2
<1> HIDE DEF new
<1> DEFINE m == n - p + 1
<1>5. m \in Nat /\ \A i \in 1..m : p + i - 1 \in 1..n
  BY <1>1
<1>6. \A i, j \in 1..m : new[i] = new[j] => i = j
  <2> SUFFICES ASSUME NEW i \in 1..m, NEW j \in 1..m, new[i] = new[j] PROVE i = j
    OBVIOUS
  <2>1. p + i - 1 = p + j - 1
    BY <1>3, <1>4, <1>5
  <2> QED
    BY <2>1, <1>1, <1>5
<1> HIDE DEF m
<1>7. ToSet(new) = {new[i] : i \in 1..m} /\ new = [i \in 1..m |-> new[i]]
  BY <1>4 DEF ToSet, m
<1>8. ToSet(new) \subseteq M
  BY <1>4, <1>7, <1>2, <1>5 DEF m
<1>9. new \in Seq(ToSet(new))
  BY <1>5, <1>7
<1> QED
  BY <1>4, <1>6, <1>7, <1>8, <1>9 DEF Lists, new, n, m
=============================================================================
