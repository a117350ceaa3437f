--------------------------- MODULE TableOpsProofs ---------------------------
(***************************************************************************)
(* Lemmas about the list and table functions of TableOps: what list_add    *)
(* and list_remove do to a well-formed list, and what list_get returns     *)
(* afterwards.  They are cited by the proofs of every module that keeps a  *)
(* table.                                                                  *)
(***************************************************************************)
EXTENDS TableOps, FiniteSetTheorems, SequenceTheorems, TLAPS

-----------------------------------------------------------------------------
(* A set of naturals that is closed downwards is an interval from 0.       *)
LEMMA DownwardClosed ==
  ASSUME NEW m \in Nat, NEW D \in SUBSET (0..m), 0 \in D,
         \A d \in D : \A c \in 0..d : c \in D
  PROVE  \E c \in D : D = 0..c
<1> DEFINE p == Cardinality(D)
<1>1. IsFiniteSet(D) /\ p \in Nat /\ p <= m + 1
  <2>1. IsFiniteSet(0..m) /\ Cardinality(0..m) = m + 1
    BY FS_Interval, Z3
  <2>2. IsFiniteSet(D) /\ Cardinality(D) <= Cardinality(0..m)
    BY <2>1, FS_Subset
  <2> QED BY <2>1, <2>2, FS_CardinalityType
<1>2. p \in Nat /\ p # 0
  BY <1>1, FS_EmptySet
<1>3. 0..(p-1) \subseteq D
  <2>1. SUFFICES ASSUME NEW j \in 0..(p-1), j \notin D PROVE FALSE
    OBVIOUS
  <2>2. D \subseteq 0..(j-1)
    BY <1>1, <2>1
  <2>3. p <= j
    <3>1. j \in Nat /\ j - 1 \in Int
      BY <1>2, <2>1
    <3>2. IsFiniteSet(0..(j-1)) /\ Cardinality(0..(j-1)) = j
      <4>1. 0 \in Int /\ j - 1 \in Int
        BY <3>1
      <4>2. /\ IsFiniteSet(0..(j-1))
            /\ Cardinality(0..(j-1)) = IF 0 > j-1 THEN 0 ELSE (j-1) - 0 + 1
        BY <4>1, FS_Interval, Zenon
      <4> QED BY <3>1, <4>2
    <3>3. Cardinality(D) <= Cardinality(0..(j-1))
      BY <3>2, <2>2, FS_Subset
    <3> QED BY <3>2, <3>3
  <2> QED BY <1>1, <2>3
<1>4. Cardinality(0..(p-1)) = p
  BY <1>1, <1>2, FS_Interval
<1>5. D = 0..(p-1)
  BY <1>1, <1>3, <1>4, FS_Subset
<1> QED BY <1>1, <1>2, <1>5

(* Min of a non-empty set of naturals is its least element.  (The          *)
(* induction theorems of the library take an operator, which the provers   *)
(* do not instantiate: the lemma is proved by counting instead.)           *)
LEMMA LeastElement ==
  ASSUME NEW S, S \subseteq Nat, S # {}
  PROVE  Min(S) \in S /\ \A y \in S : Min(S) <= y
<1>1. PICK x \in S : TRUE
  OBVIOUS
<1> DEFINE D == {d \in 0..x : \A y \in S : d <= y}
<1>2. PICK c \in D : D = 0..c
  <2>1. D \in SUBSET (0..x) /\ 0 \in D /\ \A d \in D : \A e \in 0..d : e \in D
    OBVIOUS
  <2> HIDE DEF D
  <2> QED BY <2>1, DownwardClosed
<1>3. c \in Nat /\ c + 1 \notin D
  <2>1. x \in Nat /\ c \in 0..x
    OBVIOUS
  <2>2. c \in Nat /\ c + 1 \notin 0..c
    BY <2>1
  <2> HIDE DEF D
  <2> QED BY <2>2, <1>2
<1>4. PICK y \in S : y <= c
  BY <1>2, <1>3
<1>5. y = c /\ \A z \in S : c <= z
  BY <1>2, <1>4
<1> QED BY <1>5 DEF Min

-----------------------------------------------------------------------------
(* The sequence functions behind the links of a chain.                     *)

(* InsertAt puts e at position i and moves the rest up.                    *)
LEMMA InsertAtElements ==
  ASSUME NEW S, NEW s \in Seq(S), NEW i \in 1..(Len(s) + 1), NEW e \in S
  PROVE  /\ InsertAt(s, i, e) \in Seq(S)
         /\ Len(InsertAt(s, i, e)) = Len(s) + 1
         /\ \A j \in 1..(Len(s) + 1) :
              InsertAt(s, i, e)[j] = IF j < i THEN s[j]
                                     ELSE IF j = i THEN e ELSE s[j - 1]
<1> DEFINE a == SubSeq(s, 1, i-1)
           b == a \o <<e>>
           c == SubSeq(s, i, Len(s))
<1>1. Len(s) \in Nat /\ i \in Nat /\ \A j \in 1..Len(s) : s[j] \in S
  BY ElementOfSeq, LenProperties
<1>2. a \in Seq(S) /\ Len(a) = i - 1 /\ \A j \in 1..(i-1) : a[j] = s[j]
  BY <1>1, SubSeqProperties
<1>3. c \in Seq(S) /\ Len(c) = Len(s) - i + 1
      /\ \A j \in 1..(Len(s) - i + 1) : c[j] = s[i + j - 1]
  BY <1>1, SubSeqProperties
<1>4. <<e>> \in Seq(S) /\ Len(<<e>>) = 1 /\ <<e>>[1] = e
  OBVIOUS
<1> HIDE DEF a, c
<1>5. b \in Seq(S) /\ Len(b) = i
      /\ \A j \in 1..i : b[j] = IF j < i THEN s[j] ELSE e
  BY <1>1, <1>2, <1>4, ConcatProperties
<1> HIDE DEF b
<1>6. /\ b \o c \in Seq(S)
      /\ Len(b \o c) = Len(s) + 1
      /\ \A j \in 1..(Len(s) + 1) :
           (b \o c)[j] = IF j <= i THEN b[j] ELSE c[j - i]
  <2>1. /\ b \o c \in Seq(S)
        /\ Len(b \o c) = Len(b) + Len(c)
        /\ \A j \in 1..(Len(b) + Len(c)) :
             (b \o c)[j] = IF j <= Len(b) THEN b[j] ELSE c[j - Len(b)]
    BY <1>3, <1>5, ConcatProperties
  <2>2. Len(b) = i /\ Len(b) + Len(c) = Len(s) + 1
    BY <1>1, <1>3, <1>5
  <2> QED BY <2>1, <2>2
<1>7. InsertAt(s, i, e) = b \o c
  BY DEF InsertAt, a, b, c
<1> QED BY <1>1, <1>3, <1>5, <1>6, <1>7

(* RemoveAt drops position i and moves the rest down.                      *)
LEMMA RemoveAtElements ==
  ASSUME NEW S, NEW s \in Seq(S), NEW i \in 1..Len(s)
  PROVE  /\ RemoveAt(s, i) \in Seq(S)
         /\ Len(RemoveAt(s, i)) = Len(s) - 1
         /\ \A j \in 1..(Len(s) - 1) :
              RemoveAt(s, i)[j] = IF j < i THEN s[j] ELSE s[j + 1]
<1> DEFINE a == SubSeq(s, 1, i-1)
           c == SubSeq(s, i+1, Len(s))
<1>1. Len(s) \in Nat /\ i \in Nat /\ \A j \in 1..Len(s) : s[j] \in S
  BY ElementOfSeq, LenProperties
<1>2. a \in Seq(S) /\ Len(a) = i - 1 /\ \A j \in 1..(i-1) : a[j] = s[j]
  BY <1>1, SubSeqProperties
<1>3. c \in Seq(S) /\ Len(c) = Len(s) - i
      /\ \A j \in 1..(Len(s) - i) : c[j] = s[i + j]
  BY <1>1, SubSeqProperties
<1> HIDE DEF a, c
<1>4. /\ a \o c \in Seq(S)
      /\ Len(a \o c) = Len(s) - 1
      /\ \A j \in 1..(Len(s) - 1) :
           (a \o c)[j] = IF j <= i - 1 THEN a[j] ELSE c[j - (i - 1)]
  BY <1>1, <1>2, <1>3, ConcatProperties
<1>5. RemoveAt(s, i) = a \o c
  BY DEF RemoveAt, a, c
<1> QED BY <1>1, <1>2, <1>3, <1>4, <1>5

-----------------------------------------------------------------------------
(* Lists. *)

(* The entries of a list: their keys are integers, their values are not    *)
(* NULL.                                                                   *)
LEMMA ListEntries ==
  ASSUME NEW l \in List
  PROVE  /\ l = [head |-> l.head, size |-> l.size]
         /\ l.head \in Seq(Entry)
         /\ l.size \in Int
         /\ Len(l.head) \in Nat
         /\ \A i \in 1..Len(l.head) : /\ l.head[i] \in Entry
                                      /\ l.head[i].key \in Key
                                      /\ l.head[i].key \in Int
                                      /\ l.head[i].value \in Value
                                      /\ l.head[i].value # NULL
<1>1. /\ l = [head |-> l.head, size |-> l.size]
      /\ l.head \in Seq(Entry)
      /\ l.size \in Int
  BY DEF List
<1>2. Len(l.head) \in Nat
  BY <1>1, LenProperties
<1>3. \A i \in 1..Len(l.head) : l.head[i] \in Entry
  BY <1>1, ElementOfSeq
<1> QED BY <1>1, <1>2, <1>3, TableAssumption DEF Entry

(* In a sorted list a key has at most one node, and list_get returns the   *)
(* value of that node.                                                     *)
LEMMA GetNode ==
  ASSUME NEW l \in List, SortedList(l), NEW i \in 1..Len(l.head)
  PROVE  /\ NodesOf(l, l.head[i].key) = {i}
         /\ Min(NodesOf(l, l.head[i].key)) = i
         /\ list_get(l, l.head[i].key) = l.head[i].value
<1>1. Len(l.head) \in Nat /\ i \in Nat
  BY ListEntries
<1>2. \A j \in 1..Len(l.head) : j # i => l.head[j].key # l.head[i].key
  <2>1. SUFFICES ASSUME NEW j \in 1..Len(l.head), j # i
                 PROVE  l.head[j].key # l.head[i].key
    OBVIOUS
  <2>2. l.head[j].key \in Int /\ l.head[i].key \in Int
    BY ListEntries
  <2>3. j < i \/ i < j
    BY <1>1, <2>1
  <2> QED BY <2>2, <2>3 DEF SortedList
<1>3. NodesOf(l, l.head[i].key) = {i}
  BY <1>2 DEF NodesOf
<1>4. Min({i}) = i
  <2>1. {i} \subseteq Nat /\ {i} # {}
    BY <1>1
  <2>2. Min({i}) \in {i}
    BY <2>1, LeastElement
  <2> QED BY <2>2
<1> QED BY <1>3, <1>4 DEF list_get

(* list_get returns NULL exactly when no node holds the key.               *)
LEMMA GetNull ==
  ASSUME NEW l \in List, SortedList(l), NEW k
  PROVE  (list_get(l, k) = NULL)
           <=> (\A i \in 1..Len(l.head) : l.head[i].key # k)
<1>1. CASE \A i \in 1..Len(l.head) : l.head[i].key # k
  BY <1>1 DEF list_get, NodesOf
<1>2. CASE \E i \in 1..Len(l.head) : l.head[i].key = k
  BY <1>2, GetNode, ListEntries
<1> QED BY <1>1, <1>2

(* What list_get returns is a value or NULL.                               *)
LEMMA GetType ==
  ASSUME NEW l \in List, SortedList(l), NEW k
  PROVE  list_get(l, k) \in Value \cup {NULL}
<1>1. CASE \A i \in 1..Len(l.head) : l.head[i].key # k
  BY <1>1, GetNull
<1>2. CASE \E i \in 1..Len(l.head) : l.head[i].key = k
  BY <1>2, GetNode, ListEntries
<1> QED BY <1>1, <1>2

(* The walk of list_add in a sorted list ends in one of two ways: the new  *)
(* entry is linked between the smaller keys and the larger ones, or it     *)
(* replaces the entry with the same key.                                   *)
LEMMA AddPosition ==
  ASSUME NEW l \in List, SortedList(l), NEW e \in Entry
  PROVE  \/ \E p \in 1..(Len(l.head) + 1) :
              /\ \A j \in 1..Len(l.head) : j < p => l.head[j].key < e.key
              /\ \A j \in 1..Len(l.head) : p <= j => e.key < l.head[j].key
              /\ list_add(l, e) = [list |-> Linked(l, p, e), ret |-> 0]
         \/ \E p \in 1..Len(l.head) :
              /\ l.head[p].key = e.key
              /\ list_add(l, e) = [list |-> Overwritten(l, p, e), ret |-> 1]
<1> DEFINE n == l.head
           last == Len(n)
           at == IF Stops(n, e) # {} THEN Min(Stops(n, e)) ELSE last
<1>1. /\ last \in Nat
      /\ e.key \in Int
      /\ \A i \in 1..last : n[i].key \in Int
  BY ListEntries, TableAssumption DEF Entry
<1>2. \A i, j \in 1..last : i < j => n[i].key < n[j].key
  BY DEF SortedList
<1>3. (n = <<>>) <=> (last = 0)
  BY ListEntries, EmptySeq
<1>4. CASE n = <<>> \/ e.key < n[1].key
  <2>1. list_add(l, e) = [list |-> Linked(l, 1, e), ret |-> 0]
    BY <1>4 DEF list_add
  <2>2. \A j \in 1..last : e.key < n[j].key
    <3>1. CASE n = <<>>
      BY <3>1, <1>3
    <3>2. CASE n # <<>> /\ e.key < n[1].key
      <4>1. SUFFICES ASSUME NEW j \in 1..last PROVE e.key < n[j].key
        OBVIOUS
      <4>2. 1 \in 1..last /\ (j = 1 \/ 1 < j)
        BY <1>1
      <4>3. n[1].key \in Int /\ n[j].key \in Int
        BY <1>1, <4>2
      <4>4. j = 1 \/ n[1].key < n[j].key
        BY <1>2, <4>2
      <4> QED BY <1>1, <3>2, <4>3, <4>4
    <3> QED BY <1>4, <3>1, <3>2
  <2>3. 1 \in 1..(last + 1) /\ \A j \in 1..last : ~ (j < 1)
    BY <1>1
  <2> QED BY <2>1, <2>2, <2>3
<1>5. CASE ~ (n = <<>> \/ e.key < n[1].key)
  <2>1. 1 \in 1..last /\ last \in 1..last /\ last >= 1
    BY <1>1, <1>3, <1>5
  <2>2. at \in 1..last
    <3>1. Stops(n, e) \subseteq 1..last /\ Stops(n, e) \subseteq Nat
      BY <1>1 DEF Stops
    <3> QED BY <2>1, <3>1, LeastElement
  <2>3. list_add(l, e) = IF e.key = n[at].key
                         THEN [list |-> Overwritten(l, at, e), ret |-> 1]
                         ELSE [list |-> Linked(l, at + 1, e), ret |-> 0]
    BY <1>5 DEF list_add
  <2> HIDE DEF at
  <2>4. CASE e.key = n[at].key
    BY <2>2, <2>3, <2>4
  <2>5. CASE e.key # n[at].key
    <3>1. /\ n[at].key < e.key
          /\ at # last => e.key < n[at + 1].key
      <4>1. CASE Stops(n, e) # {}
        <5>1. Stops(n, e) \subseteq Nat
          BY <1>1 DEF Stops
        <5>2. at \in Stops(n, e) /\ \A y \in Stops(n, e) : at <= y
          BY <4>1, <5>1, LeastElement DEF at
        <5>3. at \in 1..(last - 1) /\ e.key < n[at + 1].key
          BY <5>2, <2>5 DEF Stops
        <5>4. CASE at = 1
          BY <1>1, <1>5, <2>1, <2>5, <5>3, <5>4
        <5>5. CASE at # 1
          <6>1. at - 1 \in 1..(last - 1) /\ at - 1 \notin Stops(n, e)
            BY <1>1, <5>2, <5>3, <5>5
          <6>2. ~ (e.key < n[(at - 1) + 1].key)
            BY <6>1 DEF Stops
          <6>3. (at - 1) + 1 = at
            BY <5>3, <1>1
          <6> QED BY <1>1, <2>2, <2>5, <5>3, <6>2, <6>3
        <5> QED BY <5>4, <5>5
      <4>2. CASE Stops(n, e) = {}
        <5>1. at = last
          BY <4>2 DEF at
        <5>2. CASE last = 1
          BY <1>1, <1>5, <2>1, <2>5, <5>1, <5>2
        <5>3. CASE last # 1
          <6>1. last - 1 \in 1..(last - 1) /\ (last - 1) + 1 = last
            <7> HIDE DEF last
            <7> QED BY <1>1, <2>1, <5>3
          <6>2. ~ (e.key < n[(last - 1) + 1].key)
            BY <4>2, <6>1 DEF Stops
          <6> QED BY <1>1, <2>1, <2>5, <5>1, <6>1, <6>2
        <5> QED BY <5>2, <5>3
      <4> QED BY <4>1, <4>2
    <3>2. at + 1 \in 1..(last + 1)
      BY <1>1, <2>2
    <3>3. \A j \in 1..last : j < at + 1 => n[j].key < e.key
      <4>1. SUFFICES ASSUME NEW j \in 1..last, j < at + 1
                     PROVE  n[j].key < e.key
        OBVIOUS
      <4>2. j = at \/ n[j].key < n[at].key
        BY <1>1, <1>2, <2>2, <4>1
      <4> QED BY <1>1, <2>2, <3>1, <4>2
    <3>4. \A j \in 1..last : at + 1 <= j => e.key < n[j].key
      <4>1. SUFFICES ASSUME NEW j \in 1..last, at + 1 <= j
                     PROVE  e.key < n[j].key
        OBVIOUS
      <4>2. at + 1 \in 1..last /\ at # last
        BY <1>1, <2>2, <4>1
      <4>3. j = at + 1 \/ n[at + 1].key < n[j].key
        BY <1>1, <1>2, <4>1, <4>2
      <4>4. e.key < n[at + 1].key
        BY <3>1, <4>2
      <4> QED BY <1>1, <4>2, <4>3, <4>4
    <3>5. list_add(l, e) = [list |-> Linked(l, at + 1, e), ret |-> 0]
      BY <2>3, <2>5
    <3> QED BY <3>2, <3>3, <3>4, <3>5
  <2> QED BY <2>4, <2>5
<1> QED BY <1>4, <1>5

(* Linking an entry between the smaller and the larger keys keeps the list *)
(* sorted and changes the value of its own key only.                       *)
LEMMA LinkedList ==
  ASSUME NEW slot, NEW l \in List, WellFormedList(l, slot),
         NEW e \in Entry, Hash[e.key] = slot,
         NEW p \in 1..(Len(l.head) + 1),
         \A j \in 1..Len(l.head) : j < p => l.head[j].key < e.key,
         \A j \in 1..Len(l.head) : p <= j => e.key < l.head[j].key
  PROVE  /\ Linked(l, p, e) \in List
         /\ WellFormedList(Linked(l, p, e), slot)
         /\ \A k : list_get(Linked(l, p, e), k)
                     = IF k = e.key THEN e.value ELSE list_get(l, k)
<1> DEFINE n == l.head
           m == Linked(l, p, e)
           h == InsertAt(n, p, e)
<1>1. /\ l.size = Len(n) /\ Len(n) \in Nat /\ n \in Seq(Entry) /\ SortedList(l)
      /\ p \in 1..(Len(n) + 1) /\ p \in Nat
      /\ e.key \in Int
      /\ \A j \in 1..Len(n) : n[j].key \in Int
      /\ \A a, b \in 1..Len(n) : a < b => n[a].key < n[b].key
      /\ \A j \in 1..Len(n) : Hash[n[j].key] = slot
      /\ \A j \in 1..Len(n) : j < p => n[j].key < e.key
      /\ \A j \in 1..Len(n) : p <= j => e.key < n[j].key
  <2>1. /\ Len(n) \in Nat /\ n \in Seq(Entry)
        /\ \A j \in 1..Len(n) : n[j].key \in Int
    BY ListEntries
  <2>2. /\ l.size = Len(n) /\ SortedList(l)
        /\ \A j \in 1..Len(n) : Hash[n[j].key] = slot
    BY DEF WellFormedList
  <2>3. \A a, b \in 1..Len(n) : a < b => n[a].key < n[b].key
    BY <2>2 DEF SortedList
  <2>4. e.key \in Int
    BY TableAssumption DEF Entry
  <2>5. p \in Nat
    BY <2>1
  <2> QED BY <2>1, <2>2, <2>3, <2>4, <2>5
<1>2. m = [head |-> h, size |-> l.size + 1] /\ m.head = h
  BY DEF Linked
<1>3. /\ h \in Seq(Entry)
      /\ Len(h) = Len(n) + 1
      /\ \A j \in 1..(Len(n) + 1) :
           h[j] = IF j < p THEN n[j] ELSE IF j = p THEN e ELSE n[j - 1]
  <2> HIDE DEF n
  <2> QED BY <1>1, InsertAtElements
<1>0. l.head = n
  OBVIOUS
<1> HIDE DEF n, m, h
<1>4. m \in List
  BY <1>1, <1>2, <1>3 DEF List
<1>5. SortedList(m)
  <2>1. SUFFICES ASSUME NEW i \in 1..Len(h), NEW j \in 1..Len(h), i < j
                 PROVE  h[i].key < h[j].key
    BY <1>2 DEF SortedList
  <2>3. i \in 1..(Len(n) + 1) /\ j \in 1..(Len(n) + 1)
    BY <2>1, <1>3
  <2>4. CASE j < p
    <3>1. i \in 1..Len(n) /\ j \in 1..Len(n) /\ i < p
      BY <1>1, <2>1, <2>3, <2>4
    <3>2. h[i] = n[i] /\ h[j] = n[j]
      BY <1>3, <2>3, <2>4, <3>1
    <3>3. n[i].key < n[j].key
      BY <1>1, <2>1, <3>1
    <3> QED BY <3>2, <3>3
  <2>5. CASE j = p
    <3>1. i \in 1..Len(n) /\ i < p
      BY <1>1, <2>1, <2>3, <2>5
    <3>2. h[i] = n[i] /\ h[j] = e
      BY <1>3, <2>3, <2>5, <3>1
    <3>3. n[i].key < e.key
      BY <1>1, <3>1
    <3> QED BY <3>2, <3>3
  <2>6. CASE p < j /\ i < p
    <3>2. h[i] = n[i] /\ h[j] = n[j - 1]
      BY <1>1, <1>3, <2>3, <2>6
    <3>3. p <= j - 1 /\ j - 1 \in 1..Len(n) /\ i \in 1..Len(n)
      BY <1>1, <2>3, <2>6
    <3>4. n[i].key < e.key /\ e.key < n[j - 1].key
      BY <1>1, <2>6, <3>3
    <3>5. n[i].key \in Int /\ e.key \in Int /\ n[j - 1].key \in Int
      BY <1>1, <3>3
    <3>6. n[i].key < n[j - 1].key
      BY <3>4, <3>5
    <3> QED BY <3>2, <3>6
  <2>7. CASE p < j /\ i = p
    <3>1. j - 1 \in 1..Len(n) /\ p <= j - 1
      BY <1>1, <2>3, <2>7
    <3>2. h[i] = e /\ h[j] = n[j - 1]
      BY <1>1, <1>3, <2>3, <2>7
    <3> QED BY <1>1, <3>1, <3>2
  <2>8. CASE p < i
    <3>1. i - 1 \in 1..Len(n) /\ j - 1 \in 1..Len(n) /\ i - 1 < j - 1
      BY <1>1, <2>1, <2>3, <2>8
    <3>2. h[i] = n[i - 1] /\ h[j] = n[j - 1]
      BY <1>1, <1>3, <2>1, <2>3, <2>8
    <3> QED BY <1>1, <3>1, <3>2
  <2> QED BY <1>1, <2>1, <2>3, <2>4, <2>5, <2>6, <2>7, <2>8
<1>6. \A j \in 1..Len(h) : Hash[h[j].key] = slot
  <2>1. SUFFICES ASSUME NEW j \in 1..(Len(n) + 1) PROVE Hash[h[j].key] = slot
    BY <1>3
  <2>3. CASE j < p
    <3>1. j \in 1..Len(n) /\ h[j] = n[j]
      BY <1>1, <1>3, <2>3
    <3> QED BY <1>1, <3>1
  <2>4. CASE j = p
    <3>1. h[j] = e
      BY <1>1, <1>3, <2>4
    <3> QED BY <3>1
  <2>5. CASE p < j
    <3>1. j - 1 \in 1..Len(n) /\ h[j] = n[j - 1]
      BY <1>1, <1>3, <2>5
    <3> QED BY <1>1, <3>1
  <2> QED BY <1>1, <2>3, <2>4, <2>5
<1>7. WellFormedList(m, slot)
  BY <1>1, <1>2, <1>3, <1>5, <1>6 DEF WellFormedList
<1>8. ASSUME NEW k
      PROVE  list_get(m, k) = IF k = e.key THEN e.value ELSE list_get(l, k)
  <2>1. CASE k = e.key
    <3>1. p \in 1..Len(h) /\ h[p] = e
      BY <1>1, <1>3
    <3> QED BY <2>1, <3>1, <1>2, <1>4, <1>5, GetNode
  <2>2. CASE k # e.key /\ \E j \in 1..Len(n) : n[j].key = k
    <3>1. PICK j \in 1..Len(n) : n[j].key = k
      BY <2>2
    <3>2. list_get(l, k) = n[j].value
      BY <3>1, <1>0, <1>1, GetNode
    <3>3. PICK i \in 1..Len(h) : h[i] = n[j]
      <4>1. CASE j < p
        BY <1>1, <1>3, <4>1
      <4>2. CASE p <= j
        <5>1. j + 1 \in 1..(Len(n) + 1) /\ (j + 1) - 1 = j
              /\ ~ (j + 1 < p) /\ j + 1 # p
          BY <1>1, <4>2
        <5> QED BY <1>3, <5>1
      <4> QED BY <1>1, <4>1, <4>2
    <3>4. list_get(m, h[i].key) = h[i].value
      BY <1>2, <1>4, <1>5, GetNode
    <3> QED BY <2>2, <3>1, <3>2, <3>3, <3>4
  <2>3. CASE k # e.key /\ \A j \in 1..Len(n) : n[j].key # k
    <3>1. list_get(l, k) = NULL
      BY <2>3, <1>0, <1>1, GetNull
    <3>2. \A i \in 1..Len(h) : h[i].key # k
      <4>1. SUFFICES ASSUME NEW i \in 1..(Len(n) + 1) PROVE h[i].key # k
        BY <1>3
      <4>2. i < p \/ i = p \/ p < i
        BY <1>1
      <4>3. CASE p < i
        <5>1. i - 1 \in 1..Len(n) /\ h[i] = n[i - 1]
          BY <1>1, <1>3, <4>3
        <5> QED BY <2>3, <5>1
      <4>4. CASE i = p
        BY <1>1, <1>3, <2>3, <4>4
      <4>5. CASE i < p
        <5>1. i \in 1..Len(n) /\ h[i] = n[i]
          BY <1>1, <1>3, <4>5
        <5> QED BY <2>3, <5>1
      <4> QED BY <4>2, <4>3, <4>4, <4>5
    <3>3. list_get(m, k) = NULL
      BY <3>2, <1>2, <1>4, <1>5, GetNull
    <3> QED BY <2>3, <3>1, <3>3
  <2> QED BY <2>1, <2>2, <2>3
<1> QED BY <1>4, <1>7, <1>8 DEF m

(* Replacing the entry of the node that holds the key keeps the list       *)
(* sorted and changes the value of that key only.                          *)
LEMMA OverwrittenList ==
  ASSUME NEW slot, NEW l \in List, WellFormedList(l, slot),
         NEW e \in Entry, NEW p \in 1..Len(l.head), l.head[p].key = e.key
  PROVE  /\ Overwritten(l, p, e) \in List
         /\ WellFormedList(Overwritten(l, p, e), slot)
         /\ \A k : list_get(Overwritten(l, p, e), k)
                     = IF k = e.key THEN e.value ELSE list_get(l, k)
<1> DEFINE n == l.head
           m == Overwritten(l, p, e)
           h == [n EXCEPT ![p] = e]
<1>1. /\ n \in Seq(Entry) /\ SortedList(l) /\ p \in 1..Len(n)
      /\ n[p].key = e.key
      /\ l.size = Len(n)
      /\ \A a, b \in 1..Len(n) : a < b => n[a].key < n[b].key
      /\ \A j \in 1..Len(n) : Hash[n[j].key] = slot
  BY ListEntries DEF WellFormedList, SortedList
<1>2. m = [head |-> h, size |-> l.size] /\ m.head = h
  <2>1. l = [head |-> n, size |-> l.size]
    BY DEF List
  <2>2. m = [l EXCEPT !.head = h]
    BY DEF Overwritten, ReplaceAt
  <2> HIDE DEF m, n, h
  <2> QED BY <2>1, <2>2
<1>3. l.head = n
  OBVIOUS
<1>4. /\ h \in Seq(Entry)
      /\ Len(h) = Len(n)
      /\ \A j \in 1..Len(n) : h[j] = IF j = p THEN e ELSE n[j]
  <2> HIDE DEF n
  <2> QED BY <1>1, ExceptSeq
<1> HIDE DEF n, m, h
<1>5. \A j \in 1..Len(n) : h[j].key = n[j].key
  BY <1>1, <1>4
<1>6. m \in List
  BY <1>2, <1>4, ListEntries DEF List
<1>7. WellFormedList(m, slot)
  BY <1>1, <1>2, <1>4, <1>5 DEF WellFormedList, SortedList
<1>8. SortedList(m)
  BY <1>7 DEF WellFormedList
<1>9. ASSUME NEW k
      PROVE  list_get(m, k) = IF k = e.key THEN e.value ELSE list_get(l, k)
  <2>1. CASE k = e.key
    BY <2>1, <1>1, <1>2, <1>4, <1>6, <1>8, GetNode
  <2>2. CASE k # e.key /\ \E j \in 1..Len(n) : n[j].key = k
    <3>1. PICK j \in 1..Len(n) : n[j].key = k
      BY <2>2
    <3>2. j # p /\ h[j] = n[j]
      BY <1>1, <1>4, <2>2, <3>1
    <3>3. list_get(l, k) = n[j].value
      BY <1>1, <1>3, <3>1, GetNode
    <3>4. list_get(m, k) = h[j].value
      BY <1>2, <1>4, <1>5, <1>6, <1>8, <3>1, GetNode
    <3> QED BY <2>2, <3>2, <3>3, <3>4
  <2>3. CASE k # e.key /\ \A j \in 1..Len(n) : n[j].key # k
    <3>1. list_get(l, k) = NULL
      BY <2>3, <1>1, <1>3, GetNull
    <3>2. \A j \in 1..Len(h) : h[j].key # k
      BY <2>3, <1>4
    <3>3. list_get(m, k) = NULL
      BY <1>2, <1>6, <1>8, <3>2, GetNull
    <3> QED BY <2>3, <3>1, <3>3
  <2> QED BY <2>1, <2>2, <2>3
<1> QED BY <1>6, <1>7, <1>9 DEF m

(* Unlinking a node keeps the list sorted and unbinds its key only.        *)
LEMMA UnlinkedList ==
  ASSUME NEW slot, NEW l \in List, WellFormedList(l, slot),
         NEW p \in 1..Len(l.head)
  PROVE  /\ Unlinked(l, p) \in List
         /\ WellFormedList(Unlinked(l, p), slot)
         /\ \A k : list_get(Unlinked(l, p), k)
                     = IF k = l.head[p].key THEN NULL ELSE list_get(l, k)
<1> DEFINE n == l.head
           m == Unlinked(l, p)
           h == RemoveAt(n, p)
<1>1. /\ l.size = Len(n) /\ Len(n) \in Nat /\ n \in Seq(Entry) /\ SortedList(l)
      /\ p \in 1..Len(n)
      /\ \A j \in 1..Len(n) : n[j].key \in Int
      /\ \A a, b \in 1..Len(n) : a < b => n[a].key < n[b].key
      /\ \A j \in 1..Len(n) : Hash[n[j].key] = slot
  BY ListEntries DEF WellFormedList, SortedList
<1>2. m = [head |-> h, size |-> l.size - 1] /\ m.head = h
  BY DEF Unlinked
<1>3. l.head = n
  OBVIOUS
<1>4. /\ h \in Seq(Entry)
      /\ Len(h) = Len(n) - 1
      /\ \A j \in 1..(Len(n) - 1) : h[j] = IF j < p THEN n[j] ELSE n[j + 1]
  <2> HIDE DEF n
  <2>1. n \in Seq(Entry) /\ p \in 1..Len(n)
    BY <1>1
  <2> QED BY <2>1, RemoveAtElements
<1> HIDE DEF n, m, h
(* Every node of the new list is the node `from(j)' of the old one, which  *)
(* is not the removed one.                                                 *)
<1> DEFINE from(j) == IF j < p THEN j ELSE j + 1
<1>5. \A j \in 1..Len(h) : from(j) \in 1..Len(n) /\ from(j) # p
                           /\ h[j] = n[from(j)]
  BY <1>1, <1>4
<1>6. \A i, j \in 1..Len(h) : i < j => from(i) < from(j)
  BY <1>1, <1>4
<1> HIDE DEF from
<1>7. m \in List
  BY <1>1, <1>2, <1>4 DEF List
<1>8. SortedList(m)
  <2>1. SUFFICES ASSUME NEW i \in 1..Len(h), NEW j \in 1..Len(h), i < j
                 PROVE  h[i].key < h[j].key
    BY <1>2 DEF SortedList
  <2>2. from(i) \in 1..Len(n) /\ from(j) \in 1..Len(n) /\ from(i) < from(j)
    BY <1>5, <1>6, <2>1
  <2>3. n[from(i)].key < n[from(j)].key
    BY <1>1, <2>2
  <2> QED BY <1>5, <2>3
<1>9. WellFormedList(m, slot)
  <2>1. \A j \in 1..Len(h) : Hash[h[j].key] = slot
    BY <1>1, <1>5
  <2> QED BY <1>1, <1>2, <1>4, <1>8, <2>1 DEF WellFormedList
<1>10. ASSUME NEW k
       PROVE  list_get(m, k) = IF k = n[p].key THEN NULL ELSE list_get(l, k)
  <2>1. CASE \A j \in 1..Len(n) : n[j].key # k
    <3>1. \A j \in 1..Len(h) : h[j].key # k
      BY <2>1, <1>5
    <3> QED BY <2>1, <3>1, <1>1, <1>2, <1>3, <1>7, <1>8, GetNull
  <2>2. CASE k = n[p].key
    <3>1. \A j \in 1..Len(h) : h[j].key # k
      <4>1. SUFFICES ASSUME NEW j \in 1..Len(h) PROVE n[from(j)].key # n[p].key
        BY <1>5, <2>2
      <4>2. from(j) \in 1..Len(n) /\ (from(j) < p \/ p < from(j))
        BY <1>1, <1>5
      <4> QED BY <1>1, <4>2
    <3> QED BY <2>2, <3>1, <1>2, <1>7, <1>8, GetNull
  <2>3. CASE k # n[p].key /\ \E j \in 1..Len(n) : n[j].key = k
    <3>1. PICK j \in 1..Len(n) : n[j].key = k /\ j # p
      BY <2>3
    <3>2. PICK i \in 1..Len(h) : from(i) = j
      <4>1. CASE j < p
        <5>1. j \in 1..Len(h) /\ from(j) = j
          BY <1>1, <1>4, <4>1 DEF from
        <5> QED BY <5>1
      <4>2. CASE p < j
        <5>1. j - 1 \in 1..Len(h) /\ from(j - 1) = j
          BY <1>1, <1>4, <4>2 DEF from
        <5> QED BY <5>1
      <4> QED BY <1>1, <3>1, <4>1, <4>2
    <3>3. h[i] = n[j]
      BY <1>5, <3>2
    <3>4. list_get(l, k) = n[j].value
      BY <1>1, <1>3, <3>1, GetNode
    <3>5. list_get(m, k) = h[i].value
      BY <1>2, <1>7, <1>8, <3>1, <3>3, GetNode
    <3> QED BY <2>3, <3>3, <3>4, <3>5
  <2> QED BY <2>1, <2>2, <2>3, <1>1
<1> QED BY <1>3, <1>7, <1>9, <1>10 DEF m

(* list_add on a well-formed list: the result is well formed, the new      *)
(* entry is the one list_get finds under its key, the other keys keep      *)
(* theirs, and the return value says whether the key was bound.            *)
LEMMA ListAdd ==
  ASSUME NEW slot, NEW l \in List, WellFormedList(l, slot),
         NEW e \in Entry, Hash[e.key] = slot
  PROVE  /\ list_add(l, e).list \in List
         /\ WellFormedList(list_add(l, e).list, slot)
         /\ \A k : list_get(list_add(l, e).list, k)
                     = IF k = e.key THEN e.value ELSE list_get(l, k)
         /\ list_add(l, e).ret
              = IF list_get(l, e.key) = NULL THEN 0 ELSE 1
<1>1. SortedList(l)
  BY DEF WellFormedList
<1>2. /\ Len(l.head) \in Nat
      /\ e.key \in Int
      /\ \A j \in 1..Len(l.head) : l.head[j].key \in Int
  BY ListEntries, TableAssumption DEF Entry
<1>3. CASE \E p \in 1..(Len(l.head) + 1) :
             /\ \A j \in 1..Len(l.head) : j < p => l.head[j].key < e.key
             /\ \A j \in 1..Len(l.head) : p <= j => e.key < l.head[j].key
             /\ list_add(l, e) = [list |-> Linked(l, p, e), ret |-> 0]
  <2>1. PICK p \in 1..(Len(l.head) + 1) :
             /\ \A j \in 1..Len(l.head) : j < p => l.head[j].key < e.key
             /\ \A j \in 1..Len(l.head) : p <= j => e.key < l.head[j].key
             /\ list_add(l, e) = [list |-> Linked(l, p, e), ret |-> 0]
    BY <1>3
  <2>2. \A j \in 1..Len(l.head) : l.head[j].key # e.key
    <3>1. SUFFICES ASSUME NEW j \in 1..Len(l.head)
                   PROVE  l.head[j].key # e.key
      OBVIOUS
    <3>2. j < p \/ p <= j
      BY <1>2
    <3>3. l.head[j].key < e.key \/ e.key < l.head[j].key
      BY <2>1, <3>2
    <3> QED BY <1>2, <3>3
  <2>3. list_get(l, e.key) = NULL
    BY <1>1, <2>2, GetNull
  <2>4. list_add(l, e).list = Linked(l, p, e) /\ list_add(l, e).ret = 0
    BY <2>1
  <2> QED BY <2>1, <2>3, <2>4, LinkedList
<1>4. CASE \E p \in 1..Len(l.head) :
             /\ l.head[p].key = e.key
             /\ list_add(l, e) = [list |-> Overwritten(l, p, e), ret |-> 1]
  <2>1. PICK p \in 1..Len(l.head) :
             /\ l.head[p].key = e.key
             /\ list_add(l, e) = [list |-> Overwritten(l, p, e), ret |-> 1]
    BY <1>4
  <2>2. list_get(l, e.key) # NULL
    BY <1>1, <2>1, GetNull
  <2>3. list_add(l, e).list = Overwritten(l, p, e) /\ list_add(l, e).ret = 1
    BY <2>1
  <2> QED BY <2>1, <2>2, <2>3, OverwrittenList
<1> QED BY <1>1, <1>3, <1>4, AddPosition

(* list_remove on a well-formed list: the result is well formed, the key   *)
(* is unbound, the other keys keep their values; the return value says     *)
(* whether the key was bound, and the call does not return when the list   *)
(* is empty.                                                               *)
LEMMA ListRemove ==
  ASSUME NEW slot, NEW l \in List, WellFormedList(l, slot), NEW key
  PROVE  /\ list_remove(l, key).list \in List
         /\ WellFormedList(list_remove(l, key).list, slot)
         /\ \A k : list_get(list_remove(l, key).list, k)
                     = IF k = key THEN NULL ELSE list_get(l, k)
         /\ list_remove(l, key).ret
              = IF l.head = <<>> THEN SEGV
                ELSE IF list_get(l, key) = NULL THEN 1 ELSE 0
<1>1. SortedList(l) /\ Len(l.head) \in Nat
  BY ListEntries DEF WellFormedList
<1>2. CASE l.head = <<>>
  <2>1. list_remove(l, key) = [list |-> l, ret |-> SEGV]
    BY <1>2 DEF list_remove
  <2>2. \A i \in 1..Len(l.head) : l.head[i].key # key
    BY <1>2
  <2>3. list_get(l, key) = NULL
    BY <1>1, <2>2, GetNull
  <2> QED BY <1>2, <2>1, <2>3
<1>3. CASE l.head # <<>> /\ NodesOf(l, key) = {}
  <2>1. list_remove(l, key) = [list |-> l, ret |-> 1]
    BY <1>3 DEF list_remove
  <2>2. list_get(l, key) = NULL
    BY <1>3 DEF list_get
  <2> QED BY <1>3, <2>1, <2>2
<1>4. CASE l.head # <<>> /\ NodesOf(l, key) # {}
  <2>1. PICK p \in 1..Len(l.head) : l.head[p].key = key
    BY <1>4 DEF NodesOf
  <2>2. Min(NodesOf(l, key)) = p
    BY <1>1, <2>1, GetNode
  <2>3. list_remove(l, key) = [list |-> Unlinked(l, p), ret |-> 0]
    BY <1>4, <2>2 DEF list_remove
  <2>4. list_get(l, key) # NULL
    BY <1>1, <2>1, GetNull
  <2> QED BY <1>4, <2>1, <2>3, <2>4, UnlinkedList
<1> QED BY <1>2, <1>3, <1>4

-----------------------------------------------------------------------------
(* Lists in any order, with any counter: what insertions that overlapped   *)
(* may have left.                                                          *)

(* list_get finds every key that a node holds, and no other.               *)
LEMMA GetPresent ==
  ASSUME NEW l \in List, NEW k
  PROVE  list_get(l, k) # NULL <=> k \in KeysOf(l)
<1>1. CASE NodesOf(l, k) = {}
  BY <1>1 DEF list_get, NodesOf, KeysOf
<1>2. CASE NodesOf(l, k) # {}
  <2>1. NodesOf(l, k) \subseteq Nat
    BY ListEntries DEF NodesOf
  <2>2. Min(NodesOf(l, k)) \in NodesOf(l, k)
    BY <1>2, <2>1, LeastElement
  <2>3. Min(NodesOf(l, k)) \in 1..Len(l.head) /\ l.head[Min(NodesOf(l, k))].key = k
    BY <2>2 DEF NodesOf
  <2>4. l.head[Min(NodesOf(l, k))].value # NULL
    BY <2>3, ListEntries
  <2> QED BY <1>2, <2>3, <2>4 DEF list_get, KeysOf
<1> QED BY <1>1, <1>2

(* Linking an entry anywhere keeps every key and adds its own.             *)
LEMMA LinkedKeys ==
  ASSUME NEW l \in List, NEW e \in Entry, NEW p \in 1..(Len(l.head) + 1)
  PROVE  /\ Linked(l, p, e) \in List
         /\ KeysOf(Linked(l, p, e)) = KeysOf(l) \cup {e.key}
<1> DEFINE n == l.head
           h == InsertAt(n, p, e)
<1>1. n \in Seq(Entry) /\ Len(n) \in Nat /\ l.size \in Int /\ p \in 1..(Len(n) + 1)
  BY ListEntries
<1>2. /\ h \in Seq(Entry) /\ Len(h) = Len(n) + 1
      /\ \A j \in 1..(Len(n) + 1) : h[j] = IF j < p THEN n[j] ELSE IF j = p THEN e ELSE n[j - 1]
  <2> HIDE DEF n
  <2> QED BY <1>1, InsertAtElements
<1>3. Linked(l, p, e) = [head |-> h, size |-> l.size + 1]
  BY DEF Linked
<1>4. KeysOf(l) = {n[i].key : i \in 1..Len(n)}
      /\ KeysOf(Linked(l, p, e)) = {h[i].key : i \in 1..Len(h)}
  BY <1>3 DEF KeysOf
<1> HIDE DEF n, h
<1>5. Linked(l, p, e) \in List
  BY <1>1, <1>2, <1>3 DEF List
<1>6. ASSUME NEW j \in 1..Len(h) PROVE h[j].key \in {n[i].key : i \in 1..Len(n)} \cup {e.key}
  <2>1. CASE j = p
    BY <2>1, <1>1, <1>2
  <2>2. CASE j < p
    <3>1. j \in 1..Len(n) /\ h[j] = n[j]
      BY <2>2, <1>1, <1>2
    <3> QED BY <3>1
  <2>3. CASE p < j
    <3>1. j - 1 \in 1..Len(n) /\ h[j] = n[j - 1]
      BY <2>3, <1>1, <1>2
    <3> QED BY <3>1
  <2> QED BY <2>1, <2>2, <2>3, <1>1, <1>2
<1>7. ASSUME NEW i \in 1..Len(n) PROVE n[i].key \in {h[j].key : j \in 1..Len(h)}
  <2>1. CASE i < p
    BY <2>1, <1>1, <1>2
  <2>2. CASE p <= i
    <3>1. i + 1 \in 1..Len(h) /\ h[i + 1] = n[(i + 1) - 1] /\ (i + 1) - 1 = i
      BY <2>2, <1>1, <1>2
    <3> QED BY <3>1
  <2> QED BY <2>1, <2>2, <1>1
<1>8. p \in 1..Len(h) /\ h[p] = e
  BY <1>1, <1>2
<1> QED BY <1>4, <1>5, <1>6, <1>7, <1>8

(* list_add keeps every key and adds its own.                              *)
LEMMA AddKeeps ==
  ASSUME NEW l \in List, NEW e \in Entry
  PROVE  /\ list_add(l, e).list \in List
         /\ KeysOf(list_add(l, e).list) = KeysOf(l) \cup {e.key}
<1> DEFINE n == l.head
           at == IF Stops(n, e) # {} THEN Min(Stops(n, e)) ELSE Len(n)
<1>1. Len(n) \in Nat /\ n \in Seq(Entry) /\ l = [head |-> n, size |-> l.size] /\ l.size \in Int
  BY ListEntries
<1>2. CASE n = <<>> \/ e.key < n[1].key
  <2>1. list_add(l, e).list = Linked(l, 1, e) /\ 1 \in 1..(Len(n) + 1)
    BY <1>1, <1>2 DEF list_add
  <2> QED BY <2>1, LinkedKeys
<1>3. CASE ~(n = <<>> \/ e.key < n[1].key)
  <2>1. at \in 1..Len(n)
    <3>1. Stops(n, e) \subseteq 1..Len(n) /\ Stops(n, e) \subseteq Nat
      BY <1>1 DEF Stops
    <3>2. Len(n) \in 1..Len(n)
      BY <1>1, <1>3, EmptySeq
    <3> QED BY <3>1, <3>2, LeastElement
  <2>2. list_add(l, e).list = IF e.key = n[at].key THEN Overwritten(l, at, e)
                              ELSE Linked(l, at + 1, e)
    BY <1>3 DEF list_add
  <2> HIDE DEF at
  <2>3. CASE e.key # n[at].key
    <3>1. at + 1 \in 1..(Len(n) + 1)
      BY <1>1, <2>1
    <3> QED BY <2>2, <2>3, <3>1, LinkedKeys
  <2>4. CASE e.key = n[at].key
    <3> DEFINE h == [n EXCEPT ![at] = e]
    <3>1. Overwritten(l, at, e) = [head |-> h, size |-> l.size]
      <4>1. Overwritten(l, at, e) = [l EXCEPT !.head = h]
        BY DEF Overwritten, ReplaceAt
      <4> HIDE DEF h, n
      <4> QED BY <1>1, <4>1
    <3> HIDE DEF n
    <3>2. h \in Seq(Entry) /\ Len(h) = Len(n) /\ \A j \in 1..Len(n) : h[j] = IF j = at THEN e ELSE n[j]
      BY <1>1, <2>1, ExceptSeq
    <3>3. KeysOf(l) = {n[i].key : i \in 1..Len(n)}
          /\ KeysOf(Overwritten(l, at, e)) = {h[i].key : i \in 1..Len(h)}
      BY <3>1 DEF KeysOf, n
    <3> HIDE DEF h
    <3>4. Overwritten(l, at, e) \in List
      BY <1>1, <3>1, <3>2 DEF List
    <3>5. \A j \in 1..Len(n) : h[j].key = n[j].key
      BY <2>4, <3>2
    <3>6. KeysOf(Overwritten(l, at, e)) = KeysOf(l) /\ e.key \in KeysOf(l)
      BY <2>1, <2>4, <3>2, <3>3, <3>5
    <3> QED BY <2>2, <2>4, <3>4, <3>6
  <2> QED BY <2>3, <2>4
<1> QED BY <1>2, <1>3

(* list_remove keeps every other key.                                      *)
LEMMA RemoveKeeps ==
  ASSUME NEW l \in List, NEW k
  PROVE  /\ list_remove(l, k).list \in List
         /\ KeysOf(l) \ {k} \subseteq KeysOf(list_remove(l, k).list)
<1>1. CASE l.head = <<>> \/ NodesOf(l, k) = {}
  BY <1>1 DEF list_remove
<1>2. CASE l.head # <<>> /\ NodesOf(l, k) # {}
  <2> DEFINE n == l.head
             p == Min(NodesOf(l, k))
             h == RemoveAt(n, p)
  <2>1. n \in Seq(Entry) /\ Len(n) \in Nat /\ l.size \in Int
    BY ListEntries
  <2>2. p \in 1..Len(n) /\ n[p].key = k
    <3>1. NodesOf(l, k) \subseteq Nat
      BY ListEntries DEF NodesOf
    <3>2. p \in NodesOf(l, k)
      BY <1>2, <3>1, LeastElement
    <3> QED BY <3>2 DEF NodesOf
  <2>3. list_remove(l, k).list = [head |-> h, size |-> l.size - 1]
    BY <1>2 DEF list_remove, Unlinked
  <2>4. KeysOf(l) = {n[i].key : i \in 1..Len(n)}
        /\ KeysOf(list_remove(l, k).list) = {h[i].key : i \in 1..Len(h)}
    BY <2>3 DEF KeysOf
  <2> HIDE DEF n, p
  <2>5. /\ h \in Seq(Entry) /\ Len(h) = Len(n) - 1
        /\ \A j \in 1..(Len(n) - 1) : h[j] = IF j < p THEN n[j] ELSE n[j + 1]
    BY <2>1, <2>2, RemoveAtElements
  <2> HIDE DEF h
  <2>6. ASSUME NEW i \in 1..Len(n), n[i].key # k PROVE n[i].key \in {h[j].key : j \in 1..Len(h)}
    <3>1. i < p \/ p < i
      BY <2>1, <2>2, <2>6
    <3>2. CASE i < p
      BY <3>2, <2>1, <2>2, <2>5
    <3>3. CASE p < i
      <4>1. i - 1 \in 1..Len(h) /\ h[i - 1] = n[(i - 1) + 1] /\ (i - 1) + 1 = i
        BY <3>3, <2>1, <2>2, <2>5
      <4> QED BY <4>1
    <3> QED BY <3>1, <3>2, <3>3
  <2>7. list_remove(l, k).list \in List
    BY <2>1, <2>3, <2>5 DEF List
  <2> QED BY <2>4, <2>6, <2>7
<1> QED BY <1>1, <1>2

(* Insertions that overlap keep every key that was there.                  *)
LEMMA OverlappedKeeps ==
  ASSUME NEW l \in List, NEW new \in SUBSET Entry, NEW m \in Overlapped(l, new)
  PROVE  m \in List /\ KeysOf(l) \subseteq KeysOf(m)
<1> DEFINE n == l.head
           old == 1..Len(n)
<1>1. /\ Len(n) \in Nat
      /\ \A i \in 1..Len(n) : n[i] \in Entry
  BY ListEntries
<1>2. PICK p \in Len(n)..(Len(n) + Cardinality(new)) :
        m.head \in [1..p -> ToSet(n) \cup new]
  BY DEF Overlapped
<1>3. /\ \E at \in [old -> DOMAIN m.head] : \A i \in old : m.head[at[i]] = n[i]
      /\ m = [head |-> m.head, size |-> m.size]
      /\ m.size \in (l.size + 1)..(l.size + Cardinality(new))
  BY DEF Overlapped
<1>4. ToSet(n) \subseteq Entry
  <2>1. n \in Seq(Entry)
    BY ListEntries
  <2>2. DOMAIN n = 1..Len(n)
    BY <2>1, LenProperties
  <2> QED BY <1>1, <2>2 DEF ToSet
<1>5. p \in Nat
  BY <1>1
<1>6. m.head \in [1..p -> Entry]
  BY <1>2, <1>4
<1>7. m.head \in Seq(Entry) /\ Len(m.head) = p /\ DOMAIN m.head = 1..p
  BY <1>5, <1>6, SeqDef
<1>8. m.size \in Int
  BY <1>3
<1>9. m \in List
  BY <1>3, <1>7, <1>8 DEF List
<1>10. ASSUME NEW i \in 1..Len(n) PROVE n[i].key \in KeysOf(m)
  BY <1>3, <1>7 DEF KeysOf
<1> QED BY <1>9, <1>10 DEF KeysOf

-----------------------------------------------------------------------------
(* Tables. *)

WellFormedTable(t) == t \in TableType /\ \A i \in Slot : WellFormedList(t[i], i)

(* A new table is well formed and binds no key.                            *)
LEMMA TableCreate ==
  /\ WellFormedTable(table_create)
  /\ \A k \in Key : table_get(table_create, k) = NULL
<1>1. <<>> \in Seq(Entry) /\ Len(<<>>) = 0
  BY EmptySeq
<1>2. list_create \in List /\ list_create.head = <<>> /\ list_create.size = 0
  BY <1>1 DEF list_create, List
<1>3. \A i : WellFormedList(list_create, i)
  BY <1>1, <1>2 DEF WellFormedList, SortedList
<1>4. \A k \in Key : table_get(table_create, k) = list_get(list_create, k)
  BY TableAssumption DEF table_get, table_create, Slot
<1>5. \A k : list_get(list_create, k) = NULL
  BY <1>1, <1>2, <1>3, GetNull DEF WellFormedList
<1> QED BY <1>2, <1>3, <1>4, <1>5
        DEF WellFormedTable, TableType, table_create

(* In a well-formed table table_get returns a value or NULL.               *)
LEMMA TableGet ==
  ASSUME NEW t, WellFormedTable(t), NEW k \in Key
  PROVE  table_get(t, k) \in Value \cup {NULL}
<1>1. Hash[k] \in Slot /\ t[Hash[k]] \in List /\ SortedList(t[Hash[k]])
  BY TableAssumption DEF WellFormedTable, WellFormedList, TableType, Slot
<1> QED BY <1>1, GetType DEF table_get

(* The list m binds k to v and every other key as the list l does.         *)
Rebinds(l, k, v, m) ==
  \A q : list_get(m, q) = IF q = k THEN v ELSE list_get(l, q)

(* Replacing the list of the slot of k by one in which only k's binding    *)
(* differs keeps the table well formed and changes k's binding only.       *)
LEMMA SlotUpdate ==
  ASSUME NEW t, WellFormedTable(t), NEW k \in Key, NEW l \in List, NEW v,
         WellFormedList(l, Hash[k]), Rebinds(t[Hash[k]], k, v, l)
  PROVE  /\ WellFormedTable(SlotSet(t, k, l))
         /\ \A q \in Key : table_get(SlotSet(t, k, l), q)
                             = IF q = k THEN v ELSE table_get(t, q)
<1> DEFINE u == SlotSet(t, k, l)
<1>1. Hash[k] \in Slot /\ t \in [Slot -> List]
  BY TableAssumption DEF WellFormedTable, TableType, Slot
<1>2. u \in [Slot -> List]
      /\ \A i \in Slot : u[i] = IF i = Hash[k] THEN l ELSE t[i]
  BY <1>1 DEF SlotSet
<1> HIDE DEF u
<1>3. WellFormedTable(u)
  BY <1>2 DEF WellFormedTable, TableType
<1>4. ASSUME NEW q \in Key
      PROVE  table_get(u, q) = IF q = k THEN v ELSE table_get(t, q)
  <2>1. Hash[q] \in Slot
    BY TableAssumption DEF Slot
  <2> QED BY <1>2, <2>1 DEF table_get, Rebinds
<1> QED BY <1>3, <1>4 DEF u

(* table_put binds its key to the new value, changes no other binding and  *)
(* keeps the table well formed.                                            *)
LEMMA TablePut ==
  ASSUME NEW t, WellFormedTable(t), NEW k \in Key, NEW v \in Value
  PROVE  /\ WellFormedTable(table_put(t, k, v).tbl)
         /\ \A q \in Key : table_get(table_put(t, k, v).tbl, q)
                             = IF q = k THEN v ELSE table_get(t, q)
         /\ table_put(t, k, v).ret = 0
<1> DEFINE l == t[Hash[k]]
           freed == IF list_get(l, k) # NULL THEN list_remove(l, k).list ELSE l
           e == [key |-> k, value |-> v]
           m == list_add(freed, e).list
<1>1. l \in List /\ WellFormedList(l, Hash[k])
  BY TableAssumption DEF WellFormedTable, TableType, Slot
<1>2. /\ freed \in List /\ WellFormedList(freed, Hash[k])
      /\ \A q : q # k => list_get(freed, q) = list_get(l, q)
  <2> HIDE DEF l
  <2>1. CASE list_get(l, k) # NULL
    BY <1>1, <2>1, ListRemove
  <2>2. CASE list_get(l, k) = NULL
    BY <1>1, <2>2
  <2> QED BY <2>1, <2>2
<1>3. e \in Entry /\ e.key = k /\ e.value = v
  BY DEF Entry
<1>4. table_put(t, k, v) = [tbl |-> SlotSet(t, k, m), ret |-> 0]
  BY DEF table_put
<1>5. l = t[Hash[k]]
  OBVIOUS
<1> HIDE DEF l, freed, e
<1>6. /\ m \in List /\ WellFormedList(m, Hash[k])
      /\ \A q : list_get(m, q) = IF q = k THEN v ELSE list_get(l, q)
  BY <1>2, <1>3, ListAdd
<1> HIDE DEF m
<1>7. /\ WellFormedTable(SlotSet(t, k, m))
      /\ \A q \in Key : table_get(SlotSet(t, k, m), q)
                          = IF q = k THEN v ELSE table_get(t, q)
  <2>1. Rebinds(t[Hash[k]], k, v, m)
    BY <1>5, <1>6 DEF Rebinds
  <2> QED BY <1>6, <2>1, SlotUpdate
<1>8. /\ table_put(t, k, v).tbl = SlotSet(t, k, m)
      /\ table_put(t, k, v).ret = 0
  BY <1>4
<1> QED BY <1>7, <1>8

(* table_remove unbinds its key, changes no other binding and keeps the    *)
(* table well formed.  It returns 0 for a bound key; for an absent one it  *)
(* returns 1, or does not return when the slot of the key is empty.        *)
LEMMA TableRemove ==
  ASSUME NEW t, WellFormedTable(t), NEW k \in Key
  PROVE  /\ WellFormedTable(table_remove(t, k).tbl)
         /\ \A q \in Key : table_get(table_remove(t, k).tbl, q)
                             = IF q = k THEN NULL ELSE table_get(t, q)
         /\ table_get(t, k) # NULL => table_remove(t, k).ret = 0
         /\ table_get(t, k) = NULL => table_remove(t, k).ret \in {1, SEGV}
<1> DEFINE l == t[Hash[k]]
           m == list_remove(l, k).list
<1>1. l \in List /\ WellFormedList(l, Hash[k])
  BY TableAssumption DEF WellFormedTable, TableType, Slot
<1>2. table_remove(t, k)
        = [tbl |-> SlotSet(t, k, m), ret |-> list_remove(l, k).ret]
  BY DEF table_remove
<1>3. table_get(t, k) = list_get(l, k) /\ l = t[Hash[k]]
  BY DEF table_get
<1> HIDE DEF l
<1>4. /\ m \in List /\ WellFormedList(m, Hash[k])
      /\ \A q : list_get(m, q) = IF q = k THEN NULL ELSE list_get(l, q)
      /\ list_remove(l, k).ret = IF l.head = <<>> THEN SEGV
                                 ELSE IF list_get(l, k) = NULL THEN 1 ELSE 0
  BY <1>1, ListRemove
<1>5. l.head = <<>> => list_get(l, k) = NULL
  BY <1>1, GetNull DEF WellFormedList
<1> HIDE DEF m
<1>6. /\ WellFormedTable(SlotSet(t, k, m))
      /\ \A q \in Key : table_get(SlotSet(t, k, m), q)
                          = IF q = k THEN NULL ELSE table_get(t, q)
  <2>1. Rebinds(t[Hash[k]], k, NULL, m)
    BY <1>3, <1>4 DEF Rebinds
  <2> QED BY <1>4, <2>1, SlotUpdate
<1>7. /\ table_remove(t, k).tbl = SlotSet(t, k, m)
      /\ table_remove(t, k).ret = list_remove(l, k).ret
  BY <1>2
<1> QED BY <1>3, <1>4, <1>5, <1>6, <1>7

-----------------------------------------------------------------------------
(* What table_size and table_get_keys compute. *)

(* Of a property that not all subsets of a finite set have, a smallest     *)
(* counterexample.                                                         *)
LEMMA SmallestSet ==
  ASSUME NEW N, IsFiniteSet(N), NEW Bad \in SUBSET SUBSET N, Bad # {}
  PROVE  \E s \in Bad : IsFiniteSet(s) /\ \A x \in s : s \ {x} \notin Bad
<1> DEFINE C == {Cardinality(s) : s \in Bad}
<1>1. \A s \in Bad : IsFiniteSet(s) /\ Cardinality(s) \in Nat
  <2> TAKE s \in Bad
  <2>1. s \in SUBSET N
    OBVIOUS
  <2> QED BY <2>1, FS_Subset, FS_CardinalityType
<1>2. C \subseteq Nat /\ C # {}
  BY <1>1
<1>3. PICK c \in C : \A d \in C : c <= d
  <2> HIDE DEF C
  <2> QED BY <1>2, LeastElement
<1>4. PICK s \in Bad : Cardinality(s) = c
  OBVIOUS
<1>5. ASSUME NEW x \in s, s \ {x} \in Bad PROVE FALSE
  <2>1. Cardinality(s \ {x}) = Cardinality(s) - 1
    BY <1>1, FS_RemoveElement
  <2>2. c <= Cardinality(s \ {x})
    BY <1>3, <1>5
  <2> QED BY <1>1, <1>4, <2>1, <2>2
<1> QED BY <1>1, <1>5

(* The keys that table_get finds in some of the slots.                     *)
BoundKeys(t, s) == {k \in Key : Hash[k] \in s /\ table_get(t, k) # NULL}

(* The keys of one slot are those of its nodes, each in one node.          *)
LEMMA KeysOfSlot ==
  ASSUME NEW t, WellFormedTable(t), NEW i \in Slot
  PROVE  /\ t[i] \in List /\ Len(t[i].head) \in Nat /\ t[i].size = Len(t[i].head)
         /\ BoundKeys(t, {i}) = {t[i].head[j].key : j \in 1..Len(t[i].head)}
         /\ \A j, m \in 1..Len(t[i].head) : t[i].head[j].key = t[i].head[m].key => j = m
         /\ IsFiniteSet(BoundKeys(t, {i}))
         /\ Cardinality(BoundKeys(t, {i})) = list_size(t[i])
<1> DEFINE l == t[i]
<1>1. l \in List /\ WellFormedList(l, i) /\ SortedList(l) /\ Len(l.head) \in Nat
  BY ListEntries DEF WellFormedTable, TableType, WellFormedList
<1>2. \A k \in Key : Hash[k] = i => table_get(t, k) = list_get(l, k)
  BY DEF table_get
<1>3. \A k \in Key : Hash[k] = i =>
        (table_get(t, k) # NULL <=> \E j \in 1..Len(l.head) : l.head[j].key = k)
  <2> HIDE DEF l
  <2> QED BY <1>1, <1>2, GetNull
<1>4. \A j \in 1..Len(l.head) : l.head[j].key \in Key /\ l.head[j].key \in Int /\ Hash[l.head[j].key] = i
  <2> HIDE DEF l
  <2> QED BY <1>1, ListEntries DEF WellFormedList
<1> DEFINE ks == {l.head[j].key : j \in 1..Len(l.head)}
<1>5. BoundKeys(t, {i}) = ks
  <2> HIDE DEF l
  <2> QED BY <1>3, <1>4 DEF BoundKeys
<1>6. \A j, m \in 1..Len(l.head) : l.head[j].key = l.head[m].key => j = m
  <2> HIDE DEF l
  <2> SUFFICES ASSUME NEW j \in 1..Len(l.head), NEW m \in 1..Len(l.head), j # m
               PROVE  l.head[j].key # l.head[m].key
    OBVIOUS
  <2>1. j < m \/ m < j
    BY <1>1
  <2>2. l.head[j].key < l.head[m].key \/ l.head[m].key < l.head[j].key
    BY <1>1, <2>1 DEF SortedList
  <2> QED BY <1>4, <2>2
<1>7. ExistsBijection(1..Len(l.head), ks)
  <2> DEFINE f == [j \in 1..Len(l.head) |-> l.head[j].key]
  <2>1. f \in [1..Len(l.head) -> ks] /\ \A k \in ks : \E j \in 1..Len(l.head) : f[j] = k
    OBVIOUS
  <2>2. \A j, m \in 1..Len(l.head) : f[j] = f[m] => j = m
    BY <1>6
  <2> HIDE DEF f, l
  <2>3. f \in Injection(1..Len(l.head), ks)
    BY <2>1, <2>2 DEF Injection, IsInjective
  <2>4. f \in Surjection(1..Len(l.head), ks)
    BY <2>1 DEF Surjection
  <2>5. f \in Bijection(1..Len(l.head), ks)
    BY <2>3, <2>4 DEF Bijection
  <2> QED BY <2>5 DEF ExistsBijection
<1>8. IsFiniteSet(ks) /\ Cardinality(ks) = Len(l.head)
  <2> HIDE DEF l, ks
  <2> QED BY <1>1, <1>7, FS_NatBijection, FS_CountingElements
<1>9. l.size = Len(l.head) /\ list_size(l) = l.size
  BY <1>1 DEF WellFormedList, list_size
<1> QED BY <1>1, <1>5, <1>6, <1>8, <1>9

(* The keys of several slots are as many as those of one of them and those *)
(* of the others.                                                          *)
LEMMA KeysSum ==
  ASSUME NEW t, WellFormedTable(t)
  PROVE  /\ \A s \in SUBSET Slot : IsFiniteSet(BoundKeys(t, s))
         /\ Cardinality(BoundKeys(t, {})) = 0
         /\ \A s \in SUBSET Slot : \A i \in s :
              Cardinality(BoundKeys(t, s)) = list_size(t[i]) + Cardinality(BoundKeys(t, s \ {i}))
<1>1. \A s \in SUBSET Slot : \A i \in s : /\ BoundKeys(t, s) = BoundKeys(t, {i}) \cup BoundKeys(t, s \ {i})
                                          /\ BoundKeys(t, {i}) \cap BoundKeys(t, s \ {i}) = {}
  BY DEF BoundKeys
<1>2. BoundKeys(t, {}) = {}
  BY DEF BoundKeys
<1> DEFINE Bad == {s \in SUBSET Slot : ~IsFiniteSet(BoundKeys(t, s))}
<1>3. IsFiniteSet(Slot)
  BY TableAssumption, FS_Interval DEF Slot
<1>4. Bad = {}
  <2> SUFFICES ASSUME Bad # {} PROVE FALSE
    OBVIOUS
  <2>1. PICK s \in Bad : \A x \in s : s \ {x} \notin Bad
    <3>1. Bad \in SUBSET SUBSET Slot
      OBVIOUS
    <3> HIDE DEF Bad
    <3> QED BY <1>3, <3>1, SmallestSet
  <2>2. s # {}
    BY <1>2, <2>1, FS_EmptySet
  <2>3. PICK i \in s : i \in Slot
    BY <2>1, <2>2
  <2>4. IsFiniteSet(BoundKeys(t, {i})) /\ IsFiniteSet(BoundKeys(t, s \ {i}))
    BY <2>1, <2>3, KeysOfSlot
  <2>5. IsFiniteSet(BoundKeys(t, s))
    <3> DEFINE A == BoundKeys(t, {i})
               B == BoundKeys(t, s \ {i})
    <3>1. BoundKeys(t, s) = A \cup B
      BY <1>1, <2>1, <2>3
    <3>2. IsFiniteSet(A) /\ IsFiniteSet(B)
      BY <2>4
    <3> HIDE DEF A, B
    <3> QED BY <3>1, <3>2, FS_Union
  <2> QED BY <2>1, <2>5
<1>5. ASSUME NEW s \in SUBSET Slot, NEW i \in s
      PROVE  Cardinality(BoundKeys(t, s)) = list_size(t[i]) + Cardinality(BoundKeys(t, s \ {i}))
  <2> DEFINE A == BoundKeys(t, {i})
             B == BoundKeys(t, s \ {i})
  <2>1. IsFiniteSet(A) /\ IsFiniteSet(B) /\ Cardinality(A) = list_size(t[i])
    BY <1>4, KeysOfSlot
  <2>2. BoundKeys(t, s) = A \cup B /\ A \cap B = {}
    BY <1>1
  <2>3. Cardinality(A) \in Nat /\ Cardinality(B) \in Nat
    BY <2>1, FS_CardinalityType
  <2> HIDE DEF A, B
  <2>4. Cardinality(A \cup B) = Cardinality(A) + Cardinality(B)
    <3>1. Cardinality(A \cap B) = 0
      BY <2>2, FS_EmptySet
    <3>2. Cardinality(A \cup B) = Cardinality(A) + Cardinality(B) - Cardinality(A \cap B)
      BY <2>1, FS_Union
    <3> QED BY <2>3, <3>1, <3>2
  <2> QED BY <2>1, <2>2, <2>4 DEF B
<1> QED BY <1>2, <1>4, <1>5, FS_EmptySet

(* table_size is the number of keys that table_get finds.                  *)
LEMMA TableSize ==
  ASSUME NEW t, WellFormedTable(t)
  PROVE  table_size(t) = Cardinality({k \in Key : table_get(t, k) # NULL})
<1> DEFINE pick(s) == CHOOSE x \in s : TRUE
           Sums(f) == f = [s \in SUBSET Slot |->
                             IF s = {} THEN 0 ELSE list_size(t[pick(s)]) + f[s \ {pick(s)}]]
           iter == CHOOSE f : Sums(f)
           count == [s \in SUBSET Slot |-> Cardinality(BoundKeys(t, s))]
<1>1. table_size(t) = iter[Slot]
  BY DEF table_size, MapThenSumSet, MapThenFoldSet
<1>2. Sums(count)
  <2>1. ASSUME NEW s \in SUBSET Slot
        PROVE  count[s] = IF s = {} THEN 0 ELSE list_size(t[pick(s)]) + count[s \ {pick(s)}]
    <3>1. s # {} => pick(s) \in s
      OBVIOUS
    <3> HIDE DEF pick
    <3>2. s \ {pick(s)} \in SUBSET Slot
      OBVIOUS
    <3> QED BY <3>1, <3>2, KeysSum
  <2> HIDE DEF pick
  <2> QED BY <2>1
<1>3. Sums(iter)
  <2> HIDE DEF Sums, count
  <2> QED BY <1>2
<1> HIDE DEF iter
<1>4. iter[{}] = 0 /\ \A s \in SUBSET Slot : s # {} =>
        pick(s) \in s /\ iter[s] = list_size(t[pick(s)]) + iter[s \ {pick(s)}]
  <2>1. \A s : s # {} => pick(s) \in s
    OBVIOUS
  <2> HIDE DEF pick
  <2>2. {} \in SUBSET Slot /\ \A s \in SUBSET Slot :
          iter[s] = IF s = {} THEN 0 ELSE list_size(t[pick(s)]) + iter[s \ {pick(s)}]
    BY <1>3
  <2> QED BY <2>1, <2>2
<1> HIDE DEF pick, Sums
<1> DEFINE Bad == {s \in SUBSET Slot : iter[s] # Cardinality(BoundKeys(t, s))}
<1>5. Bad = {}
  <2> SUFFICES ASSUME Bad # {} PROVE FALSE
    OBVIOUS
  <2>1. PICK s \in Bad : \A x \in s : s \ {x} \notin Bad
    <3>1. Bad \in SUBSET SUBSET Slot
      OBVIOUS
    <3>2. IsFiniteSet(Slot)
      BY TableAssumption, FS_Interval DEF Slot
    <3> HIDE DEF Bad
    <3> QED BY <3>1, <3>2, SmallestSet
  <2>2. s # {}
    BY <1>4, <2>1, KeysSum
  <2>3. pick(s) \in s /\ iter[s] = list_size(t[pick(s)]) + iter[s \ {pick(s)}]
    BY <1>4, <2>1, <2>2
  <2>4. iter[s \ {pick(s)}] = Cardinality(BoundKeys(t, s \ {pick(s)}))
    BY <2>1, <2>3
  <2>5. iter[s] = Cardinality(BoundKeys(t, s))
    BY <2>1, <2>3, <2>4, KeysSum
  <2> QED BY <2>1, <2>5
<1>6. iter[Slot] = Cardinality(BoundKeys(t, Slot))
  BY <1>5
<1>7. BoundKeys(t, Slot) = {k \in Key : table_get(t, k) # NULL}
  BY TableAssumption DEF BoundKeys, Slot
<1> QED BY <1>1, <1>6, <1>7

(* Two sequences without duplicates and with different elements make one.  *)
LEMMA ConcatDistinct ==
  ASSUME NEW X, NEW a \in Seq(X), NEW b \in Seq(X), IsInjective(a), IsInjective(b),
         ToSet(a) \cap ToSet(b) = {}
  PROVE  /\ a \o b \in Seq(X) /\ IsInjective(a \o b)
         /\ ToSet(a \o b) = ToSet(a) \cup ToSet(b)
<1> DEFINE n == Len(a)
           m == Len(b)
           c == a \o b
<1>1. /\ n \in Nat /\ m \in Nat /\ DOMAIN a = 1..n /\ DOMAIN b = 1..m
  BY LenProperties
<1>2. c \in Seq(X) /\ Len(c) = n + m /\ DOMAIN c = 1..(n + m)
  BY <1>1, ConcatProperties, LenProperties
<1>3. \A i \in 1..(n + m) : c[i] = IF i <= n THEN a[i] ELSE b[i - n]
  BY ConcatProperties
<1> HIDE DEF n, m, c
<1>4. /\ \A i \in 1..n : i \in 1..(n + m) /\ c[i] = a[i] /\ a[i] \in ToSet(a)
      /\ \A i \in 1..m : i + n \in 1..(n + m) /\ c[i + n] = b[i] /\ b[i] \in ToSet(b)
      /\ \A i \in 1..(n + m) : i \in 1..n \/ (i - n \in 1..m /\ i = (i - n) + n)
  BY <1>1, <1>3 DEF ToSet
<1>5. ToSet(c) = ToSet(a) \cup ToSet(b)
  <2>1. ASSUME NEW x \in ToSet(c) PROVE x \in ToSet(a) \cup ToSet(b)
    <3>1. PICK i \in 1..(n + m) : x = c[i]
      BY <1>2 DEF ToSet
    <3>2. CASE i \in 1..n
      BY <1>4, <3>1, <3>2
    <3>3. CASE i - n \in 1..m /\ i = (i - n) + n
      BY <1>4, <3>1, <3>3
    <3> QED BY <1>4, <3>2, <3>3
  <2>2. ASSUME NEW x \in ToSet(a) PROVE x \in ToSet(c)
    <3>1. PICK i \in DOMAIN a : x = a[i]
      BY DEF ToSet
    <3>2. i \in DOMAIN c /\ c[i] = x
      BY <1>1, <1>2, <1>4, <3>1
    <3> QED BY <3>2 DEF ToSet
  <2>3. ASSUME NEW x \in ToSet(b) PROVE x \in ToSet(c)
    <3>1. PICK i \in DOMAIN b : x = b[i]
      BY DEF ToSet
    <3>2. i + n \in DOMAIN c /\ c[i + n] = x
      BY <1>1, <1>2, <1>4, <3>1
    <3> QED BY <3>2 DEF ToSet
  <2> QED BY <2>1, <2>2, <2>3
<1>6. IsInjective(c)
  <2> SUFFICES ASSUME NEW i \in 1..(n + m), NEW j \in 1..(n + m), c[i] = c[j] PROVE i = j
    BY <1>2 DEF IsInjective
  <2>1. CASE i \in 1..n /\ j \in 1..n
    BY <1>1, <1>4, <2>1 DEF IsInjective
  <2>2. CASE i - n \in 1..m /\ j - n \in 1..m /\ i = (i - n) + n /\ j = (j - n) + n
    <3>1. b[i - n] = b[j - n]
      BY <1>4, <2>2
    <3>2. i - n = j - n
      BY <1>1, <2>2, <3>1 DEF IsInjective
    <3> QED BY <2>2, <3>2
  <2>3. CASE i \in 1..n /\ j - n \in 1..m /\ j = (j - n) + n
    BY <1>4, <2>3
  <2>4. CASE j \in 1..n /\ i - n \in 1..m /\ i = (i - n) + n
    BY <1>4, <2>4
  <2> QED BY <1>4, <2>1, <2>2, <2>3, <2>4
<1> QED BY <1>2, <1>5, <1>6 DEF c

(* The partial results of FlattenSeq.                                      *)
LEMMA FlattenDef ==
  ASSUME NEW K, NEW n \in Nat \ {0}, Len(K) = n
  PROVE  \E f : /\ FlattenSeq(K) = f[n] /\ f[1] = K[1]
                /\ \A i \in 2..n : f[i] = f[i - 1] \o K[i]
<1> DEFINE Cat(a, b) == a \o b
<1> HIDE DEF Cat
<1> DEFINE Flat(f, m) == f = [i \in 1..m |-> IF i = 1 THEN K[i] ELSE Cat(f[i - 1], K[i])]
           Bad == {m \in 1..n : ~ \E f : Flat(f, m)}
<1>1. Bad = {}
  <2> SUFFICES ASSUME Bad # {} PROVE FALSE
    OBVIOUS
  <2>1. PICK m \in Bad : \A y \in Bad : m <= y
    <3>1. Bad \subseteq Nat
      OBVIOUS
    <3> HIDE DEF Bad
    <3> QED BY <3>1, LeastElement
  <2>2. m # 1
    <3>1. Flat([i \in 1..1 |-> K[1]], 1)
      OBVIOUS
    <3> QED BY <3>1
  <2>3. m \in Nat /\ m - 1 \in 1..n /\ m - 1 \notin Bad
    <3>1. m \in 1..n
      OBVIOUS
    <3> HIDE DEF Bad
    <3>2. m \in Nat /\ m - 1 \in 1..n /\ ~(m <= m - 1)
      BY <2>2, <3>1
    <3> QED BY <2>1, <3>2
  <2>4. PICK f : Flat(f, m - 1)
    BY <2>3
  <2> DEFINE g == [i \in 1..m |-> IF i <= m - 1 THEN f[i] ELSE Cat(f[m - 1], K[m])]
  <2>5. Flat(g, m)
    <3>1. ASSUME NEW i \in 1..m PROVE g[i] = IF i = 1 THEN K[i] ELSE Cat(g[i - 1], K[i])
      <4>1. CASE i = 1
        BY <4>1, <2>2, <2>3, <2>4
      <4>2. CASE i # 1 /\ i <= m - 1
        <5>1. f[i] = Cat(f[i - 1], K[i])
          BY <4>2, <2>3, <2>4
        <5>2. g[i] = f[i] /\ g[i - 1] = f[i - 1]
          BY <4>2, <2>3
        <5> QED BY <5>1, <5>2, <4>2
      <4>3. CASE i = m
        BY <4>3, <2>2, <2>3
      <4> QED BY <4>1, <4>2, <4>3, <2>3
    <3>2. g = [i \in 1..m |-> g[i]]
      OBVIOUS
    <3> HIDE DEF g
    <3> QED BY <3>1, <3>2
  <2> QED BY <2>5, <2>1
<1> DEFINE flatten == CHOOSE f : Flat(f, n)
<1>2. Flat(flatten, n)
  <2>1. \E f : Flat(f, n)
    <3>1. n \in 1..n
      OBVIOUS
    <3> HIDE DEF Flat
    <3> QED BY <1>1, <3>1
  <2> HIDE DEF Flat
  <2> QED BY <2>1
<1>3. FlattenSeq(K) = flatten[n]
  BY DEF FlattenSeq, Cat
<1> HIDE DEF flatten
<1>4. \A i \in 1..n : flatten[i] = IF i = 1 THEN K[i] ELSE Cat(flatten[i - 1], K[i])
  BY <1>2
<1>5. flatten[1] = K[1] /\ \A i \in 2..n : flatten[i] = Cat(flatten[i - 1], K[i])
  BY <1>4
<1> QED BY <1>3, <1>5 DEF Cat

(* table_get_keys, when it returns an array, lists the keys that table_get *)
(* finds, each once.                                                       *)
LEMMA TableGetKeys ==
  ASSUME NEW t, WellFormedTable(t), table_get_keys(t) # NULL
  PROVE  /\ IsInjective(table_get_keys(t))
         /\ ToSet(table_get_keys(t)) = {k \in Key : table_get(t, k) # NULL}
<1> DEFINE K == [i \in 1..NSlots |-> list_get_keys(t[i - 1])]
<1>0. NSlots \in Nat \ {0} /\ Len(K) = NSlots
  BY TableAssumption
<1>1. \A i \in Slot : list_get_keys(t[i]) # NULL
  BY DEF table_get_keys
<1>2. table_get_keys(t) = FlattenSeq(K)
  BY <1>1 DEF table_get_keys
<1>3. ASSUME NEW i \in 1..NSlots
      PROVE  K[i] \in Seq(Key) /\ IsInjective(K[i]) /\ ToSet(K[i]) = BoundKeys(t, {i - 1})
  <2> DEFINE l == t[i - 1]
  <2>1. i - 1 \in Slot
    BY TableAssumption DEF Slot
  <2>2. /\ l \in List /\ Len(l.head) \in Nat /\ l.size = Len(l.head)
        /\ BoundKeys(t, {i - 1}) = {l.head[j].key : j \in 1..Len(l.head)}
        /\ \A j, m \in 1..Len(l.head) : l.head[j].key = l.head[m].key => j = m
    BY <2>1, KeysOfSlot
  <2>3. K[i] = list_get_keys(l) /\ list_get_keys(l) # NULL
    BY <1>1, <2>1
  <2> HIDE DEF l, K
  <2>4. K[i] = [j \in 1..l.size |-> l.head[j].key]
    BY <2>3 DEF list_get_keys
  <2>5. \A j \in 1..Len(l.head) : l.head[j].key \in Key
    BY <2>2, ListEntries
  <2>6. K[i] \in Seq(Key)
    BY <2>2, <2>4, <2>5
  <2>7. DOMAIN K[i] = 1..Len(l.head) /\ \A j \in 1..Len(l.head) : K[i][j] = l.head[j].key
    BY <2>2, <2>4
  <2>8. IsInjective(K[i])
    BY <2>2, <2>7 DEF IsInjective
  <2>9. ToSet(K[i]) = {l.head[j].key : j \in 1..Len(l.head)}
    BY <2>7 DEF ToSet
  <2> QED BY <2>2, <2>6, <2>8, <2>9
<1>4. PICK f : /\ FlattenSeq(K) = f[NSlots] /\ f[1] = K[1]
               /\ \A i \in 2..NSlots : f[i] = f[i - 1] \o K[i]
  <2> HIDE DEF K
  <2> QED BY <1>0, FlattenDef
<1> HIDE DEF K
<1> DEFINE Good(i) == /\ f[i] \in Seq(Key) /\ IsInjective(f[i])
                      /\ ToSet(f[i]) = BoundKeys(t, 0..(i - 1))
           Bad == {i \in 1..NSlots : ~Good(i)}
<1>5. Good(1)
  <2>1. 1 \in 1..NSlots /\ {1 - 1} = 0..(1 - 1)
    BY <1>0
  <2> QED BY <1>3, <1>4, <2>1
<1>6. ASSUME NEW i \in 2..NSlots, Good(i - 1) PROVE Good(i)
  <2>0. i \in 1..NSlots
    BY <1>0
  <2>1. f[i] = f[i - 1] \o K[i]
    BY <1>4, Zenon
  <2>2. /\ BoundKeys(t, 0..((i - 1) - 1)) \cap BoundKeys(t, {i - 1}) = {}
        /\ BoundKeys(t, 0..((i - 1) - 1)) \cup BoundKeys(t, {i - 1}) = BoundKeys(t, 0..(i - 1))
    <3>1. 0..((i - 1) - 1) \cap {i - 1} = {} /\ 0..((i - 1) - 1) \cup {i - 1} = 0..(i - 1)
      OBVIOUS
    <3>2. \A S, T : BoundKeys(t, S) \cup BoundKeys(t, T) = BoundKeys(t, S \cup T)
      BY DEF BoundKeys
    <3>3. \A S, T : S \cap T = {} => BoundKeys(t, S) \cap BoundKeys(t, T) = {}
      BY DEF BoundKeys
    <3> QED BY <3>1, <3>2, <3>3
  <2>3. K[i] \in Seq(Key) /\ IsInjective(K[i]) /\ ToSet(K[i]) = BoundKeys(t, {i - 1})
    BY <1>3, <2>0
  <2>4. ToSet(f[i - 1]) \cap ToSet(K[i]) = {}
    BY <1>6, <2>2, <2>3
  <2>5. /\ f[i - 1] \o K[i] \in Seq(Key) /\ IsInjective(f[i - 1] \o K[i])
        /\ ToSet(f[i - 1] \o K[i]) = ToSet(f[i - 1]) \cup ToSet(K[i])
    <3>1. f[i - 1] \in Seq(Key) /\ IsInjective(f[i - 1])
      BY <1>6
    <3>2. \A a, b \in Seq(Key) :
             IsInjective(a) /\ IsInjective(b) /\ ToSet(a) \cap ToSet(b) = {}
             => /\ a \o b \in Seq(Key) /\ IsInjective(a \o b)
                /\ ToSet(a \o b) = ToSet(a) \cup ToSet(b)
      BY ConcatDistinct
    <3> HIDE DEF Good
    <3> QED BY <2>3, <2>4, <3>1, <3>2, Zenon
  <2> QED BY <1>6, <2>1, <2>2, <2>3, <2>5
<1>7. Bad = {}
  <2> HIDE DEF Good
  <2> SUFFICES ASSUME Bad # {} PROVE FALSE
    OBVIOUS
  <2>1. PICK m \in Bad : \A y \in Bad : m <= y
    <3>1. Bad \subseteq Nat
      OBVIOUS
    <3> HIDE DEF Bad
    <3> QED BY <3>1, LeastElement
  <2>2. m # 1
    BY <1>5, <2>1
  <2>3. m \in 2..NSlots /\ m - 1 \in 1..NSlots /\ ~(m <= m - 1)
    BY <2>1, <2>2, <1>0
  <2> QED BY <1>6, <2>1, <2>3
<1>8. Good(NSlots)
  <2> HIDE DEF Good
  <2> QED BY <1>0, <1>7
<1>9. BoundKeys(t, 0..(NSlots - 1)) = {k \in Key : table_get(t, k) # NULL}
  BY TableAssumption DEF BoundKeys
<1> QED BY <1>2, <1>4, <1>8, <1>9
=============================================================================
