-------------------------- MODULE SharedListProofs --------------------------
(***************************************************************************)
(* Theorems about one list under handler threads that do not lock, for any *)
(* number of threads and keys.                                             *)
(***************************************************************************)
EXTENDS SharedList, TableOpsProofs

-----------------------------------------------------------------------------
(* Finite sets and walks. *)

(* A finite set of integers has a least element, which is its Min.         *)
LEMMA LeastInteger ==
  ASSUME NEW S, S \subseteq Int, IsFiniteSet(S), S # {}
  PROVE  Min(S) \in S /\ \A y \in S : Min(S) <= y
<1> DEFINE below(y) == {z \in S : z < y}
           C == {Cardinality(below(y)) : y \in S}
<1>1. \A y \in S : below(y) \in SUBSET S
  OBVIOUS
<1>2. \A y \in S : IsFiniteSet(below(y)) /\ Cardinality(below(y)) \in Nat
  <2> TAKE y \in S
  <2> HIDE DEF below
  <2> QED BY <1>1, FS_Subset, FS_CardinalityType
<1>3. C \subseteq Nat /\ C # {}
  BY <1>2
<1>4. PICK m \in C : \A c \in C : m <= c
  <2> HIDE DEF C
  <2> QED BY <1>3, LeastElement
<1>5. PICK x \in S : m = Cardinality(below(x))
  OBVIOUS
<1>6. ASSUME NEW z \in S, z < x PROVE FALSE
  <2>1. below(z) \in SUBSET below(x) /\ z \in below(x) /\ z \notin below(z)
    <3>1. x \in Int /\ z \in Int /\ \A y \in S : y \in Int
      OBVIOUS
    <3>2. \A y \in S : y < z => y < x
      BY <1>6, <3>1
    <3>3. ~(z < z)
      BY <3>1
    <3> QED BY <1>6, <3>2, <3>3, Zenon
  <2>2. Cardinality(below(z)) < Cardinality(below(x))
    <3> DEFINE A == below(z)
               B == below(x)
    <3>1. IsFiniteSet(B) /\ A \in SUBSET B /\ A # B
      BY <2>1, <1>2
    <3>2. Cardinality(A) \in Nat /\ Cardinality(B) \in Nat
      BY <1>2
    <3> HIDE DEF A, B
    <3>3. Cardinality(A) <= Cardinality(B) /\ Cardinality(A) # Cardinality(B)
      BY <3>1, FS_Subset
    <3>4. Cardinality(A) < Cardinality(B)
      BY <3>2, <3>3
    <3> QED BY <3>4 DEF A, B
  <2>3. Cardinality(below(z)) \in C
    OBVIOUS
  <2> HIDE DEF C, below
  <2> QED BY <2>2, <2>3, <1>2, <1>3, <1>4, <1>5
<1>7. x \in S /\ \A y \in S : x <= y
  BY <1>6
<1> QED BY <1>7 DEF Min

(* Node is finite: a walk of Cardinality(Node) steps is a walk.            *)
LEMMA FiniteNode ==
  IsFiniteSet(Node) /\ Cardinality(Node) \in Nat
BY SharedListAssumption, FS_Union, FS_CardinalityType DEF Node

(* Place is what its recursive definition says.                            *)
LEMMA PlaceDef ==
  /\ Place[0] = head
  /\ \A i \in 1..Cardinality(Node) :
       Place[i] = IF Place[i - 1] = NULL THEN NULL ELSE next[Place[i - 1]]
<1> DEFINE N == Cardinality(Node)
           Walk(f, n) == f = [i \in 0..n |-> IF i = 0 THEN head
                                ELSE IF f[i - 1] = NULL THEN NULL ELSE next[f[i - 1]]]
           Bad == {n \in 0..N : ~ \E f : Walk(f, n)}
<1>0. N \in Nat
  BY FiniteNode
<1>1. Bad = {}
  <2> SUFFICES ASSUME Bad # {} PROVE FALSE
    OBVIOUS
  <2>1. PICK m \in Bad : \A y \in Bad : m <= y
    <3>1. Bad \subseteq Nat
      BY <1>0
    <3> HIDE DEF Bad
    <3> QED BY <3>1, LeastElement
  <2>2. m # 0
    <3>1. Walk([i \in 0..0 |-> head], 0)
      OBVIOUS
    <3> QED BY <3>1
  <2>3. m \in Nat /\ m - 1 \in 0..N /\ m - 1 \notin Bad
    BY <1>0, <2>1, <2>2
  <2>4. PICK f : Walk(f, m - 1)
    BY <2>3
  <2> DEFINE g == [i \in 0..m |-> IF i <= m - 1 THEN f[i]
                                  ELSE IF f[m - 1] = NULL THEN NULL ELSE next[f[m - 1]]]
  <2>5. Walk(g, m)
    <3>1. \A i \in 0..m : g[i] = IF i = 0 THEN head
                                ELSE IF g[i - 1] = NULL THEN NULL ELSE next[g[i - 1]]
      <4> SUFFICES ASSUME NEW i \in 0..m
                   PROVE g[i] = IF i = 0 THEN head
                                ELSE IF g[i - 1] = NULL THEN NULL ELSE next[g[i - 1]]
        OBVIOUS
      <4>1. CASE i = 0
        BY <4>1, <2>3, <2>4, <2>2
      <4>2. CASE i # 0 /\ i <= m - 1
        <5>1. f[i] = IF f[i - 1] = NULL THEN NULL ELSE next[f[i - 1]]
          BY <4>2, <2>3, <2>4
        <5>2. g[i] = f[i] /\ g[i - 1] = f[i - 1]
          BY <4>2, <2>3
        <5> QED BY <5>1, <5>2, <4>2
      <4>3. CASE i = m
        <5>1. g[i] = (IF f[m - 1] = NULL THEN NULL ELSE next[f[m - 1]]) /\ g[i - 1] = f[m - 1]
          BY <4>3, <2>3, <2>2
        <5> QED BY <5>1, <4>3, <2>2
      <4> QED BY <4>1, <4>2, <4>3, <2>3
    <3>2. g = [i \in 0..m |-> g[i]]
      OBVIOUS
    <3> HIDE DEF g
    <3> QED BY <3>1, <3>2
  <2> QED BY <2>5, <2>1
<1>2. \E f : Walk(f, N)
  BY <1>0, <1>1
<1>3. Walk(Place, N)
  BY <1>2 DEF Place
<1> HIDE DEF N
<1>4. \A i \in 0..N : Place[i] = IF i = 0 THEN head
                                ELSE IF Place[i - 1] = NULL THEN NULL ELSE next[Place[i - 1]]
  BY <1>3
<1>5. 0 \in 0..N /\ \A i \in 1..N : i \in 0..N /\ i # 0
  BY <1>0
<1>6. Place[0] = head
  BY <1>4, <1>5
<1> QED BY <1>4, <1>5, <1>6 DEF N
-----------------------------------------------------------------------------
(* The inductive invariant. *)

(* A thread that has not allocated its node, and one that alone knows it.  *)
AskPc     == {"idle", "new"} \cup GetPc \cup RemovePc
OwnPc     == AddPc \ {"inc", "inc_store"}
PrivatePc == AskPc \cup OwnPc

(* The node that no other thread can reach.                                *)
mine(t) == IF pc[t] \in OwnPc THEN new[t] ELSE t

Typed ==
  /\ TypeOK
  /\ \A t \in Thread :
       /\ pc[t] # "idle" => call[t] \in Call
       /\ pc[t] \in {"dec_store", "inc_store"} => got[t] \in Int
       /\ pc[t] \in GotPc => got[t] \in Node \cup {NULL}
       /\ pc[t] = "new" => cur[t] = NULL
       /\ pc[t] \in OwnPc => new[t] \in Node

(* What the list, a node or a thread leads to.                             *)
Led ==
  {NULL, head} \cup {next[n] : n \in Node} \cup UNION {Pointers(u) : u \in Thread}

(* Nothing leads to the nodes that are private, and malloc cannot return   *)
(* them to another thread.                                                 *)
Fresh ==
  \A t \in Thread : pc[t] \in PrivatePc =>
    /\ mine(t) \notin Led /\ mine(t) \notin freed
    /\ \A u \in Thread \ {t} : pc[u] \in PrivatePc => mine(u) # mine(t)

(* A strict order in which every link, and every link about to be stored,  *)
(* leads upwards; a node not yet linked is unrelated.                      *)
StrictOrder(R) ==
  /\ R \subseteq Node \X Node
  /\ \A a \in Node : <<a, a>> \notin R
  /\ \A a, b, c \in Node : <<a, b>> \in R /\ <<b, c>> \in R => <<a, c>> \in R

Isolated(R, u) == \A n \in Node : <<n, u>> \notin R /\ <<u, n>> \notin R

Upwards(R, n, m) == m = NULL \/ <<n, m>> \in R

OrderedThread(R, t) ==
  /\ pc[t] = "link" => <<cur[t], new[t]>> \in R
  /\ pc[t] \in {"rm_skip_next", "rm_unlink"} => Upwards(R, cur[t], got[t])
  /\ pc[t] \in PrivatePc \ {"link"} => Isolated(R, mine(t))

OrderedBy(R) ==
  /\ StrictOrder(R)
  /\ \A n \in Node : Upwards(R, n, next[n])
  /\ \A t \in Thread : OrderedThread(R, t)

Ordered == \E R \in SUBSET (Node \X Node) : OrderedBy(R)

(* The pointers are in order until malloc returns a node that something    *)
(* leads to.                                                               *)
Pointed == ~reused => Fresh /\ Ordered

(* No node was unlinked and no entry destroyed.                            *)
Clean == ~everFreed /\ \A t \in Thread : pc[t] # "rm_free"

(* S: the nodes that were in the list when it was last at rest.  U[s]: the *)
(* nodes from which the links lead to s.                                   *)
Before(U, s) == U[s] \ {s}

WalkPc == {"while", "check", "replace", "order", "copy", "link", "next",
           "last", "last_replace", "last_link"}

PathThread(S, U, t) ==
  /\ pc[t] \in OwnPc => new[t] = t /\ entry[t].key = key(t)
  /\ pc[t] \in RemovePc \cup {"new"} \cup AddPc => call[t].op # "get"
  /\ pc[t] # "replace_store"
  /\ pc[t] \in PrivatePc => \A s \in S : t \notin U[s]
  /\ pc[t] = "get" /\ key(t) \in asked[t] =>
       \E s \in S : entry[s].key = key(t) /\ cur[t] \in U[s]
  /\ pc[t] = "done_1" /\ call[t].op = "get" => key(t) \notin asked[t]
  /\ pc[t] = "add_only" => S = {}
  /\ pc[t] = "add_head" => head # NULL
  /\ pc[t] \in {"add_first", "add_front"} => cur[t] # NULL /\ \A s \in S : cur[t] \in U[s]
  /\ pc[t] \in WalkPc => cur[t] # NULL
  /\ pc[t] \in {"check", "order", "next"} => next[cur[t]] # NULL
  /\ pc[t] = "link" => \A s \in S : cur[t] \in Before(U, s) => next[t] \in U[s]
  /\ pc[t] \in {"last", "last_replace", "last_link"} => \A s \in S : cur[t] \notin Before(U, s)
  /\ pc[t] = "last_replace" => entry[cur[t]].key = key(t)

Paths(S, U) ==
  /\ S \subseteq Node /\ U \in [S -> SUBSET Node]
  /\ \A s \in S : s \in U[s] /\ head \in U[s] /\ \A n \in Before(U, s) : next[n] \in U[s]
  /\ \A t \in Thread : PathThread(S, U, t)

Intact ==
  Clean => /\ ~reused /\ freed = {} /\ dangling = {}
           /\ \E S \in SUBSET Node : \E U \in [S -> SUBSET Node] :
                Paths(S, U) /\ settled = {entry[s].key : s \in S}

NotBroken == broken => ~OnlyInserts


-----------------------------------------------------------------------------
(* Types. *)

LEMMA NullIsNoNode == NULL \notin Node /\ \A t \in Thread : t \in Node /\ t \notin Key
  BY SharedListAssumption DEF Node

(* What a walk needs to know of the links.                                 *)
LinkTypes ==
  /\ head \in Node \cup {NULL}
  /\ next \in [Node -> Node \cup {NULL}]
  /\ entry \in [Node -> Entry]

(* What Init says, for one choice of the initial keys.                     *)
InitialKeys(ks) ==
  /\ head = IF ks = {} THEN NULL ELSE Min(ks)
  /\ size = Cardinality(ks)
  /\ next = [n \in Node |-> IF n \in ks THEN Successor(ks, n) ELSE NULL]
  /\ settled = ks

(* The first links lead from key to key, upwards.                          *)
LEMMA InitLinks ==
  ASSUME NEW ks \in SUBSET Key, InitialKeys(ks)
  PROVE  /\ IsFiniteSet(ks) /\ ks \subseteq Int /\ ks \subseteq Node
         /\ Cardinality(ks) \in Nat
         /\ ks = {} => head = NULL
         /\ ks # {} => head \in ks /\ \A k \in ks : head <= k
         /\ next \in [Node -> ks \cup {NULL}]
         /\ \A n \in Node \ ks : next[n] = NULL
         /\ \A n \in ks : IF next[n] = NULL THEN \A k \in ks : k <= n
                          ELSE next[n] > n /\ \A k \in ks : k > n => next[n] <= k
<1>1. IsFiniteSet(ks) /\ ks \subseteq Int
  BY SharedListAssumption, TableAssumption, FS_Subset
<1>2. ks \subseteq Node
  BY DEF Node
<1>3. ks # {} => Min(ks) \in ks /\ \A y \in ks : Min(ks) <= y
  BY <1>1, LeastInteger
<1>4. ASSUME NEW n \in ks
      PROVE  IF Successor(ks, n) = NULL THEN \A k \in ks : k <= n
             ELSE /\ Successor(ks, n) \in ks /\ Successor(ks, n) > n
                  /\ \A k \in ks : k > n => Successor(ks, n) <= k
  <2> DEFINE larger == {j \in ks : j > n}
  <2>1. larger \subseteq Int /\ larger \in SUBSET ks
    BY <1>1
  <2>2. IsFiniteSet(larger)
    BY <2>1, <1>1, FS_Subset
  <2>3. larger # {} => Min(larger) \in larger /\ \A y \in larger : Min(larger) <= y
    <3> HIDE DEF larger
    <3> QED BY <2>1, <2>2, LeastInteger
  <2>4. CASE larger = {}
    <3>1. Successor(ks, n) = NULL
      BY <2>4 DEF Successor
    <3>2. \A k \in ks : k <= n
      BY <2>4, <1>1
    <3> QED BY <3>1, <3>2
  <2>5. CASE larger # {}
    <3>1. Successor(ks, n) = Min(larger)
      BY <2>5 DEF Successor
    <3>2. NULL \notin ks
      BY <1>2, NullIsNoNode
    <3> QED BY <2>5, <2>3, <3>1, <3>2
  <2> QED BY <2>4, <2>5
<1>5. NULL \notin ks /\ next \in [Node -> ks \cup {NULL}]
  BY <1>2, <1>4, NullIsNoNode DEF InitialKeys
<1>6. \A n \in Node : next[n] = IF n \in ks THEN Successor(ks, n) ELSE NULL
  BY DEF InitialKeys
<1>7. \A n \in ks : next[n] = Successor(ks, n)
  BY <1>6, <1>2
<1>8. Cardinality(ks) \in Nat
  BY <1>1, FS_CardinalityType
<1> QED BY <1>1, <1>2, <1>3, <1>4, <1>5, <1>6, <1>7, <1>8 DEF InitialKeys

LEMMA InitTyped == Init => Typed
<1> SUFFICES ASSUME Init PROVE Typed
  OBVIOUS
<1>1. AnyKey \in Key
  BY SharedListAssumption DEF AnyKey
<1>2. PICK ks \in SUBSET Key : InitialKeys(ks)
  BY Zenon DEF Init, InitialKeys
<1>3. head \in Node \cup {NULL} /\ next \in [Node -> Node \cup {NULL}]
  BY <1>2, InitLinks
<1>4. size \in Int /\ settled \subseteq Key
  BY <1>2, InitLinks DEF InitialKeys
<1>5. entry \in [Node -> Entry]
  BY <1>1, SharedListAssumption DEF Init, Entry, Node
<1>6. TypeOK
  BY <1>3, <1>4, <1>5 DEF Init, TypeOK, Inside, Done
<1>7. \A t \in Thread : pc[t] = "idle"
  BY DEF Init
<1> QED BY <1>6, <1>7 DEF Typed, GotPc, OwnPc, AddPc

(* Every place of a walk is a node or the end of the walk, and after the   *)
(* end there is nothing.                                                   *)
LEMMA PlaceType ==
  LinkTypes =>
    /\ \A i \in 0..Cardinality(Node) : Place[i] \in Node \cup {NULL}
    /\ \A i \in 0..Cardinality(Node) : Place[i] = NULL =>
         \A j \in i..Cardinality(Node) : Place[j] = NULL
<1> SUFFICES ASSUME LinkTypes
    PROVE  /\ \A i \in 0..Cardinality(Node) : Place[i] \in Node \cup {NULL}
           /\ \A i \in 0..Cardinality(Node) : Place[i] = NULL =>
                \A j \in i..Cardinality(Node) : Place[j] = NULL
  OBVIOUS
<1> DEFINE N == Cardinality(Node)
           Bad == {i \in 0..N : Place[i] \notin Node \cup {NULL}}
<1>0. N \in Nat
  BY FiniteNode
<1>1. Bad = {}
  <2> SUFFICES ASSUME Bad # {} PROVE FALSE
    OBVIOUS
  <2>1. PICK m \in Bad : \A y \in Bad : m <= y
    <3>1. Bad \subseteq Nat
      BY <1>0
    <3> HIDE DEF Bad
    <3> QED BY <3>1, LeastElement
  <2>2. m # 0
    BY <2>1, PlaceDef DEF LinkTypes
  <2>3. m \in 1..N /\ m - 1 \in 0..N /\ ~(m <= m - 1)
    BY <1>0, <2>1, <2>2
  <2>4. Place[m - 1] \in Node \cup {NULL}
    BY <2>1, <2>3
  <2>5. Place[m] = IF Place[m - 1] = NULL THEN NULL ELSE next[Place[m - 1]]
    BY <2>3, PlaceDef
  <2> QED BY <2>1, <2>4, <2>5 DEF LinkTypes
<1>2. ASSUME NEW i \in 0..N, Place[i] = NULL, NEW j \in i..N PROVE Place[j] = NULL
  <2> DEFINE Late == {k \in i..N : Place[k] # NULL}
  <2>1. Late = {}
    <3> SUFFICES ASSUME Late # {} PROVE FALSE
      OBVIOUS
    <3>1. PICK m \in Late : \A y \in Late : m <= y
      <4>1. Late \subseteq Nat
        BY <1>0
      <4> HIDE DEF Late
      <4> QED BY <4>1, LeastElement
    <3>2. m # i
      BY <3>1, <1>2
    <3>3. m \in 1..N /\ m - 1 \in i..N /\ ~(m <= m - 1)
      BY <1>0, <3>1, <3>2
    <3>4. Place[m - 1] = NULL
      BY <3>1, <3>3
    <3> QED BY <3>1, <3>3, <3>4, PlaceDef
  <2> QED BY <2>1
<1> QED BY <1>1, <1>2

(* The nodes a walk meets are nodes, and their keys keys.                  *)
LEMMA MembersType == LinkTypes => Members \subseteq Node /\ Reachable \subseteq Key
<1> SUFFICES ASSUME LinkTypes PROVE Members \subseteq Node /\ Reachable \subseteq Key
  OBVIOUS
<1>1. Members \subseteq Node
  BY PlaceType DEF Members
<1>2. \A n \in Members : entry[n].key \in Key
  BY <1>1 DEF LinkTypes, Entry
<1> QED BY <1>1, <1>2 DEF Reachable

(* A step of a thread moves its pc and no other.                           *)
LEMMA StepPc ==
  ASSUME Typed, NEW t \in Thread, NEW from, NEW to \in Inside \cup Done, Step(t, from, to)
  PROVE  /\ pc[t] = from /\ Valid(t) /\ ~broken
         /\ pc' \in [Thread -> Inside \cup Done \cup {"idle"}]
         /\ pc'[t] = to /\ \A u \in Thread \ {t} : pc'[u] = pc[u]
         /\ UNCHANGED <<broken, call, asked>>
BY DEF Typed, TypeOK, Step

LEMMA RestTypes ==
  ASSUME Typed, Rest, LinkTypes'
  PROVE  settled' \subseteq Key /\ adders' \subseteq Thread
<1>1. Reachable' \subseteq Key
  <2>1. (LinkTypes => Members \subseteq Node /\ Reachable \subseteq Key)'
    BY MembersType, PTL
  <2> QED BY <2>1
<1> QED BY <1>1 DEF Rest, Typed, TypeOK

(* What a function leaves of its variables when it returns.                *)
LEMMA LeaveTypes ==
  ASSUME Typed, NEW t \in Thread, NEW to, Leave(t, to)
  PROVE  /\ cur' \in [Thread -> Node \cup {NULL}] /\ tmp' \in [Thread -> Node \cup {NULL}]
         /\ got' \in [Thread -> Node \cup {NULL} \cup Int] /\ new' \in [Thread -> Node \cup {NULL}]
         /\ \A u \in Thread \ {t} : /\ cur'[u] = cur[u] /\ tmp'[u] = tmp[u]
                                    /\ got'[u] = got[u] /\ new'[u] = new[u]
         /\ IF to \in Done \cup {"rm", "new"}
            THEN cur'[t] = NULL /\ tmp'[t] = NULL /\ got'[t] = NULL /\ new'[t] = NULL
            ELSE UNCHANGED <<cur, tmp, got, new>>
<1>1. CASE to \in Done \cup {"rm", "new"}
  BY <1>1 DEF Leave, Typed, TypeOK
<1>2. CASE to \notin Done \cup {"rm", "new"}
  BY <1>2 DEF Leave, locals, Typed, TypeOK
<1> QED BY <1>1, <1>2

(* What the locals are after a step.                                       *)
LocalTypes(t, to) ==
  /\ cur' \in [Thread -> Node \cup {NULL}] /\ tmp' \in [Thread -> Node \cup {NULL}]
  /\ got' \in [Thread -> Node \cup {NULL} \cup Int] /\ new' \in [Thread -> Node \cup {NULL}]
  /\ \A u \in Thread \ {t} : got'[u] = got[u] /\ cur'[u] = cur[u] /\ new'[u] = new[u]
  /\ to \in {"dec_store", "inc_store"} => got'[t] \in Int
  /\ to \in GotPc => got'[t] \in Node \cup {NULL}
  /\ to = "new" => cur'[t] = NULL
  /\ to \in OwnPc => new'[t] \in Node

LEMMA StepTypes ==
  ASSUME Typed, NEW t \in Thread, NEW from \in Inside, NEW to \in Inside \cup Done,
         Step(t, from, to), Rest, LinkTypes', size' \in Int,
         freed' \subseteq Node, dangling' \subseteq Node,
         everFreed' \in BOOLEAN, reused' \in BOOLEAN, LocalTypes(t, to)
  PROVE  Typed'
<1>1. TypeOK'
  BY StepPc, RestTypes DEF Typed, TypeOK, LinkTypes, LocalTypes
<1>2. pc[t] # "idle"
  BY StepPc DEF Inside, GetPc, RemovePc, AddPc
<1>3. ASSUME NEW u \in Thread
      PROVE  /\ pc'[u] # "idle" => call'[u] \in Call
             /\ pc'[u] \in {"dec_store", "inc_store"} => got'[u] \in Int
             /\ pc'[u] \in GotPc => got'[u] \in Node \cup {NULL}
             /\ pc'[u] = "new" => cur'[u] = NULL
             /\ pc'[u] \in OwnPc => new'[u] \in Node
  BY StepPc, <1>2 DEF Typed, LocalTypes
<1> QED BY <1>1, <1>3 DEF Typed

LEMMA BeginTyped ==
  ASSUME Typed, NEW t \in Thread, Begin(t), Rest
  PROVE  Typed'
<1>1. PICK c \in Call :
        /\ call' = [call EXCEPT ![t] = c]
        /\ pc' = [pc EXCEPT ![t] = IF c.op = "del" THEN "rm" ELSE "get"]
        /\ cur' = IF c.op = "del" THEN cur ELSE [cur EXCEPT ![t] = head]
        /\ asked' = [asked EXCEPT ![t] = IF c.op = "get" THEN settled ELSE {}]
  BY DEF Begin
<1>2. UNCHANGED <<head, size, next, entry, freed, dangling, everFreed, reused, broken, tmp, got, new>>
  BY DEF Begin, heap
<1>3. settled' \subseteq Key /\ adders' \subseteq Thread
  BY <1>2, RestTypes DEF LinkTypes, Typed, TypeOK
<1>4. asked' \in [Thread -> SUBSET Key]
  BY <1>1 DEF Typed, TypeOK
<1>5. pc' \in [Thread -> Inside \cup Done \cup {"idle"}] /\ call' \in [Thread -> Call \cup {NULL}]
  BY <1>1 DEF Typed, TypeOK, Inside, GetPc, RemovePc
<1>6. cur' \in [Thread -> Node \cup {NULL}]
  BY <1>1 DEF Typed, TypeOK
<1>7. TypeOK'
  BY <1>2, <1>3, <1>4, <1>5, <1>6 DEF Typed, TypeOK
<1>8. ASSUME NEW u \in Thread
      PROVE  /\ pc'[u] # "idle" => call'[u] \in Call
             /\ pc'[u] \in {"dec_store", "inc_store"} => got'[u] \in Int
             /\ pc'[u] \in GotPc => got'[u] \in Node \cup {NULL}
             /\ pc'[u] = "new" => cur'[u] = NULL
             /\ pc'[u] \in OwnPc => new'[u] \in Node
  <2>1. pc'[t] \in {"rm", "get"} /\ call'[t] = c
    BY <1>1 DEF Typed, TypeOK
  <2>2. pc'[t] \notin GotPc \cup {"dec_store", "inc_store", "new"} \cup OwnPc
    BY <2>1 DEF GotPc, OwnPc, AddPc
  <2>3. u # t => pc'[u] = pc[u] /\ call'[u] = call[u] /\ cur'[u] = cur[u]
    BY <1>1 DEF Typed, TypeOK
  <2> QED BY <2>1, <2>2, <2>3, <1>2 DEF Typed
<1> QED BY <1>7, <1>8 DEF Typed

LEMMA GotoTyped ==
  ASSUME Typed, NEW t \in Thread, NEW from \in Inside, NEW to \in Inside \cup Done,
         Goto(t, from, to), Rest, to \notin GotPc \cup {"dec_store", "inc_store"},
         to \in OwnPc => from \in OwnPc
  PROVE  Typed'
<1>1. Leave(t, to) /\ Step(t, from, to)
      /\ UNCHANGED <<head, size, next, entry, freed, dangling, everFreed, reused>>
  BY DEF Goto, heap
<1>2. pc[t] = from
  BY <1>1 DEF Step
<1>3. LocalTypes(t, to)
  <2>1. to = "new" => cur'[t] = NULL
    BY <1>1, LeaveTypes
  <2>2. to \in OwnPc => new'[t] \in Node
    <3>1. to \in OwnPc => new' = new
      BY <1>1, LeaveTypes DEF OwnPc, AddPc, Done
    <3> QED BY <3>1, <1>2 DEF Typed
  <2> QED BY <1>1, <2>1, <2>2, LeaveTypes DEF LocalTypes
<1> QED BY <1>1, <1>3, StepTypes DEF LinkTypes, Typed, TypeOK

LEMMA CurrentTyped ==
  ASSUME Typed, NEW t \in Thread, NEW from \in Inside, NEW to \in Inside \cup Done,
         NEW n \in Node \cup {NULL}, Rest,
         Current(t, from, to, n), to \notin GotPc \cup {"dec_store", "inc_store", "new"},
         to \in OwnPc => from \in OwnPc
  PROVE  Typed'
<1>1. /\ Step(t, from, to) /\ cur' \in [Thread -> Node \cup {NULL}]
      /\ \A u \in Thread \ {t} : cur'[u] = cur[u]
      /\ UNCHANGED <<head, size, next, entry, freed, dangling, everFreed, reused, tmp, got, new>>
  BY DEF Current, heap, Typed, TypeOK
<1>2. LocalTypes(t, to)
  BY <1>1 DEF LocalTypes, Step, Typed, TypeOK
<1> QED BY <1>1, <1>2, StepTypes DEF LinkTypes, Typed, TypeOK

LEMMA GotTyped ==
  ASSUME Typed, NEW t \in Thread, NEW from \in Inside, NEW to \in Inside \cup Done,
         NEW x \in Node \cup {NULL} \cup Int, Got(t, from, to, x), Rest,
         to \in {"dec_store", "inc_store"} => x \in Int,
         to \in GotPc => x \in Node \cup {NULL},
         to \notin OwnPc \cup {"new"}
  PROVE  Typed'
<1>1. /\ Step(t, from, to)
      /\ got' \in [Thread -> Node \cup {NULL} \cup Int] /\ got'[t] = x
      /\ \A u \in Thread \ {t} : got'[u] = got[u]
      /\ UNCHANGED <<head, size, next, entry, freed, dangling, everFreed, reused, cur, tmp, new>>
  BY DEF Got, heap, Typed, TypeOK
<1>2. LocalTypes(t, to)
  BY <1>1 DEF LocalTypes, Typed, TypeOK
<1> QED BY <1>1, <1>2, StepTypes DEF LinkTypes, Typed, TypeOK

(* A step that changes no local variable.                                  *)
LEMMA SameLocals ==
  ASSUME Typed, NEW t \in Thread, NEW from, NEW to, Step(t, from, to), UNCHANGED locals,
         to \notin GotPc \cup {"dec_store", "inc_store", "new"}, to \in OwnPc => from \in OwnPc
  PROVE  LocalTypes(t, to)
BY DEF LocalTypes, locals, Step, Typed, TypeOK

LEMMA SetHeadTyped ==
  ASSUME Typed, NEW t \in Thread, NEW from \in Inside, NEW to \in Inside \cup Done,
         NEW n \in Node \cup {NULL}, Rest,
         SetHead(t, from, to, n), to \notin GotPc \cup {"dec_store", "inc_store", "new"},
         to \in OwnPc => from \in OwnPc
  PROVE  Typed'
<1>1. Step(t, from, to) /\ UNCHANGED locals
  BY DEF SetHead, locals
<1>2. LocalTypes(t, to)
  BY <1>1, SameLocals
<1> QED BY <1>1, <1>2, StepTypes DEF SetHead, LinkTypes, Typed, TypeOK

LEMMA SetNextTyped ==
  ASSUME Typed, NEW t \in Thread, NEW from \in Inside, NEW to \in Inside \cup Done,
         NEW n \in Node, NEW m \in Node \cup {NULL}, Rest,
         SetNext(t, from, to, n, m), to \notin GotPc \cup {"dec_store", "inc_store", "new"},
         to \in OwnPc => from \in OwnPc
  PROVE  Typed'
<1>1. Step(t, from, to) /\ UNCHANGED locals
  BY DEF SetNext, locals
<1>2. LocalTypes(t, to)
  BY <1>1, SameLocals
<1>3. next' \in [Node -> Node \cup {NULL}]
  BY DEF SetNext, Typed, TypeOK
<1> QED BY <1>1, <1>2, <1>3, StepTypes DEF SetNext, LinkTypes, Typed, TypeOK

LEMMA SetSizeTyped ==
  ASSUME Typed, NEW t \in Thread, NEW from \in Inside, NEW to \in Done \cup {"new"},
         NEW n \in Int, SetSize(t, from, to, n), Rest
  PROVE  Typed'
<1>1. /\ Step(t, from, to) /\ Leave(t, to) /\ size' = n
      /\ UNCHANGED <<head, next, entry, freed, dangling, everFreed, reused>>
  BY DEF SetSize
<1>2. to \notin GotPc \cup {"dec_store", "inc_store"} \cup OwnPc /\ to \in Inside \cup Done
  BY DEF GotPc, OwnPc, AddPc, Done, Inside
<1>3. LocalTypes(t, to)
  BY <1>1, <1>2, LeaveTypes DEF LocalTypes
<1> QED BY <1>1, <1>2, <1>3, StepTypes DEF LinkTypes, Typed, TypeOK

(* A step that reads through current has one.                              *)
LEMMA CurrentNode ==
  ASSUME Typed, NEW t \in Thread, Valid(t), cur[t] \in Uses(t) \cup UsesEntry(t)
  PROVE  cur[t] \in Node /\ next[cur[t]] \in Node \cup {NULL}
BY DEF Typed, TypeOK, Valid

(* The copy of the entry that a call adds.                                 *)
LEMMA AddedType ==
  ASSUME Typed, NEW t \in Thread, pc[t] # "idle"
  PROVE  Added(t) \in Entry /\ key(t) \in Key
BY SharedListAssumption DEF Typed, Call, Entry, Added, key

LEMMA AllocateTyped ==
  ASSUME Typed, NEW t \in Thread, Allocate(t), Rest
  PROVE  Typed'
<1>1. PICK n \in {t} \cup freed :
        /\ Step(t, "new", "add")
        /\ new' = [new EXCEPT ![t] = n]
        /\ next' = [next EXCEPT ![n] = NULL]
        /\ entry' = [entry EXCEPT ![n] = Added(t)]
        /\ freed' = freed \ {n} /\ dangling' = dangling \ {n}
        /\ reused' = (reused \/ LedTo(n))
        /\ UNCHANGED <<head, size, everFreed, cur, tmp, got>>
  BY DEF Allocate
<1>2. n \in Node /\ pc[t] = "new"
  BY <1>1, NullIsNoNode DEF Step, Typed, TypeOK
<1>3. LinkTypes'
  BY <1>1, <1>2, AddedType DEF LinkTypes, Typed, TypeOK
<1>4. LocalTypes(t, "add")
  BY <1>1, <1>2 DEF LocalTypes, Typed, TypeOK, GotPc
<1>5. freed' \subseteq Node /\ dangling' \subseteq Node /\ reused' \in BOOLEAN
  <2>1. LedTo(n) \in BOOLEAN
    BY DEF LedTo
  <2> QED BY <1>1, <2>1 DEF Typed, TypeOK
<1>6. "new" \in Inside /\ "add" \in Inside
  BY DEF Inside, AddPc
<1> QED BY <1>1, <1>3, <1>4, <1>5, <1>6, StepTypes DEF Typed, TypeOK

LEMMA AdvanceTyped ==
  ASSUME Typed, NEW t \in Thread, Advance(t)
  PROVE  Typed'
<1> USE DEF Inside, Done, GetPc, RemovePc, AddPc, GotPc, OwnPc, AfterRemove
<1>0. Rest
  BY DEF Advance, Noted
<1>1. CASE Get(t)
  <2>1. CASE cur[t] = NULL \/ entry[cur[t]].key = key(t)
    BY <1>0, <1>1, <2>1, GotoTyped, NullIsNoNode DEF Get
  <2>2. CASE cur[t] # NULL /\ entry[cur[t]].key # key(t)
    <3>1. next[cur[t]] \in Node \cup {NULL}
      BY <2>2 DEF Typed, TypeOK
    <3> QED BY <1>0, <1>1, <2>2, <3>1, CurrentTyped DEF Get
  <2> QED BY <2>1, <2>2
<1>2. CASE RemoveStart(t)
  <2>1. CASE Current(t, "rm", "rm_first", head)
    BY <1>0, <2>1, CurrentTyped DEF Typed, TypeOK
  <2> QED BY <1>0, <1>2, <2>1, GotoTyped DEF RemoveStart
<1>3. CASE UnlinkHead(t)
  <2>1. CASE pc[t] = "rm_head"
    <3>1. /\ Step(t, "rm_head", "rm_head_store")
          /\ UNCHANGED <<head, size, next, entry, freed, dangling, everFreed, reused, cur, new>>
          /\ got' = [got EXCEPT ![t] = next[cur[t]]]
          /\ tmp' = [tmp EXCEPT ![t] = cur[t]]
      BY <1>3, <2>1 DEF UnlinkHead, SetHead, Step, heap
    <3>2. cur[t] \in Node /\ next[cur[t]] \in Node \cup {NULL}
      BY <3>1, <2>1, StepPc, CurrentNode DEF Uses
    <3>3. LocalTypes(t, "rm_head_store")
      BY <3>1, <3>2 DEF LocalTypes, Typed, TypeOK
    <3> QED BY <1>0, <3>1, <3>3, StepTypes DEF LinkTypes, Typed, TypeOK
  <2>2. CASE SetHead(t, "rm_head_store", "rm_free", got[t])
    <3>1. got[t] \in Node \cup {NULL}
      BY <2>2 DEF SetHead, Step, Typed
    <3> QED BY <1>0, <2>2, <3>1, SetHeadTyped
  <2> QED BY <1>3, <2>1, <2>2 DEF UnlinkHead, Step
<1>4. CASE RemoveWalk(t)
  <2>1. CASE Current(t, "rm_next", "rm_while", next[cur[t]])
    <3>1. next[cur[t]] \in Node \cup {NULL}
      BY <2>1, StepPc, CurrentNode DEF Uses, Current
    <3> QED BY <1>0, <2>1, <3>1, CurrentTyped
  <2> QED BY <1>0, <1>4, <2>1, GotoTyped DEF RemoveWalk
<1>5. CASE Unlink(t)
  <2>1. CASE pc[t] = "rm_temp"
    <3>1. /\ Step(t, "rm_temp", "rm_skip")
          /\ UNCHANGED <<head, size, next, entry, freed, dangling, everFreed, reused, cur, got, new>>
          /\ tmp' = [tmp EXCEPT ![t] = next[cur[t]]]
      BY <1>5, <2>1 DEF Unlink, Got, SetNext, Step, heap
    <3>2. next[cur[t]] \in Node \cup {NULL}
      BY <3>1, <2>1, StepPc, CurrentNode DEF Uses
    <3>3. LocalTypes(t, "rm_skip")
      BY <3>1, <3>2 DEF LocalTypes, Typed, TypeOK
    <3> QED BY <1>0, <3>1, <3>3, StepTypes DEF LinkTypes, Typed, TypeOK
  <2>2. CASE Got(t, "rm_skip", "rm_skip_next", next[cur[t]])
    <3>1. next[cur[t]] \in Node \cup {NULL}
      BY <2>2, StepPc, CurrentNode DEF Uses, Got
    <3> QED BY <1>0, <2>2, <3>1, GotTyped
  <2>3. CASE Got(t, "rm_skip_next", "rm_unlink", next[got[t]])
    <3>1. got[t] \in Node
      BY <2>3 DEF Got, Step, Typed, Valid, Uses
    <3>2. next[got[t]] \in Node \cup {NULL}
      BY <3>1 DEF Typed, TypeOK
    <3> QED BY <1>0, <2>3, <3>2, GotTyped
  <2>4. CASE SetNext(t, "rm_unlink", "rm_free", cur[t], got[t])
    <3>1. cur[t] \in Node /\ got[t] \in Node \cup {NULL}
      BY <2>4, StepPc, CurrentNode DEF Uses, SetNext, Typed
    <3> QED BY <1>0, <2>4, <3>1, SetNextTyped
  <2> QED BY <1>5, <2>1, <2>2, <2>3, <2>4 DEF Unlink, Step
<1>6. CASE FreeNode(t)
  <2>1. Step(t, "rm_free", "dec") /\ tmp[t] \in Node
    BY <1>6 DEF FreeNode, Step, Typed, TypeOK, Valid, Uses, UsesEntry
  <2>2. next' \in [Node -> Node \cup {NULL}] /\ freed' \subseteq Node /\ UNCHANGED locals
    BY <1>6, <2>1 DEF FreeNode, locals, Typed, TypeOK
  <2>3. LocalTypes(t, "dec")
    BY <2>1, <2>2, SameLocals
  <2> QED BY <1>0, <1>6, <2>1, <2>2, <2>3, StepTypes DEF FreeNode, LinkTypes, Typed, TypeOK
<1>7. CASE Decrement(t)
  <2>1. CASE Got(t, "dec", "dec_store", size)
    BY <1>0, <2>1, GotTyped DEF Typed, TypeOK
  <2>2. CASE SetSize(t, "dec_store", AfterRemove(t, "done_0"), got[t] - 1)
    <3>1. got[t] - 1 \in Int
      BY <2>2 DEF SetSize, Step, Typed
    <3> QED BY <1>0, <2>2, <3>1, SetSizeTyped
  <2> QED BY <1>7, <2>1, <2>2 DEF Decrement
<1>8. CASE AddFirst(t)
  <2>1. CASE SetHead(t, "add_only", "inc", new[t])
    <3>1. new[t] \in Node
      BY <2>1 DEF SetHead, Step, Typed
    <3> QED BY <1>0, <2>1, <3>1, SetHeadTyped
  <2>2. CASE Current(t, "add_head", "add_first", head)
    BY <1>0, <2>2, CurrentTyped DEF Typed, TypeOK
  <2>3. CASE pc[t] = "add_front"
    <3>1. /\ Step(t, "add_front", "inc") /\ head' = new[t] /\ next' = [next EXCEPT ![new[t]] = cur[t]]
          /\ UNCHANGED <<size, entry, freed, dangling, everFreed, reused, locals>>
      BY <1>8, <2>3 DEF AddFirst, Goto, SetHead, Current, Step
    <3>2. new[t] \in Node
      BY <2>3 DEF Typed
    <3>3. next' \in [Node -> Node \cup {NULL}] /\ head' \in Node
      BY <3>1, <3>2 DEF Typed, TypeOK
    <3>4. LocalTypes(t, "inc")
      BY <3>1, SameLocals
    <3> QED BY <1>0, <3>1, <3>3, <3>4, StepTypes DEF LinkTypes, Typed, TypeOK
  <2> QED BY <1>0, <1>8, <2>1, <2>2, <2>3, GotoTyped DEF AddFirst, Step
<1>9. CASE AddWalk(t)
  <2>1. CASE Current(t, "next", "while", next[cur[t]])
    <3>1. next[cur[t]] \in Node \cup {NULL}
      BY <2>1, StepPc, CurrentNode DEF Uses, Current
    <3> QED BY <1>0, <2>1, <3>1, CurrentTyped
  <2> QED BY <1>0, <1>9, <2>1, GotoTyped DEF AddWalk
<1>10. CASE LinkBetween(t)
  <2>1. CASE SetNext(t, "copy", "link", new[t], next[cur[t]])
    <3>1. next[cur[t]] \in Node \cup {NULL} /\ new[t] \in Node
      BY <2>1, StepPc, CurrentNode DEF Uses, SetNext, Typed
    <3> QED BY <1>0, <2>1, <3>1, SetNextTyped
  <2>2. CASE SetNext(t, "link", "inc", cur[t], new[t])
    <3>1. cur[t] \in Node /\ new[t] \in Node
      BY <2>2, StepPc, CurrentNode DEF Uses, SetNext, Typed
    <3> QED BY <1>0, <2>2, <3>1, SetNextTyped
  <2> QED BY <1>10, <2>1, <2>2 DEF LinkBetween
<1>11. CASE Replace(t)
  <2>1. CASE pc[t] = "replace"
    <3>1. /\ Step(t, "replace", "replace_store") /\ UNCHANGED locals
          /\ dangling' = dangling \cup {cur[t]} /\ everFreed' = TRUE
          /\ UNCHANGED <<head, size, next, entry, freed, reused>>
      BY <1>11, <2>1 DEF Replace, Step
    <3>2. cur[t] \in Node
      BY <2>1, <3>1, StepPc, CurrentNode DEF Uses, UsesEntry
    <3>3. LocalTypes(t, "replace_store")
      BY <3>1, SameLocals
    <3> QED BY <1>0, <3>1, <3>2, <3>3, StepTypes DEF LinkTypes, Typed, TypeOK
  <2>2. CASE pc[t] = "replace_store"
    <3>1. /\ Step(t, "replace_store", "done_0") /\ Leave(t, "done_0")
          /\ entry' = [entry EXCEPT ![cur[t]] = Added(t)] /\ dangling' = dangling \ {cur[t]}
          /\ UNCHANGED <<head, size, next, freed, everFreed, reused>>
      BY <1>11, <2>2 DEF Replace, Step
    <3>2. entry' \in [Node -> Entry]
      BY <2>2, <3>1, AddedType DEF Typed, TypeOK
    <3>3. LocalTypes(t, "done_0")
      BY <3>1, LeaveTypes DEF LocalTypes
    <3> QED BY <1>0, <3>1, <3>2, <3>3, StepTypes DEF LinkTypes, Typed, TypeOK
  <2> QED BY <1>11, <2>1, <2>2 DEF Replace, Step
<1>12. CASE AddLast(t)
  <2>1. CASE pc[t] = "last_replace"
    <3>1. /\ Step(t, "last_replace", "done_0") /\ entry' = [entry EXCEPT ![cur[t]] = Added(t)]
          /\ UNCHANGED <<head, size, next, freed, dangling, everFreed, reused>>
          /\ Leave(t, "done_0")
      BY <1>12, <2>1 DEF AddLast, Goto, SetNext, Step
    <3>2. entry' \in [Node -> Entry]
      BY <2>1, <3>1, AddedType DEF Typed, TypeOK
    <3>3. LocalTypes(t, "done_0")
      BY <3>1, LeaveTypes DEF LocalTypes
    <3> QED BY <1>0, <3>1, <3>2, <3>3, StepTypes DEF LinkTypes, Typed, TypeOK
  <2>2. CASE SetNext(t, "last_link", "inc", cur[t], new[t])
    <3>1. cur[t] \in Node /\ new[t] \in Node
      BY <2>2, StepPc, CurrentNode DEF Uses, SetNext, Typed
    <3> QED BY <1>0, <2>2, <3>1, SetNextTyped
  <2> QED BY <1>0, <1>12, <2>1, <2>2, GotoTyped DEF AddLast, Step
<1>13. CASE Increment(t)
  <2>1. CASE Got(t, "inc", "inc_store", size)
    BY <1>0, <2>1, GotTyped DEF Typed, TypeOK
  <2>2. CASE SetSize(t, "inc_store", "done_0", got[t] + 1)
    <3>1. got[t] + 1 \in Int
      BY <2>2 DEF SetSize, Step, Typed
    <3> QED BY <1>0, <2>2, <3>1, SetSizeTyped
  <2> QED BY <1>13, <2>1, <2>2 DEF Increment
<1>14. CASE Allocate(t)
  BY <1>0, <1>14, AllocateTyped
<1>15. CASE Fault(t)
  <2>1. UNCHANGED <<head, size, next, entry, freed, dangling, everFreed, reused, pc, call,
                    cur, tmp, got, new, asked>> /\ broken' = TRUE
    BY <1>15 DEF Fault, heap, locals
  <2>2. settled' \subseteq Key /\ adders' \subseteq Thread
    BY <1>0, <2>1, RestTypes DEF LinkTypes, Typed, TypeOK
  <2> QED BY <2>1, <2>2 DEF Typed, TypeOK
<1> QED BY <1>1, <1>2, <1>3, <1>4, <1>5, <1>6, <1>7, <1>8, <1>9, <1>10, <1>11, <1>12,
           <1>13, <1>14, <1>15 DEF Advance

-----------------------------------------------------------------------------
(* The kinds of steps. *)

LEMMA PointersAre ==
  \A u \in Thread : \A x :
    x \in Pointers(u) <=> \/ pc[u] \in CurPc /\ x = cur[u]
                          \/ pc[u] \in TmpPc /\ x = tmp[u]
                          \/ pc[u] \in GotPc /\ x = got[u]
BY DEF Pointers

LEMMA PointersAreNext ==
  \A u \in Thread : \A x :
    x \in Pointers(u)' <=> \/ pc'[u] \in CurPc /\ x = cur'[u]
                           \/ pc'[u] \in TmpPc /\ x = tmp'[u]
                           \/ pc'[u] \in GotPc /\ x = got'[u]
BY DEF Pointers

LEMMA LedFacts ==
  /\ NULL \in Led /\ head \in Led /\ \A n \in Node : next[n] \in Led
  /\ \A u \in Thread : /\ pc[u] \in CurPc => cur[u] \in Led
                       /\ pc[u] \in TmpPc => tmp[u] \in Led
                       /\ pc[u] \in GotPc => got[u] \in Led
BY PointersAre, Zenon DEF Led

(* The variables of the other threads stay.                                *)
Others(t) ==
  \A u \in Thread \ {t} : /\ cur'[u] = cur[u] /\ tmp'[u] = tmp[u]
                          /\ got'[u] = got[u] /\ new'[u] = new[u]

(* A step that stores no pointer, allocates and frees nothing, and only    *)
(* takes pointers that the list, a node or a thread held.                  *)
Quiet(t, to) ==
  /\ Step(t, pc[t], to) /\ pc[t] \in Inside /\ to \in Inside \cup Done
  /\ UNCHANGED <<head, next, freed, reused>> /\ Others(t)
  /\ to \in CurPc => cur'[t] \in Led
  /\ to \in TmpPc => tmp'[t] \in Led
  /\ to \in GotPc => got'[t] \in Led
  /\ to \in OwnPc => pc[t] \in OwnPc /\ new'[t] = new[t]
  /\ to \in AskPc => pc[t] \in AskPc
  /\ to # "link" /\ pc[t] # "link"
  /\ to = "rm_skip_next" => cur'[t] = cur[t] /\ cur[t] \in Node /\ got'[t] = next[cur[t]]
  /\ to = "rm_unlink" => /\ cur'[t] = cur[t] /\ got'[t] = next[got[t]] /\ got[t] \in Node
                         /\ pc[t] = "rm_skip_next"

LEMMA GotoQuiet ==
  ASSUME Typed, NEW t \in Thread, NEW from \in CurPc, NEW to \in Inside \cup Done,
         Goto(t, from, to), {from, to} \cap {"link"} = {}, to \notin TmpPc,
         to \in OwnPc => from \in OwnPc, to \in AskPc => from \in AskPc
  PROVE  Quiet(t, to)
<1>1. /\ Step(t, pc[t], to) /\ pc[t] = from /\ Leave(t, to) /\ Others(t)
      /\ UNCHANGED <<head, next, freed, reused>>
  BY LeaveTypes DEF Goto, heap, Step, Others
<1>2. to \notin Done \cup {"rm", "new"} => UNCHANGED <<cur, tmp, got, new>>
  BY <1>1, LeaveTypes
<1>3. to \in CurPc \cup OwnPc => to \notin Done \cup {"rm", "new"}
  BY DEF CurPc, OwnPc, AddPc, GetPc, RemovePc, Inside, Done
<1>4. to \in CurPc => cur'[t] \in Led
  BY <1>1, <1>2, <1>3, LedFacts
<1>5. from \in Inside /\ to \notin GotPc /\ to # "rm_skip_next" /\ to # "rm_unlink"
  BY DEF CurPc, TmpPc, GotPc
<1> QED BY <1>1, <1>2, <1>3, <1>4, <1>5 DEF Quiet

LEMMA CurrentQuiet ==
  ASSUME Typed, NEW t \in Thread, NEW from \in Inside, NEW to \in Inside, NEW n \in Led,
         Current(t, from, to, n), {from, to} \cap {"link"} = {}, to \notin TmpPc,
         to \in OwnPc => from \in OwnPc, to \in AskPc => from \in AskPc
  PROVE  Quiet(t, to)
<1>1. /\ Step(t, pc[t], to) /\ pc[t] = from /\ Others(t) /\ cur'[t] = n /\ UNCHANGED new
      /\ UNCHANGED <<head, next, freed, reused>>
  BY DEF Current, heap, Step, Others, Typed, TypeOK
<1>2. to \notin GotPc /\ to # "rm_skip_next" /\ to # "rm_unlink"
  BY DEF TmpPc, GotPc
<1> QED BY <1>1, <1>2 DEF Quiet

LEMMA CountQuiet ==
  ASSUME Typed, NEW t \in Thread, NEW from, NEW to, NEW x, Got(t, from, to, x),
         \/ from = "dec" /\ to = "dec_store"
         \/ from = "inc" /\ to = "inc_store"
  PROVE  Quiet(t, to)
<1>1. /\ Step(t, pc[t], to) /\ pc[t] = from /\ Others(t)
      /\ UNCHANGED <<head, next, freed, reused>>
  BY DEF Got, heap, Step, Others, Typed, TypeOK
<1>3. /\ from \in Inside /\ to \in Inside /\ to \notin CurPc \cup TmpPc \cup GotPc \cup OwnPc
      /\ to \in AskPc => from \in AskPc
  BY DEF CurPc, TmpPc, GotPc, OwnPc, AskPc, Inside, AddPc, RemovePc, GetPc
<1> QED BY <1>1, <1>3 DEF Quiet

LEMMA SizeQuiet ==
  ASSUME Typed, NEW t \in Thread, NEW from \in Inside, NEW to \in Done \cup {"new"}, NEW n,
         SetSize(t, from, to, n), from # "link", to \in AskPc => from \in AskPc
  PROVE  Quiet(t, to)
<1>1. /\ Step(t, pc[t], to) /\ pc[t] = from /\ Leave(t, to)
      /\ UNCHANGED <<head, next, freed, reused>>
  BY DEF SetSize, Step
<1>2. Others(t)
  BY <1>1, LeaveTypes DEF Others
<1>3. to \in Inside \cup Done /\ to \notin CurPc \cup TmpPc \cup GotPc \cup OwnPc
      /\ to # "link" /\ to # "rm_skip_next" /\ to # "rm_unlink"
  BY DEF CurPc, TmpPc, GotPc, OwnPc, Inside, AddPc, RemovePc, GetPc, Done
<1> QED BY <1>1, <1>2, <1>3 DEF Quiet

(* The steps of AddFirst and the loops that store pointers.                *)
AddFront(t) ==
  /\ Step(t, "add_front", "inc")
  /\ next' = [next EXCEPT ![new[t]] = cur[t]]
  /\ head' = new[t]
  /\ UNCHANGED <<size, entry, freed, dangling, everFreed, reused, locals>>

LEMMA Kinds ==
  ASSUME Typed, NEW t \in Thread, Advance(t)
  PROVE  \/ \E to \in Inside \cup Done : Quiet(t, to)
         \/ SetHead(t, "rm_head_store", "rm_free", got[t])
         \/ SetHead(t, "add_only", "inc", new[t])
         \/ AddFront(t)
         \/ SetNext(t, "rm_unlink", "rm_free", cur[t], got[t])
         \/ SetNext(t, "copy", "link", new[t], next[cur[t]])
         \/ SetNext(t, "link", "inc", cur[t], new[t])
         \/ SetNext(t, "last_link", "inc", cur[t], new[t])
         \/ FreeNode(t) \/ Allocate(t) \/ Fault(t)
<1> USE DEF Inside, Done, GetPc, RemovePc, AddPc, GotPc, TmpPc, CurPc, OwnPc, AskPc, AfterRemove
<1> SUFFICES ASSUME \A to \in Inside \cup Done : ~Quiet(t, to)
             PROVE  \/ SetHead(t, "rm_head_store", "rm_free", got[t])
                    \/ SetHead(t, "add_only", "inc", new[t])
                    \/ AddFront(t)
                    \/ SetNext(t, "rm_unlink", "rm_free", cur[t], got[t])
                    \/ SetNext(t, "copy", "link", new[t], next[cur[t]])
                    \/ SetNext(t, "link", "inc", cur[t], new[t])
                    \/ SetNext(t, "last_link", "inc", cur[t], new[t])
                    \/ FreeNode(t) \/ Allocate(t) \/ Fault(t)
  OBVIOUS
<1>0. cur[t] \in Node => next[cur[t]] \in Led
  BY LedFacts
<1>1. CASE Get(t)
  <2>1. CASE cur[t] = NULL \/ entry[cur[t]].key = key(t)
    BY <1>1, <2>1, GotoQuiet DEF Get
  <2>2. CASE cur[t] # NULL /\ entry[cur[t]].key # key(t)
    <3>1. cur[t] \in Node
      BY <2>2 DEF Typed, TypeOK
    <3> QED BY <1>0, <1>1, <2>2, <3>1, CurrentQuiet DEF Get
  <2> QED BY <2>1, <2>2
<1>2. CASE RemoveStart(t)
  <2>1. CASE Current(t, "rm", "rm_first", head)
    BY <2>1, CurrentQuiet, LedFacts
  <2> QED BY <1>2, <2>1, GotoQuiet DEF RemoveStart
<1>3. CASE UnlinkHead(t) /\ pc[t] = "rm_head"
  <2>1. /\ Step(t, "rm_head", "rm_head_store")
        /\ UNCHANGED <<head, next, freed, reused, cur, new>>
        /\ got' = [got EXCEPT ![t] = next[cur[t]]]
        /\ tmp' = [tmp EXCEPT ![t] = cur[t]]
    BY <1>3 DEF UnlinkHead, SetHead, Step, heap
  <2>2. cur[t] \in Node
    BY <2>1, <1>3, StepPc, CurrentNode DEF Uses
  <2>3. Others(t) /\ got'[t] = next[cur[t]] /\ tmp'[t] = cur[t]
    BY <2>1 DEF Others, Typed, TypeOK
  <2>4. cur[t] \in Led
    BY <1>3, LedFacts
  <2>5. Quiet(t, "rm_head_store")
    BY <1>0, <1>3, <2>1, <2>2, <2>3, <2>4 DEF Quiet
  <2> QED BY <2>5
<1>4. CASE RemoveWalk(t)
  <2>1. CASE Current(t, "rm_next", "rm_while", next[cur[t]])
    <3>1. cur[t] \in Node
      BY <2>1, StepPc, CurrentNode DEF Uses, Current
    <3> QED BY <1>0, <2>1, <3>1, CurrentQuiet
  <2> QED BY <1>4, <2>1, GotoQuiet DEF RemoveWalk
<1>5. CASE Unlink(t)
  <2>1. CASE pc[t] = "rm_temp"
    <3>1. /\ Step(t, "rm_temp", "rm_skip")
          /\ UNCHANGED <<head, next, freed, reused, cur, got, new>>
          /\ tmp' = [tmp EXCEPT ![t] = next[cur[t]]]
      BY <1>5, <2>1 DEF Unlink, Got, SetNext, Step, heap
    <3>2. cur[t] \in Node
      BY <3>1, <2>1, StepPc, CurrentNode DEF Uses
    <3>3. Others(t) /\ tmp'[t] = next[cur[t]]
      BY <3>1 DEF Others, Typed, TypeOK
    <3>4. cur[t] \in Led
      BY <2>1, LedFacts
    <3>5. Quiet(t, "rm_skip")
      BY <1>0, <2>1, <3>1, <3>2, <3>3, <3>4 DEF Quiet
    <3> QED BY <3>5
  <2>2. CASE Got(t, "rm_skip", "rm_skip_next", next[cur[t]])
    <3>1. cur[t] \in Node /\ pc[t] = "rm_skip"
      BY <2>2, StepPc, CurrentNode DEF Uses, Got
    <3>2. /\ Step(t, "rm_skip", "rm_skip_next") /\ Others(t) /\ got'[t] = next[cur[t]]
          /\ UNCHANGED <<head, next, freed, reused, cur, tmp, new>>
      BY <2>2 DEF Got, heap, Others, Typed, TypeOK
    <3>3. cur[t] \in Led /\ tmp[t] \in Led
      BY <3>1, LedFacts
    <3>4. Quiet(t, "rm_skip_next")
      BY <1>0, <3>1, <3>2, <3>3 DEF Quiet
    <3> QED BY <3>4
  <2>3. CASE Got(t, "rm_skip_next", "rm_unlink", next[got[t]])
    <3>1. got[t] \in Node /\ pc[t] = "rm_skip_next"
      BY <2>3 DEF Got, Step, Typed, Valid, Uses
    <3>2. /\ Step(t, "rm_skip_next", "rm_unlink") /\ Others(t) /\ got'[t] = next[got[t]]
          /\ UNCHANGED <<head, next, freed, reused, cur, tmp, new>>
      BY <2>3 DEF Got, heap, Others, Typed, TypeOK
    <3>3. cur[t] \in Led /\ tmp[t] \in Led /\ next[got[t]] \in Led
      BY <3>1, LedFacts
    <3>4. Quiet(t, "rm_unlink")
      BY <3>1, <3>2, <3>3 DEF Quiet
    <3> QED BY <3>4
  <2> QED BY <1>5, <2>1, <2>2, <2>3 DEF Unlink, Step
<1>7. CASE Decrement(t)
  BY <1>7, CountQuiet, SizeQuiet DEF Decrement
<1>8. CASE AddFirst(t)
  <2>1. CASE Current(t, "add_head", "add_first", head)
    BY <2>1, CurrentQuiet, LedFacts
  <2> QED BY <1>8, <2>1, GotoQuiet DEF AddFirst, AddFront
<1>9. CASE AddWalk(t)
  <2>1. CASE Current(t, "next", "while", next[cur[t]])
    <3>1. cur[t] \in Node
      BY <2>1, StepPc, CurrentNode DEF Uses, Current
    <3> QED BY <1>0, <2>1, <3>1, CurrentQuiet
  <2> QED BY <1>9, <2>1, GotoQuiet DEF AddWalk
<1>11. CASE Replace(t)
  <2>1. CASE pc[t] = "replace"
    <3>1. /\ Step(t, "replace", "replace_store")
          /\ UNCHANGED <<head, next, freed, reused, cur, tmp, got, new>>
      BY <1>11, <2>1 DEF Replace, Step, locals
    <3>2. Others(t) /\ cur[t] \in Led
      BY <3>1, <2>1, LedFacts DEF Others
    <3>3. Quiet(t, "replace_store")
      BY <2>1, <3>1, <3>2 DEF Quiet
    <3> QED BY <3>3
  <2>2. CASE pc[t] = "replace_store"
    <3>1. /\ Step(t, "replace_store", "done_0") /\ Leave(t, "done_0")
          /\ UNCHANGED <<head, next, freed, reused>>
      BY <1>11, <2>2 DEF Replace, Step
    <3>2. Others(t)
      BY <3>1, LeaveTypes DEF Others
    <3>3. Quiet(t, "done_0")
      BY <2>2, <3>1, <3>2 DEF Quiet
    <3> QED BY <3>3
  <2> QED BY <1>11, <2>1, <2>2 DEF Replace, Step
<1>12. CASE AddLast(t)
  <2>1. CASE pc[t] = "last_replace"
    <3>1. /\ Step(t, "last_replace", "done_0") /\ Leave(t, "done_0")
          /\ UNCHANGED <<head, next, freed, reused>>
      BY <1>12, <2>1 DEF AddLast, Goto, SetNext, Step
    <3>2. Others(t)
      BY <3>1, LeaveTypes DEF Others
    <3>3. Quiet(t, "done_0")
      BY <2>1, <3>1, <3>2 DEF Quiet
    <3> QED BY <3>3
  <2> QED BY <1>12, <2>1, GotoQuiet DEF AddLast, Step
<1>13. CASE Increment(t)
  BY <1>13, CountQuiet, SizeQuiet DEF Increment
<1> QED BY <1>1, <1>2, <1>3, <1>4, <1>5, <1>7, <1>8, <1>9, <1>11, <1>12, <1>13
        DEF Advance, UnlinkHead, Unlink, LinkBetween, AddLast, Step

-----------------------------------------------------------------------------
(* Private nodes. *)

LEMMA InitFresh == Init => Fresh
<1> SUFFICES ASSUME Init, NEW t \in Thread
             PROVE  mine(t) \notin Led /\ mine(t) \notin freed
                    /\ \A u \in Thread \ {t} : mine(u) # mine(t)
  BY DEF Fresh
<1>1. PICK ks \in SUBSET Key : InitialKeys(ks)
  BY Zenon DEF Init, InitialKeys
<1>2. \A u \in Thread : pc[u] = "idle" /\ mine(u) = u
  BY DEF Init, mine, OwnPc, AddPc
<1>3. \A u \in Thread : \A x : x \notin Pointers(u)
  BY <1>2, PointersAre DEF CurPc, TmpPc, GotPc, Inside, GetPc, RemovePc, AddPc
<1>4. t # NULL /\ t \notin ks /\ t \in Node
  BY NullIsNoNode
<1>5. head # t /\ \A n \in Node : next[n] # t
  BY <1>1, <1>4, InitLinks
<1>6. t \notin Led
  BY <1>3, <1>4, <1>5 DEF Led
<1> QED BY <1>2, <1>6 DEF Init

(* A step after which no pointer leads to a node that another thread keeps *)
(* for itself.                                                             *)
Harmless(t, x) == x \in Led \/ (pc[t] \in PrivatePc /\ pc'[t] \notin PrivatePc /\ x = mine(t))

LEMMA StepFresh ==
  ASSUME Fresh, NEW t \in Thread, Others(t), \A u \in Thread \ {t} : pc'[u] = pc[u],
         pc'[t] \in PrivatePc => pc[t] \in PrivatePc /\ mine(t)' = mine(t),
         Harmless(t, head'), \A n \in Node : Harmless(t, next'[n]),
         \A x : x \in Pointers(t)' => Harmless(t, x),
         freed' \subseteq freed \cup Led
  PROVE  Fresh'
<1>1. \A u \in Thread \ {t} : mine(u)' = mine(u)
  BY DEF mine, Others
<1>2. \A u \in Thread \ {t} : \A x : x \in Pointers(u)' => x \in Led
  BY LedFacts, PointersAreNext DEF Others
<1>3. \A x : x \in Led' => Harmless(t, x)
  <2> SUFFICES ASSUME NEW x, x \in Led' PROVE Harmless(t, x)
    OBVIOUS
  <2>1. x = NULL => x \in Led
    BY LedFacts
  <2>2. x = NULL \/ x = head' \/ (\E n \in Node : x = next'[n]) \/ \E u \in Thread : x \in Pointers(u)'
    BY DEF Led
  <2>3. (x = NULL \/ \E u \in Thread \ {t} : x \in Pointers(u)') => Harmless(t, x)
    BY <1>2, <2>1 DEF Harmless
  <2> QED BY <2>2, <2>3
<1>4. \A u \in Thread : pc'[u] \in PrivatePc => pc[u] \in PrivatePc /\ mine(u)' = mine(u)
  BY <1>1
<1>5. ASSUME NEW u \in Thread, pc'[u] \in PrivatePc
      PROVE  /\ mine(u)' \notin Led' /\ mine(u)' \notin freed'
             /\ \A v \in Thread \ {u} : pc'[v] \in PrivatePc => mine(v)' # mine(u)'
  <2>1. /\ mine(u) \notin Led /\ mine(u) \notin freed
        /\ \A v \in Thread \ {u} : pc[v] \in PrivatePc => mine(v) # mine(u)
    BY <1>4, <1>5 DEF Fresh
  <2>2. ~Harmless(t, mine(u))
    BY <1>5, <2>1 DEF Harmless
  <2> QED BY <1>3, <1>4, <1>5, <2>1, <2>2
<1> QED BY <1>5 DEF Fresh

LEMMA BeginFresh ==
  ASSUME Typed, Fresh, NEW t \in Thread, Begin(t)
  PROVE  Fresh'
<1>1. /\ pc[t] = "idle" /\ pc'[t] \in {"rm", "get"} /\ \A u \in Thread \ {t} : pc'[u] = pc[u]
      /\ pc'[t] = "get" => cur'[t] = head
      /\ UNCHANGED <<head, next, freed>> /\ Others(t)
  BY DEF Begin, heap, Others, Typed, TypeOK
<1>2. /\ pc[t] \in AskPc /\ pc[t] \notin OwnPc /\ pc'[t] \in AskPc /\ pc'[t] \notin OwnPc
      /\ pc'[t] \notin TmpPc \cup GotPc /\ (pc'[t] \in CurPc => pc'[t] = "get")
  BY <1>1 DEF AskPc, OwnPc, TmpPc, GotPc, CurPc, GetPc, RemovePc, AddPc
<1>3. \A x : x \in Pointers(t)' => Harmless(t, x)
  BY <1>1, <1>2, PointersAreNext, LedFacts DEF Harmless
<1>4. Harmless(t, head') /\ \A n \in Node : Harmless(t, next'[n])
  BY <1>1, LedFacts DEF Harmless
<1>5. mine(t)' = mine(t) /\ pc[t] \in PrivatePc
  BY <1>2 DEF mine, PrivatePc
<1> QED BY <1>1, <1>3, <1>4, <1>5, StepFresh

LEMMA QuietFresh ==
  ASSUME Typed, Fresh, NEW t \in Thread, NEW to \in Inside \cup Done, Quiet(t, to)
  PROVE  Fresh'
<1>1. pc'[t] = to /\ \A u \in Thread \ {t} : pc'[u] = pc[u]
  BY StepPc DEF Quiet
<1>2. UNCHANGED <<head, next, freed>> /\ Others(t)
  BY DEF Quiet
<1>3. \A x : x \in Pointers(t)' => Harmless(t, x)
  BY <1>1, PointersAreNext DEF Quiet, Harmless
<1>4. Harmless(t, head') /\ \A n \in Node : Harmless(t, next'[n])
  BY <1>2, LedFacts DEF Harmless
<1>5. pc'[t] \in PrivatePc => pc[t] \in PrivatePc /\ mine(t)' = mine(t)
  <2>1. AskPc \cap OwnPc = {}
    BY DEF AskPc, OwnPc, GetPc, RemovePc, AddPc
  <2> QED BY <1>1, <2>1 DEF Quiet, mine, PrivatePc
<1> QED BY <1>1, <1>2, <1>3, <1>4, <1>5, StepFresh

(* A step that writes the head or one link, to no private node.            *)
LEMMA WriteFresh ==
  ASSUME Typed, Fresh, NEW t \in Thread, NEW from, NEW to \in {"rm_free", "inc"}, Step(t, from, to),
         UNCHANGED <<freed, cur, tmp, got, new>>, Harmless(t, head'),
         \A n \in Node : Harmless(t, next'[n]),
         to = "rm_free" => cur[t] \in Led /\ tmp[t] \in Led /\ from \in AskPc
  PROVE  Fresh'
<1>1. to \in Inside
  BY DEF Inside, RemovePc, AddPc
<1>2. pc'[t] = to /\ pc[t] = from /\ \A u \in Thread \ {t} : pc'[u] = pc[u]
  BY <1>1, StepPc
<1>3. Others(t)
  BY DEF Others
<1>4. /\ "inc" \notin CurPc \cup TmpPc \cup GotPc \cup PrivatePc
      /\ "rm_free" \notin GotPc \cup OwnPc
      /\ "rm_free" \in AskPc /\ AskPc \cap OwnPc = {}
  BY DEF CurPc, TmpPc, GotPc, PrivatePc, AskPc, OwnPc, RemovePc, GetPc, AddPc
<1>5. \A x : x \in Pointers(t)' => Harmless(t, x)
  BY <1>2, <1>4, PointersAreNext DEF Harmless
<1>6. pc'[t] \in PrivatePc => pc[t] \in PrivatePc /\ mine(t)' = mine(t)
  BY <1>2, <1>4 DEF mine, PrivatePc
<1> QED BY <1>2, <1>3, <1>5, <1>6, StepFresh

LEMMA AdvanceFresh ==
  ASSUME Typed, Fresh, NEW t \in Thread, Advance(t), ~reused'
  PROVE  Fresh'
<1>0. /\ {"rm_head_store", "rm_unlink"} \subseteq AskPc \cap TmpPc \cap GotPc \cap CurPc
      /\ {"rm_head_store", "rm_unlink", "rm_free"} \cap OwnPc = {}
      /\ {"add_only", "add_front", "copy", "link", "last_link"} \subseteq OwnPc \cap CurPc \cap PrivatePc
      /\ {"rm_free", "inc"} \cap PrivatePc = {"rm_free"} /\ "rm_free" \in AskPc \cap TmpPc
      /\ "new" \in AskPc /\ "add" \in OwnPc /\ "dec" \in AskPc
      /\ "dec" \notin OwnPc \cup CurPc \cup TmpPc \cup GotPc /\ "add" \notin TmpPc \cup GotPc
  BY DEF AskPc, TmpPc, GotPc, CurPc, OwnPc, PrivatePc, Inside, RemovePc, AddPc, GetPc
<1>1. CASE \E to \in Inside \cup Done : Quiet(t, to)
  BY <1>1, QuietFresh
<1>2. CASE SetHead(t, "rm_head_store", "rm_free", got[t])
  <2>1. /\ Step(t, "rm_head_store", "rm_free") /\ pc[t] = "rm_head_store"
        /\ UNCHANGED <<next, freed, cur, tmp, got, new>> /\ head' = got[t]
    BY <1>2 DEF SetHead, locals, Step
  <2>2. cur[t] \in Led /\ tmp[t] \in Led /\ got[t] \in Led /\ \A n \in Node : next[n] \in Led
    BY <1>0, <2>1, LedFacts
  <2>3. Harmless(t, head') /\ \A n \in Node : Harmless(t, next'[n])
    BY <2>1, <2>2 DEF Harmless
  <2> QED BY <1>0, <2>1, <2>2, <2>3, WriteFresh
<1>3. CASE SetHead(t, "add_only", "inc", new[t])
  <2>1. /\ Step(t, "add_only", "inc") /\ pc[t] = "add_only"
        /\ UNCHANGED <<next, freed, cur, tmp, got, new>> /\ head' = new[t]
    BY <1>3 DEF SetHead, locals, Step
  <2>2. pc'[t] = "inc" /\ mine(t) = new[t]
    BY <1>0, <2>1, StepPc DEF mine, Inside, AddPc
  <2>3. Harmless(t, head') /\ \A n \in Node : Harmless(t, next'[n])
    BY <1>0, <2>1, <2>2, LedFacts DEF Harmless
  <2> QED BY <2>1, <2>3, WriteFresh
<1>4. CASE AddFront(t)
  <2>1. /\ Step(t, "add_front", "inc") /\ pc[t] = "add_front"
        /\ UNCHANGED <<freed, cur, tmp, got, new>> /\ head' = new[t]
        /\ next' = [next EXCEPT ![new[t]] = cur[t]]
    BY <1>4 DEF AddFront, locals, Step
  <2>2. pc'[t] = "inc" /\ mine(t) = new[t] /\ cur[t] \in Led
    BY <1>0, <2>1, StepPc, LedFacts DEF mine, Inside, AddPc
  <2>3. \A n \in Node : next'[n] \in Led
    BY <2>1, <2>2, LedFacts DEF Typed, TypeOK
  <2>4. Harmless(t, head') /\ \A n \in Node : Harmless(t, next'[n])
    BY <1>0, <2>1, <2>2, <2>3 DEF Harmless
  <2> QED BY <2>1, <2>4, WriteFresh
<1>5. CASE SetNext(t, "rm_unlink", "rm_free", cur[t], got[t])
  <2>1. /\ Step(t, "rm_unlink", "rm_free") /\ pc[t] = "rm_unlink"
        /\ UNCHANGED <<head, freed, cur, tmp, got, new>> /\ next' = [next EXCEPT ![cur[t]] = got[t]]
    BY <1>5 DEF SetNext, locals, Step
  <2>2. cur[t] \in Led /\ tmp[t] \in Led /\ got[t] \in Led
    BY <1>0, <2>1, LedFacts
  <2>3. head' \in Led /\ \A n \in Node : next'[n] \in Led
    BY <2>1, <2>2, LedFacts DEF Typed, TypeOK
  <2> QED BY <1>0, <2>1, <2>2, <2>3, WriteFresh DEF Harmless
<1>6. CASE SetNext(t, "copy", "link", new[t], next[cur[t]])
  <2>1. /\ Step(t, "copy", "link") /\ pc[t] = "copy"
        /\ UNCHANGED <<head, freed, cur, tmp, got, new>>
        /\ next' = [next EXCEPT ![new[t]] = next[cur[t]]]
    BY <1>6 DEF SetNext, locals, Step
  <2>2. pc'[t] = "link" /\ (\A u \in Thread \ {t} : pc'[u] = pc[u])
    BY <2>1, StepPc DEF Inside, AddPc
  <2>3. cur[t] \in Node /\ cur[t] \in Led /\ next[cur[t]] \in Led
    BY <1>0, <2>1, StepPc, CurrentNode, LedFacts DEF Uses, Inside, AddPc
  <2>4. head' \in Led /\ \A n \in Node : next'[n] \in Led
    BY <2>1, <2>3, LedFacts DEF Typed, TypeOK
  <2>5. \A x : x \in Pointers(t)' => x \in Led
    BY <2>1, <2>2, <2>3, PointersAreNext DEF TmpPc, GotPc
  <2>6. mine(t)' = mine(t) /\ pc[t] \in PrivatePc
    BY <1>0, <2>1, <2>2 DEF mine
  <2>7. Others(t)
    BY <2>1 DEF Others
  <2> QED BY <2>1, <2>2, <2>4, <2>5, <2>6, <2>7, StepFresh DEF Harmless
<1>7. CASE SetNext(t, "link", "inc", cur[t], new[t]) \/ SetNext(t, "last_link", "inc", cur[t], new[t])
  <2>1. /\ Step(t, pc[t], "inc") /\ pc[t] \in {"link", "last_link"}
        /\ UNCHANGED <<head, freed, cur, tmp, got, new>> /\ next' = [next EXCEPT ![cur[t]] = new[t]]
    BY <1>7 DEF SetNext, locals, Step
  <2>2. pc'[t] = "inc" /\ mine(t) = new[t]
    BY <1>0, <2>1, StepPc DEF mine, Inside, AddPc
  <2>3. Harmless(t, new[t])
    BY <1>0, <2>1, <2>2 DEF Harmless
  <2>4. \A n \in Node : Harmless(t, next'[n])
    BY <2>1, <2>3, LedFacts DEF Harmless, Typed, TypeOK
  <2>5. Harmless(t, head')
    BY <2>1, LedFacts DEF Harmless
  <2> QED BY <2>1, <2>4, <2>5, WriteFresh
<1>8. CASE FreeNode(t)
  <2>1. /\ Step(t, "rm_free", "dec") /\ pc[t] = "rm_free"
        /\ UNCHANGED <<head, cur, tmp, got, new>> /\ next' = [next EXCEPT ![tmp[t]] = NULL]
        /\ freed' = freed \cup {tmp[t]}
    BY <1>8 DEF FreeNode, locals, Step
  <2>2. pc'[t] = "dec" /\ (\A u \in Thread \ {t} : pc'[u] = pc[u])
    BY <2>1, StepPc DEF Inside, RemovePc
  <2>3. tmp[t] \in Led
    BY <1>0, <2>1, LedFacts
  <2>4. head' \in Led /\ \A n \in Node : next'[n] \in Led
    BY <2>1, LedFacts DEF Typed, TypeOK
  <2>5. \A x : x \notin Pointers(t)'
    BY <1>0, <2>2, PointersAreNext
  <2>6. mine(t)' = mine(t) /\ pc[t] \in PrivatePc
    BY <1>0, <2>1, <2>2 DEF mine, PrivatePc
  <2>7. Others(t)
    BY <2>1 DEF Others
  <2> QED BY <2>1, <2>2, <2>3, <2>4, <2>5, <2>6, <2>7, StepFresh DEF Harmless
<1>9. CASE Allocate(t)
  <2>1. PICK n \in {t} \cup freed :
          /\ Step(t, "new", "add") /\ pc[t] = "new"
          /\ new' = [new EXCEPT ![t] = n] /\ next' = [next EXCEPT ![n] = NULL]
          /\ freed' = freed \ {n} /\ ~LedTo(n)
          /\ UNCHANGED <<head, cur, tmp, got>>
    BY <1>9 DEF Allocate, Step
  <2>2. n \in Node /\ n # NULL
    BY <2>1, NullIsNoNode DEF Typed, TypeOK
  <2>3. pc'[t] = "add" /\ (\A u \in Thread \ {t} : pc'[u] = pc[u]) /\ cur'[t] = NULL
    BY <2>1, StepPc DEF Inside, AddPc, Typed
  <2>4. mine(t)' = n /\ \A u \in Thread \ {t} : mine(u)' = mine(u)
    BY <1>0, <2>1, <2>3 DEF mine, Typed, TypeOK
  <2>5. n \notin Led
    BY <2>1, <2>2 DEF LedTo, Led
  <2>6. \A x : x \in Led' => x \in Led
    <3>1. \A u \in Thread : \A x : x \in Pointers(u)' => x \in Led
      BY <1>0, <2>1, <2>3, PointersAreNext, LedFacts
    <3>2. \A m \in Node : next'[m] \in Led
      BY <2>1, LedFacts DEF Typed, TypeOK
    <3> QED BY <2>1, <3>1, <3>2, LedFacts DEF Led
  <2>7. \A u \in Thread \ {t} : pc[u] \in PrivatePc =>
          mine(u) \notin Led /\ mine(u) \notin freed /\ mine(u) # n
    <3>1. mine(t) = t /\ pc[t] \in PrivatePc
      BY <1>0, <2>1 DEF mine, PrivatePc, OwnPc, AddPc
    <3> QED BY <2>1, <3>1 DEF Fresh
  <2>8. ASSUME NEW u \in Thread, pc'[u] \in PrivatePc
        PROVE  /\ mine(u)' \notin Led' /\ mine(u)' \notin freed'
               /\ \A v \in Thread \ {u} : pc'[v] \in PrivatePc => mine(v)' # mine(u)'
    <3>1. CASE u = t
      BY <2>1, <2>3, <2>4, <2>5, <2>6, <2>7, <3>1
    <3>2. CASE u # t
      BY <2>1, <2>3, <2>4, <2>6, <2>7, <2>8, <3>2 DEF Fresh
    <3> QED BY <3>1, <3>2
  <2> QED BY <2>8 DEF Fresh
<1>10. CASE Fault(t)
  <2>1. UNCHANGED <<head, next, freed, pc, cur, tmp, got, new>>
    BY <1>10 DEF Fault, heap, locals
  <2>2. \A u \in Thread : mine(u)' = mine(u) /\ Pointers(u)' = Pointers(u)
    BY <2>1 DEF mine, Pointers
  <2> QED BY <2>1, <2>2 DEF Fresh, Led
<1> QED BY <1>1, <1>2, <1>3, <1>4, <1>5, <1>6, <1>7, <1>8, <1>9, <1>10, Kinds
-----------------------------------------------------------------------------
(* The order of the links. *)

(* R with u placed above a and below x, where there are such nodes.        *)
Placed(R, a, u, x) ==
  R \cup {<<n, u>> : n \in {m \in Node : m = a \/ <<m, a>> \in R}}
    \cup {<<u, n>> : n \in {m \in Node : m = x \/ <<x, m>> \in R}}

LEMMA PlacedOrder ==
  ASSUME NEW R, StrictOrder(R), NEW u \in Node, Isolated(R, u),
         NEW a \in Node \cup {NULL}, NEW x \in Node \cup {NULL}, a # u, x # u,
         a = NULL \/ Upwards(R, a, x)
  PROVE  /\ StrictOrder(Placed(R, a, u, x)) /\ R \subseteq Placed(R, a, u, x)
         /\ Placed(R, a, u, x) \in SUBSET (Node \X Node)
         /\ a # NULL => <<a, u>> \in Placed(R, a, u, x)
         /\ x # NULL => <<u, x>> \in Placed(R, a, u, x)
         /\ \A v \in Node : v # u /\ v # a /\ v # x /\ Isolated(R, v)
              => Isolated(Placed(R, a, u, x), v)
<1> DEFINE Q == Placed(R, a, u, x)
<1>0. NULL \notin Node
  BY NullIsNoNode
<1>1. \A n, m \in Node :
        <<n, m>> \in Q <=> \/ <<n, m>> \in R
                           \/ m = u /\ (n = a \/ <<n, a>> \in R)
                           \/ n = u /\ (m = x \/ <<x, m>> \in R)
  BY DEF Placed
<1>2. Q \subseteq Node \X Node /\ R \subseteq Q
  <2>1. {<<n, u>> : n \in {m \in Node : m = a \/ <<m, a>> \in R}} \subseteq Node \X Node
    <3> DEFINE D == {m \in Node : m = a \/ <<m, a>> \in R}
    <3>1. \A n \in D : n \in Node
      OBVIOUS
    <3> HIDE DEF D
    <3>2. \A n \in D : <<n, u>> \in Node \X Node
      BY <3>1
    <3>3. {<<n, u>> : n \in D} \subseteq Node \X Node
      BY <3>2
    <3> QED BY <3>3 DEF D
  <2>2. {<<u, n>> : n \in {m \in Node : m = x \/ <<x, m>> \in R}} \subseteq Node \X Node
    <3> DEFINE D == {m \in Node : m = x \/ <<x, m>> \in R}
    <3>1. \A n \in D : n \in Node
      OBVIOUS
    <3> HIDE DEF D
    <3>2. \A n \in D : <<u, n>> \in Node \X Node
      BY <3>1
    <3>3. {<<u, n>> : n \in D} \subseteq Node \X Node
      BY <3>2
    <3> QED BY <3>3 DEF D
  <2> QED BY <2>1, <2>2, Zenon DEF Placed, StrictOrder
<1>3. \A n, m \in Node : <<n, m>> \in R => n # u /\ m # u
  BY DEF Isolated
<1>4. \A n : <<n, a>> \in R => a \in Node /\ n \in Node
  BY DEF StrictOrder
<1>5. \A n : <<x, n>> \in R => x \in Node /\ n \in Node
  BY DEF StrictOrder
<1> HIDE DEF Q
<1>6. \A n \in Node : <<n, n>> \notin Q
  BY <1>1, <1>3, <1>4, <1>5 DEF StrictOrder
<1>7. ASSUME NEW n \in Node, NEW m \in Node, NEW k \in Node, <<n, m>> \in Q, <<m, k>> \in Q
      PROVE  <<n, k>> \in Q
  <2>1. CASE <<n, m>> \in R /\ <<m, k>> \in R
    BY <2>1, <1>1 DEF StrictOrder
  <2>2. CASE <<n, m>> \in R /\ k = u /\ (m = a \/ <<m, a>> \in R)
    BY <2>2, <1>1, <1>4 DEF StrictOrder
  <2>3. CASE m = u /\ (n = a \/ <<n, a>> \in R) /\ m = u /\ (k = x \/ <<x, k>> \in R)
    <3>1. a \in Node /\ x \in Node
      BY <2>3, <1>4, <1>5
    <3>2. <<a, x>> \in R
      BY <3>1, <1>0 DEF Upwards
    <3>3. <<n, x>> \in R
      BY <2>3, <3>1, <3>2 DEF StrictOrder
    <3>4. <<n, k>> \in R
      BY <2>3, <3>1, <3>3 DEF StrictOrder
    <3> QED BY <3>4, <1>1
  <2>4. CASE n = u /\ (m = x \/ <<x, m>> \in R) /\ <<m, k>> \in R
    BY <2>4, <1>1, <1>5 DEF StrictOrder
  <2>5. n = u /\ (m = x \/ <<x, m>> \in R) => m # u
    BY <1>3, <1>5
  <2>6. ~ (n = u /\ (m = x \/ <<x, m>> \in R) /\ k = u /\ (m = a \/ <<m, a>> \in R))
    <3> SUFFICES ASSUME m = x \/ <<x, m>> \in R, m = a \/ <<m, a>> \in R
                 PROVE  FALSE
      OBVIOUS
    <3>1. a \in Node /\ x \in Node
      BY <1>4, <1>5
    <3>2. <<a, x>> \in R
      BY <3>1, <1>0 DEF Upwards
    <3>3. <<a, m>> \in R
      BY <3>1, <3>2 DEF StrictOrder
    <3> QED BY <3>1, <3>3 DEF StrictOrder
  <2>7. <<n, m>> \in R => m # u
    BY <1>3
  <2>8. <<m, k>> \in R => m # u
    BY <1>3
  <2>9. k = u /\ (m = a \/ <<m, a>> \in R) => m # u
    BY <1>3, <1>4
  <2> QED BY <2>1, <2>2, <2>3, <2>4, <2>5, <2>6, <2>7, <2>8, <2>9, <1>1, <1>7
<1>8. StrictOrder(Q)
  BY <1>2, <1>6, <1>7 DEF StrictOrder
<1>9. ASSUME NEW v \in Node, v # u, v # a, v # x, Isolated(R, v) PROVE Isolated(Q, v)
  <2>1. <<v, a>> \notin R /\ <<x, v>> \notin R
    BY <1>9, <1>4, <1>5 DEF Isolated
  <2> QED BY <2>1, <1>9, <1>1 DEF Isolated
<1>10. (a # NULL => <<a, u>> \in Q) /\ (x # NULL => <<u, x>> \in Q)
  BY <1>1
<1> QED BY <1>2, <1>8, <1>9, <1>10 DEF Q

LEMMA InitOrdered == Init => Ordered
<1> SUFFICES ASSUME Init PROVE Ordered
  OBVIOUS
<1>1. PICK ks \in SUBSET Key : InitialKeys(ks)
  BY Zenon DEF Init, InitialKeys
<1>2. IsFiniteSet(ks) /\ ks \subseteq Int /\ ks \subseteq Node
  BY <1>1, InitLinks
<1> DEFINE R == {p \in ks \X ks : p[1] < p[2]}
<1>3. \A a, b : <<a, b>> \in R <=> a \in ks /\ b \in ks /\ a < b
  OBVIOUS
<1>4. StrictOrder(R)
  <2>1. R \subseteq Node \X Node
    BY <1>2
  <2>3. \A a \in ks : a \in Int
    BY <1>2
  <2> HIDE DEF R
  <2>4. \A a \in Node : <<a, a>> \notin R
    BY <1>3, <2>3
  <2>5. ASSUME NEW a \in Node, NEW b \in Node, NEW c \in Node, <<a, b>> \in R, <<b, c>> \in R
        PROVE  <<a, c>> \in R
    <3>1. a \in ks /\ b \in ks /\ c \in ks /\ a < b /\ b < c
      BY <1>3, <2>5
    <3>2. a < c
      BY <3>1, <2>3
    <3> QED BY <3>1, <3>2, <1>3
  <2> QED BY <2>1, <2>4, <2>5 DEF StrictOrder
<1> HIDE DEF R
<1>5. ASSUME NEW n \in Node PROVE Upwards(R, n, next[n])
  <2>1. CASE n \in ks /\ next[n] # NULL
    <3>1. next[n] \in ks /\ next[n] > n
      BY <1>1, <2>1, InitLinks
    <3>2. n < next[n]
      BY <1>2, <2>1, <3>1
    <3> QED BY <1>3, <2>1, <3>1, <3>2 DEF Upwards
  <2>2. CASE ~(n \in ks /\ next[n] # NULL)
    BY <1>1, <2>2, InitLinks DEF Upwards
  <2> QED BY <2>1, <2>2
<1>6. ASSUME NEW t \in Thread PROVE OrderedThread(R, t)
  <2>1. t \notin ks /\ pc[t] = "idle" /\ mine(t) = t
    BY NullIsNoNode DEF Init, mine, OwnPc, AddPc
  <2> QED BY <2>1, <1>3 DEF OrderedThread, Isolated
<1>7. OrderedBy(R)
  BY <1>4, <1>5, <1>6 DEF OrderedBy
<1> QED BY <1>4, <1>7 DEF Ordered, StrictOrder

LEMMA MineNode ==
  ASSUME Typed, NEW t \in Thread
  PROVE  mine(t) \in Node
BY NullIsNoNode DEF Typed, mine

(* A step may raise new pairs in the order, as long as the private nodes   *)
(* of the others stay unrelated.                                           *)
LEMMA MoreOrder ==
  ASSUME NEW R, OrderedBy(R), NEW Q \in SUBSET (Node \X Node), StrictOrder(Q), R \subseteq Q,
         NEW t \in Thread, Others(t), \A u \in Thread \ {t} : pc'[u] = pc[u],
         \A n \in Node : next'[n] = next[n] \/ Upwards(Q, n, next'[n]),
         \A u \in Thread \ {t} :
           pc[u] \in PrivatePc \ {"link"} /\ Isolated(R, mine(u)) => Isolated(Q, mine(u)),
         pc'[t] = "link" => <<cur'[t], new'[t]>> \in Q,
         pc'[t] \in {"rm_skip_next", "rm_unlink"} => Upwards(Q, cur'[t], got'[t]),
         pc'[t] \in PrivatePc \ {"link"} => Isolated(Q, mine(t)')
  PROVE  Ordered'
<1>1. \A n \in Node : Upwards(Q, n, next'[n])
  BY DEF OrderedBy, Upwards
<1>2. ASSUME NEW u \in Thread PROVE OrderedThread(Q, u)'
  <2>1. CASE u = t
    BY <2>1 DEF OrderedThread
  <2>2. CASE u # t
    <3>1. mine(u)' = mine(u) /\ pc'[u] = pc[u] /\ cur'[u] = cur[u] /\ new'[u] = new[u] /\ got'[u] = got[u]
      BY <2>2 DEF mine, Others
    <3>2. OrderedThread(R, u)
      BY DEF OrderedBy
    <3>3. pc[u] = "link" => <<cur[u], new[u]>> \in Q
      BY <3>2 DEF OrderedThread
    <3>4. pc[u] \in {"rm_skip_next", "rm_unlink"} => Upwards(Q, cur[u], got[u])
      BY <3>2 DEF OrderedThread, Upwards
    <3>5. pc[u] \in PrivatePc \ {"link"} => Isolated(Q, mine(u))
      BY <2>2, <3>2 DEF OrderedThread
    <3> QED BY <3>1, <3>3, <3>4, <3>5 DEF OrderedThread
  <2> QED BY <2>1, <2>2
<1>3. OrderedBy(Q)'
  BY <1>1, <1>2 DEF OrderedBy
<1> QED BY <1>3 DEF Ordered

LEMMA BeginOrdered ==
  ASSUME Typed, Ordered, NEW t \in Thread, Begin(t)
  PROVE  Ordered'
<1>1. PICK R \in SUBSET (Node \X Node) : OrderedBy(R)
  BY DEF Ordered
<1>2. /\ pc'[t] \in {"rm", "get"} /\ pc[t] = "idle"
      /\ (\A u \in Thread \ {t} : pc'[u] = pc[u]) /\ Others(t) /\ UNCHANGED next
  BY DEF Begin, heap, Others, Typed, TypeOK
<1>3. /\ pc[t] \in PrivatePc \ {"link"} /\ pc'[t] \notin {"link", "rm_skip_next", "rm_unlink"}
      /\ mine(t)' = mine(t)
  BY <1>2 DEF PrivatePc, AskPc, mine, OwnPc, AddPc
<1>4. StrictOrder(R) /\ Isolated(R, mine(t))
  BY <1>1, <1>3 DEF OrderedBy, OrderedThread
<1> QED BY <1>1, <1>2, <1>3, <1>4, MoreOrder

LEMMA QuietOrdered ==
  ASSUME Typed, Ordered, NEW t \in Thread, NEW to \in Inside \cup Done, Quiet(t, to)
  PROVE  Ordered'
<1>1. PICK R \in SUBSET (Node \X Node) : OrderedBy(R)
  BY DEF Ordered
<1>2. /\ pc'[t] = to /\ (\A u \in Thread \ {t} : pc'[u] = pc[u])
      /\ Others(t) /\ UNCHANGED next /\ to # "link"
  BY StepPc DEF Quiet
<1>3. StrictOrder(R) /\ OrderedThread(R, t) /\ \A n \in Node : Upwards(R, n, next[n])
  BY <1>1 DEF OrderedBy
<1>4. to \in PrivatePc => Isolated(R, mine(t)')
  <2>1. AskPc \cap OwnPc = {} /\ "link" \notin AskPc
    BY DEF AskPc, OwnPc, GetPc, RemovePc, AddPc
  <2>2. to \in PrivatePc => pc[t] \in PrivatePc /\ mine(t)' = mine(t)
    BY <1>2, <2>1 DEF Quiet, mine, PrivatePc
  <2> QED BY <1>3, <2>2 DEF OrderedThread, Quiet
<1>5. to = "rm_skip_next" => Upwards(R, cur'[t], got'[t])
  BY <1>3 DEF Quiet
<1>6. to = "rm_unlink" => Upwards(R, cur'[t], got'[t])
  <2> SUFFICES ASSUME to = "rm_unlink" PROVE Upwards(R, cur[t], next[got[t]])
    BY DEF Quiet
  <2>1. got[t] \in Node /\ cur[t] \in Node \cup {NULL} /\ Upwards(R, cur[t], got[t])
    BY <1>3 DEF Quiet, OrderedThread, Typed, TypeOK
  <2>2. <<cur[t], got[t]>> \in R /\ Upwards(R, got[t], next[got[t]]) /\ got[t] # NULL
    BY <1>3, <2>1, NullIsNoNode DEF Upwards
  <2>3. cur[t] \in Node
    BY <1>3, <2>2 DEF StrictOrder
  <2>4. next[got[t]] \in Node \cup {NULL}
    BY <2>1 DEF Typed, TypeOK
  <2> QED BY <1>3, <2>1, <2>2, <2>3, <2>4 DEF StrictOrder, Upwards
<1> QED BY <1>1, <1>2, <1>3, <1>4, <1>5, <1>6, MoreOrder

LEMMA AdvanceOrdered ==
  ASSUME Typed, Fresh, Ordered, NEW t \in Thread, Advance(t), ~reused'
  PROVE  Ordered'
<1>0. /\ "rm_head_store" \in PrivatePc /\ "rm_unlink" \in PrivatePc /\ "rm_free" \in PrivatePc
      /\ {"rm_head_store", "rm_unlink", "rm_free", "new"} \cap OwnPc = {}
      /\ {"add_only", "add_front", "copy", "link", "last_link", "add"} \subseteq OwnPc \cap PrivatePc
      /\ {"add_front", "copy", "link", "last_link"} \subseteq CurPc
      /\ "inc" \notin PrivatePc /\ "new" \in PrivatePc /\ "dec" \in PrivatePc
      /\ "dec" \notin OwnPc
      /\ {"rm_free", "inc", "link", "dec", "add"} \subseteq Inside
  BY DEF AskPc, OwnPc, PrivatePc, CurPc, Inside, RemovePc, AddPc, GetPc
<1>1. PICK R \in SUBSET (Node \X Node) : OrderedBy(R)
  BY DEF Ordered
<1>2. /\ StrictOrder(R) /\ \A u \in Thread : OrderedThread(R, u)
      /\ \A n \in Node : Upwards(R, n, next[n])
  BY <1>1 DEF OrderedBy
<1>3. CASE \E to \in Inside \cup Done : Quiet(t, to)
  BY <1>3, QuietOrdered
<1>4. CASE SetHead(t, "rm_head_store", "rm_free", got[t])
  <2>1. /\ Step(t, "rm_head_store", "rm_free") /\ pc[t] = "rm_head_store"
        /\ UNCHANGED <<next, cur, tmp, got, new>>
    BY <1>4 DEF SetHead, locals, Step
  <2>2. pc'[t] = "rm_free" /\ (\A u \in Thread \ {t} : pc'[u] = pc[u]) /\ Others(t)
    BY <1>0, <2>1, StepPc DEF Others
  <2>3. Isolated(R, mine(t)')
    BY <1>0, <1>2, <2>1, <2>2 DEF OrderedThread, mine
  <2> QED BY <1>1, <1>2, <2>1, <2>2, <2>3, MoreOrder
<1>5. CASE SetHead(t, "add_only", "inc", new[t])
  <2>1. /\ Step(t, "add_only", "inc") /\ UNCHANGED <<next, cur, tmp, got, new>>
    BY <1>5 DEF SetHead, locals
  <2>2. pc'[t] = "inc" /\ (\A u \in Thread \ {t} : pc'[u] = pc[u]) /\ Others(t)
    BY <1>0, <2>1, StepPc DEF Others
  <2> QED BY <1>0, <1>1, <1>2, <2>1, <2>2, MoreOrder
<1>6. CASE AddFront(t)
  <2>1. /\ Step(t, "add_front", "inc") /\ pc[t] = "add_front"
        /\ next' = [next EXCEPT ![new[t]] = cur[t]] /\ UNCHANGED <<cur, tmp, got, new>>
    BY <1>6 DEF AddFront, locals, Step
  <2>2. pc'[t] = "inc" /\ (\A u \in Thread \ {t} : pc'[u] = pc[u]) /\ Others(t)
    BY <1>0, <2>1, StepPc DEF Others
  <2>0. PICK a \in Node \cup {NULL} : a = NULL
    OBVIOUS
  <2> DEFINE n == new[t]
             Q == Placed(R, a, n, cur[t])
  <2>3. mine(t) = n /\ n \in Node /\ cur[t] \in Node \cup {NULL} /\ cur[t] \in Led
    BY <1>0, <2>1, LedFacts DEF mine, Typed, TypeOK
  <2>4. a # n /\ cur[t] # n /\ Isolated(R, n) /\ (a = NULL \/ Upwards(R, a, cur[t]))
    <3>1. n \notin Led /\ NULL \notin Node
      BY <1>0, <2>1, <2>3, NullIsNoNode DEF Fresh
    <3>2. Isolated(R, n)
      BY <1>0, <1>2, <2>1, <2>3 DEF OrderedThread
    <3> QED BY <2>0, <2>3, <3>1, <3>2
  <2>5. /\ StrictOrder(Q) /\ R \subseteq Q /\ Q \in SUBSET (Node \X Node)
        /\ a # NULL => <<a, n>> \in Q
        /\ cur[t] # NULL => <<n, cur[t]>> \in Q
        /\ \A v \in Node : v # n /\ v # a /\ v # cur[t] /\ Isolated(R, v) => Isolated(Q, v)
    <3>1. n \in Node /\ cur[t] \in Node \cup {NULL} /\ a # n /\ cur[t] # n /\ Isolated(R, n)
      BY <2>3, <2>4
    <3>2. a = NULL \/ Upwards(R, a, cur[t])
      BY <2>0
    <3> DEFINE c == cur[t]
    <3> HIDE DEF n, c
    <3> QED BY <1>2, <3>1, <3>2, PlacedOrder DEF c
  <2> HIDE DEF Q
  <2>6. \A m \in Node : next'[m] = next[m] \/ Upwards(Q, m, next'[m])
    BY <2>1, <2>3, <2>5 DEF Upwards, Typed, TypeOK
  <2>7. \A u \in Thread \ {t} :
          pc[u] \in PrivatePc \ {"link"} /\ Isolated(R, mine(u)) => Isolated(Q, mine(u))
    <3> SUFFICES ASSUME NEW u \in Thread \ {t}, pc[u] \in PrivatePc, Isolated(R, mine(u))
                 PROVE  Isolated(Q, mine(u))
      OBVIOUS
    <3>1. mine(u) \in Node /\ mine(u) # n /\ mine(u) \notin Led
      BY <1>0, <2>1, <2>3, MineNode DEF Fresh
    <3>2. mine(u) # a
      BY <2>0, <3>1, NullIsNoNode
    <3> QED BY <2>3, <2>5, <3>1, <3>2
  <2> QED BY <1>0, <1>1, <2>2, <2>5, <2>6, <2>7, MoreOrder
<1>7. CASE SetNext(t, "rm_unlink", "rm_free", cur[t], got[t])
  <2>1. /\ Step(t, "rm_unlink", "rm_free") /\ pc[t] = "rm_unlink"
        /\ next' = [next EXCEPT ![cur[t]] = got[t]] /\ UNCHANGED <<cur, tmp, got, new>>
    BY <1>7 DEF SetNext, locals, Step
  <2>2. pc'[t] = "rm_free" /\ (\A u \in Thread \ {t} : pc'[u] = pc[u]) /\ Others(t)
    BY <1>0, <2>1, StepPc DEF Others
  <2>3. Isolated(R, mine(t)')
    BY <1>0, <1>2, <2>1, <2>2 DEF OrderedThread, mine
  <2>4. \A m \in Node : next'[m] = next[m] \/ Upwards(R, m, next'[m])
    BY <1>2, <2>1 DEF OrderedThread, Typed, TypeOK
  <2> QED BY <1>1, <1>2, <2>2, <2>3, <2>4, MoreOrder
<1>8. CASE SetNext(t, "copy", "link", new[t], next[cur[t]])
  <2>1. /\ Step(t, "copy", "link") /\ pc[t] = "copy"
        /\ next' = [next EXCEPT ![new[t]] = next[cur[t]]] /\ UNCHANGED <<cur, tmp, got, new>>
    BY <1>8 DEF SetNext, locals, Step
  <2>2. pc'[t] = "link" /\ (\A u \in Thread \ {t} : pc'[u] = pc[u]) /\ Others(t)
    BY <1>0, <2>1, StepPc DEF Others
  <2>3. cur[t] \in Node /\ next[cur[t]] \in Node \cup {NULL}
    BY <2>1, StepPc, CurrentNode, <1>0 DEF Uses
  <2> DEFINE n == new[t]
             a == cur[t]
             x == next[cur[t]]
             Q == Placed(R, a, n, x)
  <2>4. mine(t) = n /\ n \in Node /\ a \in Led /\ x \in Led
    BY <1>0, <2>1, <2>3, LedFacts DEF mine, Typed, TypeOK
  <2>5. n \notin Led /\ Isolated(R, n) /\ Upwards(R, a, x)
    BY <1>0, <1>2, <2>1, <2>3, <2>4 DEF Fresh, OrderedThread
  <2>6. /\ StrictOrder(Q) /\ R \subseteq Q /\ Q \in SUBSET (Node \X Node)
        /\ a # NULL => <<a, n>> \in Q
        /\ x # NULL => <<n, x>> \in Q
        /\ \A v \in Node : v # n /\ v # a /\ v # x /\ Isolated(R, v) => Isolated(Q, v)
    <3>1. a # n /\ x # n /\ a \in Node \cup {NULL} /\ x \in Node \cup {NULL}
      BY <2>3, <2>4, <2>5
    <3> HIDE DEF n, a, x
    <3> QED BY <1>2, <2>4, <2>5, <3>1, PlacedOrder
  <2> HIDE DEF Q
  <2>7. \A m \in Node : next'[m] = next[m] \/ Upwards(Q, m, next'[m])
    BY <2>1, <2>4, <2>6 DEF Upwards, Typed, TypeOK
  <2>8. \A u \in Thread \ {t} :
          pc[u] \in PrivatePc \ {"link"} /\ Isolated(R, mine(u)) => Isolated(Q, mine(u))
    <3> SUFFICES ASSUME NEW u \in Thread \ {t}, pc[u] \in PrivatePc, Isolated(R, mine(u))
                 PROVE  Isolated(Q, mine(u))
      OBVIOUS
    <3>1. mine(u) \in Node /\ mine(u) # n /\ mine(u) \notin Led
      BY <1>0, <2>1, <2>4, MineNode DEF Fresh
    <3> QED BY <2>4, <2>6, <3>1
  <2>9. <<cur'[t], new'[t]>> \in Q
    BY <2>1, <2>3, <2>6, NullIsNoNode
  <2> QED BY <1>1, <2>2, <2>6, <2>7, <2>8, <2>9, MoreOrder
<1>9. CASE SetNext(t, "link", "inc", cur[t], new[t])
  <2>1. /\ Step(t, "link", "inc") /\ pc[t] = "link"
        /\ next' = [next EXCEPT ![cur[t]] = new[t]] /\ UNCHANGED <<cur, tmp, got, new>>
    BY <1>9 DEF SetNext, locals, Step
  <2>2. pc'[t] = "inc" /\ (\A u \in Thread \ {t} : pc'[u] = pc[u]) /\ Others(t)
    BY <1>0, <2>1, StepPc DEF Others
  <2>3. \A m \in Node : next'[m] = next[m] \/ Upwards(R, m, next'[m])
    BY <1>2, <2>1 DEF OrderedThread, Upwards, Typed, TypeOK
  <2> QED BY <1>0, <1>1, <1>2, <2>2, <2>3, MoreOrder
<1>10. CASE SetNext(t, "last_link", "inc", cur[t], new[t])
  <2>1. /\ Step(t, "last_link", "inc") /\ pc[t] = "last_link"
        /\ next' = [next EXCEPT ![cur[t]] = new[t]] /\ UNCHANGED <<cur, tmp, got, new>>
    BY <1>10 DEF SetNext, locals, Step
  <2>2. pc'[t] = "inc" /\ (\A u \in Thread \ {t} : pc'[u] = pc[u]) /\ Others(t)
    BY <1>0, <2>1, StepPc DEF Others
  <2>3. cur[t] \in Node
    BY <2>1, StepPc, CurrentNode, <1>0 DEF Uses
  <2>0. PICK x \in Node \cup {NULL} : x = NULL
    OBVIOUS
  <2> DEFINE n == new[t]
             a == cur[t]
             Q == Placed(R, a, n, x)
  <2>4. mine(t) = n /\ n \in Node /\ a \in Led /\ x \in Led
    BY <1>0, <2>0, <2>1, <2>3, LedFacts DEF mine, Typed, TypeOK
  <2>5. n \notin Led /\ Isolated(R, n) /\ Upwards(R, a, x)
    BY <1>0, <1>2, <2>0, <2>1, <2>4 DEF Fresh, OrderedThread, Upwards
  <2>6. /\ StrictOrder(Q) /\ R \subseteq Q /\ Q \in SUBSET (Node \X Node)
        /\ a # NULL => <<a, n>> \in Q
        /\ x # NULL => <<n, x>> \in Q
        /\ \A v \in Node : v # n /\ v # a /\ v # x /\ Isolated(R, v) => Isolated(Q, v)
    <3>1. a # n /\ x # n /\ a \in Node \cup {NULL} /\ x \in Node \cup {NULL}
      BY <2>3, <2>4, <2>5
    <3> HIDE DEF n, a
    <3> QED BY <1>2, <2>4, <2>5, <3>1, PlacedOrder
  <2> HIDE DEF Q
  <2>7. \A m \in Node : next'[m] = next[m] \/ Upwards(Q, m, next'[m])
    BY <2>1, <2>3, <2>6, NullIsNoNode DEF Upwards, Typed, TypeOK
  <2>8. \A u \in Thread \ {t} :
          pc[u] \in PrivatePc \ {"link"} /\ Isolated(R, mine(u)) => Isolated(Q, mine(u))
    <3> SUFFICES ASSUME NEW u \in Thread \ {t}, pc[u] \in PrivatePc, Isolated(R, mine(u))
                 PROVE  Isolated(Q, mine(u))
      OBVIOUS
    <3>1. mine(u) \in Node /\ mine(u) # n /\ mine(u) \notin Led
      BY <1>0, <2>1, <2>4, MineNode DEF Fresh
    <3> QED BY <2>4, <2>6, <3>1
  <2> QED BY <1>0, <1>1, <2>2, <2>6, <2>7, <2>8, MoreOrder
<1>11. CASE FreeNode(t)
  <2>1. /\ Step(t, "rm_free", "dec") /\ pc[t] = "rm_free"
        /\ UNCHANGED <<cur, tmp, got, new>> /\ next' = [next EXCEPT ![tmp[t]] = NULL]
    BY <1>11 DEF FreeNode, locals, Step
  <2>2. pc'[t] = "dec" /\ (\A u \in Thread \ {t} : pc'[u] = pc[u]) /\ Others(t)
    BY <1>0, <2>1, StepPc DEF Others
  <2>3. Isolated(R, mine(t)')
    BY <1>0, <1>2, <2>1, <2>2 DEF OrderedThread, mine
  <2>4. \A m \in Node : next'[m] = next[m] \/ Upwards(R, m, next'[m])
    BY <2>1 DEF Upwards, Typed, TypeOK
  <2> QED BY <1>1, <1>2, <2>2, <2>3, <2>4, MoreOrder
<1>12. CASE Allocate(t)
  <2>1. PICK n \in {t} \cup freed :
          /\ Step(t, "new", "add") /\ pc[t] = "new"
          /\ new' = [new EXCEPT ![t] = n] /\ next' = [next EXCEPT ![n] = NULL]
          /\ ~LedTo(n) /\ UNCHANGED <<head, cur, tmp, got>>
    BY <1>12 DEF Allocate, Step
  <2>2. n \in Node /\ n # NULL
    BY <2>1, NullIsNoNode DEF Typed, TypeOK
  <2>3. pc'[t] = "add" /\ (\A u \in Thread \ {t} : pc'[u] = pc[u]) /\ Others(t) /\ mine(t)' = n
    BY <1>0, <2>1, StepPc DEF Others, mine, Typed, TypeOK
  <2>4. n \notin Led
    BY <2>1, <2>2 DEF LedTo, Led
  <2> DEFINE Q == {p \in R : p[1] # n /\ p[2] # n}
  <2>5. Q \in SUBSET (Node \X Node)
    OBVIOUS
  <2>6. \A a, b : <<a, b>> \in Q <=> <<a, b>> \in R /\ a # n /\ b # n
    OBVIOUS
  <2> HIDE DEF Q
  <2>7. StrictOrder(Q) /\ Isolated(Q, n) /\ \A v : Isolated(R, v) => Isolated(Q, v)
    <3>1. \A a \in Node : <<a, a>> \notin Q
      BY <1>2, <2>6 DEF StrictOrder
    <3>2. \A a, b, c \in Node : <<a, b>> \in Q /\ <<b, c>> \in Q => <<a, c>> \in Q
      BY <1>2, <2>6 DEF StrictOrder
    <3>3. \A v : Isolated(R, v) => Isolated(Q, v)
      BY <2>6 DEF Isolated
    <3> QED BY <2>5, <2>6, <3>1, <3>2, <3>3 DEF StrictOrder, Isolated
  <2>8. \A m \in Node : Upwards(Q, m, next'[m])
    <3> SUFFICES ASSUME NEW m \in Node, next'[m] # NULL PROVE <<m, next'[m]>> \in Q
      BY DEF Upwards
    <3>1. m # n /\ next'[m] = next[m]
      BY <2>1 DEF Typed, TypeOK
    <3>2. next[m] # n
      BY <2>4, LedFacts
    <3> QED BY <1>2, <2>6, <3>1, <3>2 DEF Upwards
  <2>9. ASSUME NEW u \in Thread PROVE OrderedThread(Q, u)'
    <3>1. CASE u = t
      BY <2>3, <2>7, <3>1 DEF OrderedThread
    <3>2. CASE u # t
      <4>1. mine(u)' = mine(u) /\ pc'[u] = pc[u] /\ cur'[u] = cur[u] /\ new'[u] = new[u] /\ got'[u] = got[u]
        BY <2>3, <3>2 DEF mine, Others
      <4>2. OrderedThread(R, u)
        BY <1>2
      <4>3. pc[u] = "link" => <<cur[u], new[u]>> \in Q
        <5> SUFFICES ASSUME pc[u] = "link" PROVE <<cur[u], new[u]>> \in Q
          OBVIOUS
        <5>1. cur[u] # n
          BY <1>0, <2>4, LedFacts
        <5>2. new[u] = mine(u) /\ pc[u] \in PrivatePc
          BY <1>0 DEF mine
        <5>3. new[u] # n
          <6>1. mine(t) = t /\ pc[t] \in PrivatePc
            BY <1>0, <2>1 DEF mine
          <6> QED BY <2>1, <3>2, <5>2, <6>1 DEF Fresh
        <5> QED BY <2>6, <4>2, <5>1, <5>3 DEF OrderedThread
      <4>4. pc[u] \in {"rm_skip_next", "rm_unlink"} => Upwards(Q, cur[u], got[u])
        <5> SUFFICES ASSUME pc[u] \in {"rm_skip_next", "rm_unlink"}, got[u] # NULL
                     PROVE <<cur[u], got[u]>> \in Q
          BY DEF Upwards
        <5>1. cur[u] # n /\ got[u] # n
          BY <2>4, LedFacts DEF CurPc, GotPc, Inside, RemovePc
        <5> QED BY <2>6, <4>2, <5>1 DEF OrderedThread, Upwards
      <4>5. pc[u] \in PrivatePc \ {"link"} => Isolated(Q, mine(u))
        BY <2>7, <4>2 DEF OrderedThread
      <4> QED BY <4>1, <4>3, <4>4, <4>5 DEF OrderedThread
    <3> QED BY <3>1, <3>2
  <2>10. OrderedBy(Q)'
    BY <2>7, <2>8, <2>9 DEF OrderedBy
  <2> QED BY <2>5, <2>10 DEF Ordered
<1>13. CASE Fault(t)
  <2>1. UNCHANGED <<next, pc, cur, tmp, got, new>>
    BY <1>13 DEF Fault, heap, locals
  <2>2. \A u \in Thread : mine(u)' = mine(u)
    BY <2>1 DEF mine
  <2>3. \A u \in Thread : OrderedThread(R, u)'
    BY <1>2, <2>1, <2>2 DEF OrderedThread
  <2> QED BY <1>1, <2>1, <2>3 DEF Ordered, OrderedBy
<1> QED BY <1>3, <1>4, <1>5, <1>6, <1>7, <1>8, <1>9, <1>10, <1>11, <1>12, <1>13, Kinds

(* Along a walk the order rises.                                           *)
LEMMA WalkRises ==
  ASSUME LinkTypes, NEW R, OrderedBy(R),
         NEW i \in 0..Cardinality(Node), NEW j \in 0..Cardinality(Node), i < j, Place[j] # NULL
  PROVE  /\ Place[i] \in Node /\ Place[j] \in Node
         /\ <<Place[i], Place[j]>> \in R
<1> DEFINE N == Cardinality(Node)
           Bad == {k \in 0..N : i < k /\ Place[k] # NULL /\ <<Place[i], Place[k]>> \notin R}
<1>0. N \in Nat
  BY FiniteNode
<1>1. Bad = {}
  <2> SUFFICES ASSUME Bad # {} PROVE FALSE
    OBVIOUS
  <2>1. PICK m \in Bad : \A y \in Bad : m <= y
    <3>1. Bad \subseteq Nat
      BY <1>0
    <3> HIDE DEF Bad
    <3> QED BY <3>1, LeastElement
  <2>2. /\ m \in 1..N /\ m - 1 \in 0..N /\ ~(m <= m - 1)
        /\ m - 1 = i \/ i < m - 1
    BY <1>0, <2>1
  <2>3. Place[m] # NULL /\ <<Place[i], Place[m]>> \notin R
    BY <2>1
  <2>4. Place[m - 1] # NULL
    BY <2>2, <2>3, PlaceDef
  <2>5. Place[m] = next[Place[m - 1]] /\ Place[m - 1] \in Node
    BY <2>2, <2>4, PlaceDef, PlaceType
  <2>6. <<Place[m - 1], Place[m]>> \in R
    BY <2>3, <2>5 DEF OrderedBy, Upwards
  <2>7. CASE m - 1 = i
    BY <2>3, <2>6, <2>7
  <2>8. CASE i < m - 1
    <3>1. <<Place[i], Place[m - 1]>> \in R
      BY <2>1, <2>2, <2>4, <2>8
    <3>2. Place[i] \in Node /\ Place[m] \in Node
      BY <3>1, <2>6 DEF OrderedBy, StrictOrder
    <3> QED BY <3>1, <3>2, <2>3, <2>5, <2>6 DEF OrderedBy, StrictOrder
  <2> QED BY <2>2, <2>7, <2>8
<1>2. <<Place[i], Place[j]>> \in R
  BY <1>1
<1> QED BY <1>2 DEF OrderedBy, StrictOrder

LEMMA OrderedEnds ==
  ASSUME LinkTypes, Ordered
  PROVE  Place[Cardinality(Node)] = NULL
<1> DEFINE N == Cardinality(Node)
           f == [i \in 0..N |-> Place[i]]
<1> SUFFICES ASSUME Place[N] # NULL PROVE FALSE
  OBVIOUS
<1>0. N \in Nat /\ IsFiniteSet(Node)
  BY FiniteNode
<1>1. PICK R \in SUBSET (Node \X Node) : OrderedBy(R)
  BY DEF Ordered
<1>2. \A i \in 0..N : Place[i] # NULL
  BY <1>0, PlaceType
<1>3. f \in [0..N -> Node]
  BY <1>2, PlaceType
<1>4. IsFiniteSet(0..N) /\ Cardinality(Node) < Cardinality(0..N)
  <2>1. IsFiniteSet(0..N) /\ Cardinality(0..N) = N + 1
    BY <1>0, FS_Interval, Z3
  <2> QED BY <1>0, <2>1
<1>5. PICK x \in 0..N, y \in 0..N : x # y /\ f[x] = f[y]
  <2> HIDE DEF f
  <2> QED BY <1>0, <1>3, <1>4, FS_PigeonHole
<1>6. Place[x] = Place[y] /\ (x < y \/ y < x)
  BY <1>0, <1>5
<1>7. <<Place[x], Place[x]>> \in R /\ Place[x] \in Node
  BY <1>1, <1>2, <1>6, WalkRises
<1> QED BY <1>1, <1>7 DEF OrderedBy, StrictOrder

-----------------------------------------------------------------------------
(* The settled nodes. *)

LEMMA OnlyInsertsClean ==
  ASSUME Typed, OnlyInserts
  PROVE  Clean
BY DEF Typed, OnlyInserts, Clean, RemovePc

LEMMA InitIntact == Init => Intact
<1> SUFFICES ASSUME Init PROVE Intact
  OBVIOUS
<1>1. PICK ks \in SUBSET Key : InitialKeys(ks)
  BY Zenon DEF Init, InitialKeys
<1>2. ks \subseteq Int /\ ks \subseteq Node
  BY <1>1, InitLinks
<1> DEFINE U == [s \in ks |-> {n \in ks : n <= s}]
<1>3. U \in [ks -> SUBSET Node]
  BY <1>2
<1>4. ASSUME NEW s \in ks
      PROVE  s \in U[s] /\ head \in U[s] /\ \A n \in Before(U, s) : next[n] \in U[s]
  <2>1. U[s] = {n \in ks : n <= s} /\ s \in Int
    BY <1>2
  <2> HIDE DEF U
  <2>2. head \in ks /\ head <= s
    BY <1>1, InitLinks
  <2>3. ASSUME NEW n \in Before(U, s) PROVE next[n] \in U[s]
    <3>1. n \in ks /\ n \in Int /\ n <= s /\ n # s
      BY <1>2, <2>1 DEF Before
    <3>2. s > n /\ ~(s <= n)
      BY <2>1, <3>1
    <3>3. next[n] # NULL /\ next[n] <= s
      BY <1>1, <3>1, <3>2, InitLinks
    <3>4. n \in Node
      BY <1>2, <3>1
    <3>5. next[n] \in ks
      BY <1>1, <3>3, <3>4, InitLinks
    <3> QED BY <2>1, <3>3, <3>5
  <2> QED BY <2>1, <2>2, <2>3
<1>5. \A n \in ks : entry[n].key = n
  BY <1>2, SharedListAssumption DEF Init
<1>6. settled = {entry[n].key : n \in ks}
  BY <1>1, <1>5 DEF InitialKeys
<1>7. ASSUME NEW t \in Thread PROVE PathThread(ks, U, t)
  <2>1. t \notin ks /\ pc[t] = "idle"
    BY NullIsNoNode DEF Init
  <2>2. \A s \in ks : t \notin U[s]
    BY <2>1
  <2> HIDE DEF U
  <2> QED BY <2>1, <2>2 DEF PathThread, OwnPc, RemovePc, AddPc, WalkPc
<1> HIDE DEF U
<1>8. Paths(ks, U)
  BY <1>2, <1>3, <1>4, <1>7 DEF Paths
<1>9. freed = {} /\ dangling = {} /\ ~reused
  BY DEF Init
<1> QED BY <1>2, <1>3, <1>6, <1>8, <1>9 DEF Intact

(* A walk from the head meets every settled node.                          *)
LEMMA SettledMember ==
  ASSUME LinkTypes, Ordered, NEW S, NEW U, Paths(S, U), NEW s \in S
  PROVE  s \in Members
<1> DEFINE N == Cardinality(Node)
           Bad == {i \in 0..N : Place[i] \notin U[s]}
<1> SUFFICES ASSUME s \notin Members PROVE FALSE
  OBVIOUS
<1>0. N \in Nat
  BY FiniteNode
<1>1. /\ s \in Node /\ U[s] \subseteq Node /\ head \in U[s]
      /\ \A n \in U[s] : n # s => next[n] \in U[s]
  BY DEF Paths, Before
<1>2. \A i \in 0..N : Place[i] # NULL => Place[i] # s
  BY DEF Members
<1>3. Bad = {}
  <2> SUFFICES ASSUME Bad # {} PROVE FALSE
    OBVIOUS
  <2>1. PICK m \in Bad : \A y \in Bad : m <= y
    <3>1. Bad \subseteq Nat
      BY <1>0
    <3> HIDE DEF Bad
    <3> QED BY <3>1, LeastElement
  <2>2. m # 0
    BY <1>1, <2>1, PlaceDef
  <2>3. m \in 1..N /\ m - 1 \in 0..N /\ ~(m <= m - 1)
    BY <1>0, <2>1, <2>2
  <2>4. Place[m - 1] \in U[s]
    BY <2>1, <2>3
  <2>5. Place[m - 1] # NULL /\ Place[m - 1] # s
    BY <1>1, <1>2, <2>3, <2>4, NullIsNoNode
  <2>6. Place[m] = next[Place[m - 1]]
    BY <2>3, <2>5, PlaceDef
  <2> QED BY <1>1, <2>1, <2>4, <2>5, <2>6
<1>4. N \in 0..N
  BY <1>0
<1>5. Place[N] \in U[s]
  BY <1>3, <1>4
<1> QED BY <1>1, <1>5, OrderedEnds, NullIsNoNode

LEMMA MembersLed == LinkTypes => Members \subseteq Led
<1> SUFFICES ASSUME LinkTypes, NEW i \in 0..Cardinality(Node), Place[i] # NULL
             PROVE  Place[i] \in Led
  BY DEF Members
<1>1. CASE i = 0
  BY <1>1, PlaceDef, LedFacts
<1>2. CASE i # 0
  <2>1. i \in 1..Cardinality(Node) /\ i - 1 \in 0..Cardinality(Node)
    BY <1>2, FiniteNode
  <2>2. Place[i] = next[Place[i - 1]] /\ Place[i - 1] \in Node
    BY <2>1, PlaceDef, PlaceType
  <2> QED BY <2>2, LedFacts
<1> QED BY <1>1, <1>2

(* The walk to a node of the list.                                         *)
LEMMA WalkTo ==
  ASSUME LinkTypes, NEW s \in Members
  PROVE  \E T \in SUBSET Members :
           s \in T /\ head \in T /\ \A n \in T \ {s} : next[n] \in T
<1> DEFINE N == Cardinality(Node)
<1>0. N \in Nat
  BY FiniteNode
<1>1. PICK i \in 0..N : s = Place[i] /\ s # NULL
  BY DEF Members
<1> DEFINE T == {Place[j] : j \in 0..i}
<1>2. \A j \in 0..i : j \in 0..N /\ Place[j] # NULL
  <2> SUFFICES ASSUME NEW j \in 0..i, Place[j] = NULL PROVE FALSE
    BY <1>0
  <2>1. j \in 0..N /\ i \in j..N
    BY <1>0
  <2> QED BY <1>1, <2>1, PlaceType
<1>3. T \subseteq Members
  BY <1>2 DEF Members
<1>4. s \in T /\ head \in T
  <2>1. 0 \in 0..i /\ i \in 0..i
    BY <1>0
  <2> QED BY <1>1, <2>1, PlaceDef
<1>5. ASSUME NEW n \in T, n # s PROVE next[n] \in T
  <2>1. PICK j \in 0..i : n = Place[j]
    OBVIOUS
  <2>2. j # i
    BY <1>1, <1>5, <2>1
  <2>3. j + 1 \in 1..N /\ j + 1 \in 0..i /\ (j + 1) - 1 = j
    BY <1>0, <2>2
  <2>4. Place[j + 1] = IF Place[(j + 1) - 1] = NULL THEN NULL ELSE next[Place[(j + 1) - 1]]
    BY <2>3, PlaceDef
  <2>5. Place[j + 1] = next[n]
    BY <1>2, <2>1, <2>3, <2>4
  <2> QED BY <2>3, <2>5
<1> HIDE DEF T
<1> QED BY <1>3, <1>4, <1>5

SomePaths == \E S \in SUBSET Node : \E U \in [S -> SUBSET Node] : Paths(S, U)

AllPaths ==
  \E S \in SUBSET Node : \E U \in [S -> SUBSET Node] :
    Paths(S, U) /\ Reachable = {entry[s].key : s \in S}

Resting == AtRest(pc)

(* In a list at rest every node of the walk is settled.                    *)
LEMMA RestPaths == LinkTypes /\ Fresh /\ Ordered /\ SomePaths /\ Resting => AllPaths
<1> SUFFICES ASSUME LinkTypes, Fresh, Ordered, SomePaths, AtRest(pc)
             PROVE  \E S \in SUBSET Node : \E U \in [S -> SUBSET Node] :
                      Paths(S, U) /\ Reachable = {entry[s].key : s \in S}
  BY DEF AllPaths, Resting
<1>1. PICK S \in SUBSET Node : \E U \in [S -> SUBSET Node] : Paths(S, U)
  BY DEF SomePaths
<1>2. PICK U \in [S -> SUBSET Node] : Paths(S, U)
  BY <1>1
<1>3. S \subseteq Members /\ Members \subseteq Node /\ Members \subseteq Led
  BY <1>2, SettledMember, MembersType, MembersLed
<1> DEFINE Walk(s) == CHOOSE T \in SUBSET Members :
                        s \in T /\ head \in T /\ \A n \in T \ {s} : next[n] \in T
           W == [s \in Members |-> IF s \in S THEN U[s] ELSE Walk(s)]
<1>4. ASSUME NEW s \in Members
      PROVE  /\ Walk(s) \in SUBSET Members
             /\ s \in Walk(s) /\ head \in Walk(s) /\ \A n \in Walk(s) \ {s} : next[n] \in Walk(s)
  <2>1. \E T \in SUBSET Members : s \in T /\ head \in T /\ \A n \in T \ {s} : next[n] \in T
    BY WalkTo
  <2> QED BY <2>1
<1> HIDE DEF Walk
<1>5. \A s \in Members : W[s] = IF s \in S THEN U[s] ELSE Walk(s)
  OBVIOUS
<1>6. W \in [Members -> SUBSET Node]
  BY <1>3, <1>4
<1> HIDE DEF W
<1>7. \A s \in Members : s \in W[s] /\ head \in W[s] /\ \A n \in Before(W, s) : next[n] \in W[s]
  BY <1>2, <1>4, <1>5 DEF Paths, Before
<1>8. ASSUME NEW t \in Thread PROVE PathThread(Members, W, t)
  <2>1. pc[t] \notin AddPc \cup UnlinkPc
    BY DEF AtRest
  <2>2. pc[t] \notin OwnPc /\ pc[t] \notin WalkPc
        /\ pc[t] \notin {"replace_store", "add_only", "add_head", "add_first", "add_front"}
    BY <2>1 DEF OwnPc, AddPc, WalkPc
  <2>3. PathThread(S, U, t)
    BY <1>2 DEF Paths
  <2>4. ASSUME pc[t] \in PrivatePc, NEW s \in Members PROVE t \notin W[s]
    <3>1. mine(t) = t
      BY <2>2 DEF mine
    <3>2. t \notin Led
      BY <2>4, <3>1 DEF Fresh
    <3>3. s \notin S => t \notin W[s]
      BY <1>3, <1>4, <1>5, <3>2
    <3>4. s \in S => t \notin W[s]
      BY <1>5, <2>3, <2>4 DEF PathThread
    <3> QED BY <3>3, <3>4
  <2>5. pc[t] = "get" /\ key(t) \in asked[t] =>
          \E s \in Members : entry[s].key = key(t) /\ cur[t] \in W[s]
    <3> SUFFICES ASSUME pc[t] = "get", key(t) \in asked[t]
                 PROVE  \E s \in Members : entry[s].key = key(t) /\ cur[t] \in W[s]
      OBVIOUS
    <3>1. PICK s \in S : entry[s].key = key(t) /\ cur[t] \in U[s]
      BY <2>3 DEF PathThread
    <3> QED BY <1>3, <1>5, <3>1
  <2> QED BY <2>2, <2>3, <2>4, <2>5 DEF PathThread, WalkPc
<1>9. Paths(Members, W)
  BY <1>3, <1>6, <1>7, <1>8 DEF Paths
<1> QED BY <1>3, <1>6, <1>9 DEF Reachable

(* After a step the settled keys are those of the settled nodes, whether   *)
(* the list has come to rest or not.                                       *)
LEMMA RestIntact ==
  ASSUME LinkTypes', Fresh', Ordered', Rest, NEW S \in SUBSET Node, NEW U \in [S -> SUBSET Node],
         Paths(S, U)', settled = {entry'[s].key : s \in S}
  PROVE  \E Z \in SUBSET Node : \E V \in [Z -> SUBSET Node] :
           Paths(Z, V)' /\ settled' = {entry'[s].key : s \in Z}
<1>1. CASE AtRest(pc')
  <2>1. SomePaths'
    BY DEF SomePaths
  <2>2. (LinkTypes /\ Fresh /\ Ordered /\ SomePaths /\ Resting => AllPaths)'
    BY RestPaths, PTL
  <2>3. Resting'
    BY <1>1 DEF AtRest, Resting
  <2>4. settled' = Reachable'
    BY <1>1 DEF Rest
  <2>5. AllPaths'
    BY <2>1, <2>2, <2>3
  <2> QED BY <2>4, <2>5, Zenon DEF AllPaths
<1>2. CASE ~AtRest(pc')
  <2>1. settled' = settled
    BY <1>2 DEF Rest
  <2> QED BY <2>1
<1> QED BY <1>1, <1>2

-----------------------------------------------------------------------------
(* The steps of calls that only insert. *)

(* Before a step that leaves everything clean.                             *)
Steady(S, U) ==
  /\ Typed /\ Fresh /\ Ordered /\ Clean
  /\ S \in SUBSET Node /\ U \in [S -> SUBSET Node] /\ Paths(S, U)

(* A thread's own node is named after it, and nothing leads to it.         *)
LEMMA OwnNode ==
  ASSUME NEW S, NEW U, Steady(S, U), NEW t \in Thread
  PROVE  /\ pc[t] \in PrivatePc => mine(t) = t /\ t \notin Led
         /\ pc[t] \in OwnPc => new[t] = t
         /\ S \subseteq Node /\ t \in Node /\ NULL \notin Node
         /\ \A s \in S : /\ U[s] \subseteq Node /\ s \in U[s] /\ head \in U[s]
                         /\ \A n \in Before(U, s) : next[n] \in U[s]
         /\ PathThread(S, U, t)
<1>1. PathThread(S, U, t)
  BY DEF Steady, Paths
<1>2. pc[t] \in OwnPc => new[t] = t
  BY <1>1 DEF PathThread
<1>3. mine(t) = t
  BY <1>2 DEF mine
<1> QED BY <1>1, <1>2, <1>3, NullIsNoNode DEF Steady, Fresh, Paths

(* What a step of t may change for the others: the link of its own node,   *)
(* the head or the link of its current node, to lead to its own node, and  *)
(* the nodes from which the links lead to a settled one, by its own node.  *)
Mild(S, U, W, t) ==
  /\ Others(t) /\ \A u \in Thread \ {t} : pc'[u] = pc[u] /\ call'[u] = call[u] /\ asked'[u] = asked[u]
  /\ W \in [S -> SUBSET Node] /\ \A s \in S : U[s] \subseteq W[s] /\ W[s] \subseteq U[s] \cup {t}
  /\ \A s \in S : t \in W[s] => t \in U[s] \/ pc[t] \in PrivatePc
  /\ \A n \in Node : \/ next'[n] = next[n]
                     \/ n = t /\ pc[t] \in PrivatePc
                     \/ n \in Led /\ next'[n] = t /\ pc[t] \in PrivatePc
  /\ head' = head \/ head' = t
  /\ \A n \in Node : entry'[n].key = entry[n].key \/ (n = t /\ pc[t] \in PrivatePc)

LEMMA OtherPaths ==
  ASSUME NEW S, NEW U, NEW W, Steady(S, U), NEW t \in Thread, Mild(S, U, W, t),
         NEW u \in Thread \ {t}
  PROVE  PathThread(S, W, u)'
<1>1. /\ pc'[u] = pc[u] /\ cur'[u] = cur[u] /\ new'[u] = new[u] /\ call'[u] = call[u]
      /\ asked'[u] = asked[u] /\ key(u)' = key(u)
  BY DEF Mild, Others, key
<1>2. PathThread(S, U, u) /\ t \in Node /\ u \in Node /\ S \subseteq Node
      /\ NULL \notin Node /\ u # t
  BY OwnNode
<1>3. pc[t] \in PrivatePc => t \notin Led
  BY OwnNode
<1>4. pc[u] \in CurPc => cur[u] \in Led /\ cur[u] \in Node \cup {NULL}
  BY LedFacts DEF Steady, Typed, TypeOK
<1>5. \A s \in S : s \in U[s] /\ U[s] \subseteq W[s] /\ W[s] \subseteq U[s] \cup {t}
  BY OwnNode DEF Mild
<1>6. \A s \in S : s # t \/ pc[t] \notin PrivatePc
  <2>1. pc[t] \in PrivatePc => \A s \in S : t \notin U[s]
    BY OwnNode DEF PathThread
  <2> QED BY <2>1, <1>5
<1>7. pc[u] \in CurPc /\ cur[u] # NULL =>
        /\ next'[cur[u]] = next[cur[u]] \/ next'[cur[u]] = t
        /\ entry'[cur[u]].key = entry[cur[u]].key
        /\ \A s \in S : cur[u] \in Before(W, s) => cur[u] \in Before(U, s)
  BY <1>3, <1>4, <1>5 DEF Mild, Before
<1>8. pc[u] \in OwnPc => next'[u] = next[u] /\ entry'[u].key = entry[u].key
  <2>1. pc[u] \in OwnPc => u \notin Led
    BY OwnNode DEF PrivatePc
  <2> QED BY <1>2, <2>1 DEF Mild
<1>9. /\ WalkPc \subseteq CurPc /\ {"add_first", "add_front", "get"} \subseteq CurPc
      /\ WalkPc \subseteq OwnPc
  BY DEF WalkPc, CurPc, OwnPc, Inside, AddPc, GetPc
<1>10. pc[u] = "get" /\ key(u) \in asked[u] =>
         \E s \in S : entry'[s].key = key(u) /\ cur[u] \in W[s]
  <2> SUFFICES ASSUME pc[u] = "get", key(u) \in asked[u]
               PROVE  \E s \in S : entry'[s].key = key(u) /\ cur[u] \in W[s]
    OBVIOUS
  <2>1. PICK s \in S : entry[s].key = key(u) /\ cur[u] \in U[s]
    BY <1>2 DEF PathThread
  <2>2. entry'[s].key = entry[s].key
    BY <1>2, <1>6 DEF Mild
  <2> QED BY <1>5, <2>1, <2>2
<1>11. pc[u] \in PrivatePc => \A s \in S : u \notin W[s]
  BY <1>2, <1>5 DEF PathThread
<1>12. pc[u] \in OwnPc => new[u] = u /\ entry'[u].key = key(u)
  BY <1>2, <1>8 DEF PathThread
<1>13. pc[u] = "add_head" => head' # NULL
  BY <1>2 DEF PathThread, Mild
<1>14. pc[u] \in {"add_first", "add_front"} => cur[u] # NULL /\ \A s \in S : cur[u] \in W[s]
  BY <1>2, <1>5 DEF PathThread
<1>15. pc[u] \in WalkPc => cur[u] # NULL
  BY <1>2 DEF PathThread
<1>16. pc[u] \in {"check", "order", "next"} => next'[cur[u]] # NULL
  <2>1. pc[u] \in {"check", "order", "next"} => pc[u] \in WalkPc
    BY DEF WalkPc
  <2> QED BY <2>1, <1>2, <1>7, <1>9, <1>15 DEF PathThread
<1>17. pc[u] = "link" => \A s \in S : cur[u] \in Before(W, s) => next'[u] \in W[s]
  <2>1. pc[u] = "link" => pc[u] \in WalkPc
    BY DEF WalkPc
  <2> QED BY <2>1, <1>2, <1>5, <1>7, <1>8, <1>9, <1>15 DEF PathThread
<1>18. pc[u] \in {"last", "last_replace", "last_link"} => \A s \in S : cur[u] \notin Before(W, s)
  <2>1. pc[u] \in {"last", "last_replace", "last_link"} => pc[u] \in WalkPc
    BY DEF WalkPc
  <2> QED BY <2>1, <1>2, <1>7, <1>9, <1>15 DEF PathThread
<1>19. pc[u] = "last_replace" => entry'[cur[u]].key = key(u)
  <2>1. pc[u] = "last_replace" => pc[u] \in WalkPc
    BY DEF WalkPc
  <2> QED BY <2>1, <1>2, <1>7, <1>9, <1>15 DEF PathThread
<1> QED BY <1>1, <1>2, <1>10, <1>11, <1>12, <1>13, <1>14, <1>15, <1>16, <1>17, <1>18, <1>19
        DEF PathThread, Before

(* A step that writes nothing of the list.                                 *)
LEMMA QuietMild ==
  ASSUME NEW S, NEW U, Steady(S, U), NEW t \in Thread, Others(t),
         \A u \in Thread \ {t} : pc'[u] = pc[u] /\ call'[u] = call[u] /\ asked'[u] = asked[u],
         UNCHANGED <<head, next>>, \A n \in Node : entry'[n].key = entry[n].key,
         PathThread(S, U, t)'
  PROVE  Paths(S, U)' /\ \A s \in S : entry'[s].key = entry[s].key
<1>1. U \in [S -> SUBSET Node] /\ S \in SUBSET Node
  BY DEF Steady
<1>2. Mild(S, U, U, t)
  BY <1>1 DEF Mild
<1>3. \A u \in Thread : PathThread(S, U, u)'
  BY <1>2, OtherPaths
<1>4. Paths(S, U)
  BY DEF Steady
<1> QED BY <1>1, <1>3, <1>4 DEF Paths, Before

(* What must hold where a thread arrives.                                  *)
Arrives(S, U, t, to) ==
  /\ to \in OwnPc => pc[t] \in OwnPc /\ new'[t] = new[t]
  /\ to \in AskPc => pc[t] \in AskPc
  /\ to \in RemovePc \cup {"new"} \cup AddPc => call[t].op # "get"
  /\ to \notin {"replace_store", "link"}
  /\ to = "get" /\ key(t) \in asked[t] =>
       \E s \in S : entry[s].key = key(t) /\ cur'[t] \in U[s]
  /\ to = "done_1" /\ call[t].op = "get" => key(t) \notin asked[t]
  /\ to = "add_only" => S = {}
  /\ to = "add_head" => head # NULL
  /\ to \in {"add_first", "add_front"} => cur'[t] # NULL /\ \A s \in S : cur'[t] \in U[s]
  /\ to \in WalkPc => cur'[t] # NULL
  /\ to \in {"check", "order", "next"} => next[cur'[t]] # NULL
  /\ to \in {"last", "last_replace", "last_link"} => \A s \in S : cur'[t] \notin Before(U, s)
  /\ to = "last_replace" => entry[cur'[t]].key = key(t)

LEMMA ArrivesPaths ==
  ASSUME NEW S, NEW U, Steady(S, U), NEW t \in Thread, NEW to \in Inside \cup Done, Typed',
         Step(t, pc[t], to), Others(t), Arrives(S, U, t, to),
         UNCHANGED <<head, next>>, \A n \in Node : entry'[n].key = entry[n].key
  PROVE  Paths(S, U)' /\ \A s \in S : entry'[s].key = entry[s].key
<1>1. /\ pc'[t] = to /\ (\A u \in Thread \ {t} : pc'[u] = pc[u])
      /\ UNCHANGED <<call, asked>> /\ key(t)' = key(t)
  BY StepPc DEF Steady, key
<1>2. PathThread(S, U, t) /\ t \in Node /\ S \subseteq Node
  BY OwnNode
<1>3. cur'[t] \in Node \cup {NULL}
  BY DEF Typed, TypeOK
<1>4. to \in PrivatePc => pc[t] \in PrivatePc
  BY DEF Arrives, PrivatePc
<1>5. to \in OwnPc => new'[t] = t /\ entry'[t].key = key(t)
  BY <1>2 DEF Arrives, PathThread
<1>6. "last_replace" \in WalkPc
  BY DEF WalkPc
<1>7. to = "get" /\ key(t) \in asked[t] =>
        \E s \in S : entry'[s].key = key(t) /\ cur'[t] \in U[s]
  BY <1>2 DEF Arrives
<1>8. to = "last_replace" => entry'[cur'[t]].key = key(t)
  BY <1>3, <1>6 DEF Arrives
<1>9. PathThread(S, U, t)'
  BY <1>1, <1>2, <1>4, <1>5, <1>7, <1>8 DEF PathThread, Arrives, Before
<1> QED BY <1>1, <1>9, QuietMild

LEMMA BeginPaths ==
  ASSUME NEW S, NEW U, Steady(S, U), settled = {entry[s].key : s \in S},
         NEW t \in Thread, Begin(t)
  PROVE  Paths(S, U)' /\ \A s \in S : entry'[s].key = entry[s].key
<1>1. PICK c \in Call :
        /\ call' = [call EXCEPT ![t] = c]
        /\ pc' = [pc EXCEPT ![t] = IF c.op = "del" THEN "rm" ELSE "get"]
        /\ cur' = IF c.op = "del" THEN cur ELSE [cur EXCEPT ![t] = head]
        /\ asked' = [asked EXCEPT ![t] = IF c.op = "get" THEN settled ELSE {}]
  BY DEF Begin
<1>2. pc[t] = "idle" /\ UNCHANGED <<head, next, entry>> /\ Others(t)
  BY <1>1 DEF Begin, heap, Others, Steady, Typed, TypeOK
<1>3. /\ \A u \in Thread \ {t} : pc'[u] = pc[u] /\ call'[u] = call[u] /\ asked'[u] = asked[u]
      /\ call'[t] = c /\ asked'[t] = (IF c.op = "get" THEN settled ELSE {})
      /\ pc'[t] = (IF c.op = "del" THEN "rm" ELSE "get")
      /\ c.op # "del" => cur'[t] = head
  BY <1>1 DEF Steady, Typed, TypeOK
<1>4. PathThread(S, U, t) /\ \A s \in S : head \in U[s]
  BY OwnNode
<1>5. \A s \in S : t \notin U[s]
  BY <1>2, <1>4 DEF PathThread, PrivatePc, AskPc
<1>6. PathThread(S, U, t)'
  <2>1. CASE c.op = "del"
    BY <1>3, <1>5, <2>1 DEF PathThread, OwnPc, RemovePc, AddPc, WalkPc
  <2>2. CASE c.op # "del"
    <3>1. pc'[t] = "get" /\ cur'[t] = head /\ asked'[t] \subseteq settled
      BY <1>3, <2>2
    <3>2. \A k \in asked'[t] : \E s \in S : entry'[s].key = k /\ cur'[t] \in U[s]
      BY <1>2, <1>4, <3>1
    <3> QED BY <1>5, <3>1, <3>2 DEF PathThread, OwnPc, RemovePc, AddPc, WalkPc
  <2> QED BY <2>1, <2>2
<1> QED BY <1>2, <1>3, <1>6, QuietMild

(* What Goto, Current and the like leave alone.                            *)
LEMMA GotoFacts ==
  ASSUME NEW S, NEW U, Steady(S, U), NEW t \in Thread, NEW from, NEW to, Goto(t, from, to)
  PROVE  /\ Step(t, pc[t], to) /\ pc[t] = from /\ Others(t) /\ UNCHANGED <<head, next, entry>>
         /\ to \notin Done \cup {"rm", "new"} => UNCHANGED <<cur, new>>
BY LeaveTypes DEF Goto, heap, Step, Others, Steady

LEMMA CurrentFacts ==
  ASSUME NEW S, NEW U, Steady(S, U), NEW t \in Thread, NEW from, NEW to, NEW n, Current(t, from, to, n)
  PROVE  /\ Step(t, pc[t], to) /\ pc[t] = from /\ Others(t) /\ UNCHANGED <<head, next, entry, new>>
         /\ cur'[t] = n
BY DEF Current, heap, Step, Others, Steady, Typed, TypeOK

LEMMA GetPaths ==
  ASSUME NEW S, NEW U, Steady(S, U), NEW t \in Thread, Get(t), Typed'
  PROVE  Paths(S, U)' /\ \A s \in S : entry'[s].key = entry[s].key
<1> USE DEF GetPc, RemovePc, AddPc, AskPc, OwnPc, WalkPc
<1>0. /\ PathThread(S, U, t) /\ NULL \notin Node
      /\ \A s \in S : U[s] \subseteq Node /\ \A n \in Before(U, s) : next[n] \in U[s]
  BY OwnNode
<1>1. pc[t] = "get"
  BY DEF Get, Goto, Current, Step
<1>2. call[t] \in Call
  BY <1>1 DEF Steady, Typed
<1>3. /\ "new" \in Inside /\ "get" \in Inside /\ "rm" \in Inside
      /\ "done_0" \in Done /\ "done_1" \in Done
  BY DEF Inside, Done
<1>4. CASE cur[t] = NULL
  <2> DEFINE to == IF call[t].op = "put" THEN "new" ELSE "done_1"
  <2>1. Goto(t, "get", to)
    BY <1>4 DEF Get
  <2>2. key(t) \notin asked[t]
    BY <1>0, <1>1, <1>4 DEF PathThread
  <2>3. Arrives(S, U, t, to)
    BY <1>1, <2>2 DEF Arrives
  <2>4. to \in Inside \cup Done
    BY <1>3
  <2> HIDE DEF to
  <2> QED BY <2>1, <2>3, <2>4, GotoFacts, ArrivesPaths
<1>5. CASE cur[t] # NULL /\ entry[cur[t]].key = key(t)
  <2> DEFINE to == IF call[t].op = "put" THEN "rm" ELSE "done_0"
  <2>1. Goto(t, "get", to)
    BY <1>5 DEF Get
  <2>2. Arrives(S, U, t, to)
    BY <1>1 DEF Arrives
  <2>3. to \in Inside \cup Done
    BY <1>3
  <2> HIDE DEF to
  <2> QED BY <2>1, <2>2, <2>3, GotoFacts, ArrivesPaths
<1>6. CASE cur[t] # NULL /\ entry[cur[t]].key # key(t)
  <2>1. Current(t, "get", "get", next[cur[t]])
    BY <1>6 DEF Get
  <2>2. cur'[t] = next[cur[t]]
    BY <2>1, CurrentFacts
  <2>3. key(t) \in asked[t] => \E s \in S : entry[s].key = key(t) /\ cur'[t] \in U[s]
    <3> SUFFICES ASSUME key(t) \in asked[t]
                 PROVE  \E s \in S : entry[s].key = key(t) /\ cur'[t] \in U[s]
      OBVIOUS
    <3>1. PICK s \in S : entry[s].key = key(t) /\ cur[t] \in U[s]
      BY <1>0, <1>1 DEF PathThread
    <3>2. cur[t] \in Before(U, s)
      BY <1>6, <3>1 DEF Before
    <3> QED BY <1>0, <2>2, <3>1, <3>2
  <2>4. Arrives(S, U, t, "get")
    BY <1>1, <2>3 DEF Arrives
  <2> QED BY <1>3, <2>1, <2>4, CurrentFacts, ArrivesPaths
<1> QED BY <1>4, <1>5, <1>6

(* A step inside list_remove that unlinks nothing.                         *)
LEMMA RemoveArrives ==
  ASSUME NEW S, NEW U, Steady(S, U), NEW t \in Thread, pc[t] \in RemovePc,
         NEW to \in RemovePc \cup {"new"} \cup Done
  PROVE  Arrives(S, U, t, to) /\ to \in Inside \cup Done
<1>1. PathThread(S, U, t)
  BY OwnNode
<1>2. call[t].op # "get"
  BY <1>1 DEF PathThread
<1> QED BY <1>2 DEF Arrives, Inside, Done, RemovePc, AddPc, AskPc, OwnPc, WalkPc

LEMMA RemovePaths ==
  ASSUME NEW S, NEW U, Steady(S, U), NEW t \in Thread, Typed', Clean',
         RemoveStart(t) \/ UnlinkHead(t) \/ RemoveWalk(t) \/ Unlink(t) \/ Decrement(t)
  PROVE  Paths(S, U)' /\ \A s \in S : entry'[s].key = entry[s].key
<1>1. \A r \in Done : AfterRemove(t, r) \in {"new"} \cup Done
  BY DEF AfterRemove
<1>2. \E to \in RemovePc \cup {"new"} \cup Done :
        /\ pc[t] \in RemovePc /\ Step(t, pc[t], to) /\ Others(t)
        /\ to = "rm_free" \/ UNCHANGED <<head, next, entry>>
  <2>1. CASE RemoveStart(t)
    BY <2>1, GotoFacts, CurrentFacts DEF RemoveStart, RemovePc
  <2>2. CASE UnlinkHead(t)
    BY <2>2 DEF UnlinkHead, SetHead, RemovePc, Step, Others, heap, locals, Steady, Typed, TypeOK
  <2>3. CASE RemoveWalk(t)
    BY <1>1, <2>3, GotoFacts, CurrentFacts DEF RemoveWalk, RemovePc, Done
  <2>4. CASE Unlink(t)
    BY <2>4 DEF Unlink, Got, SetNext, RemovePc, Step, Others, heap, locals, Steady, Typed, TypeOK
  <2>5. CASE Decrement(t)
    <3>1. CASE Got(t, "dec", "dec_store", size)
      BY <3>1 DEF Got, RemovePc, Step, Others, heap, Steady, Typed, TypeOK
    <3>2. CASE SetSize(t, "dec_store", AfterRemove(t, "done_0"), got[t] - 1)
      BY <1>1, <3>2, LeaveTypes DEF SetSize, RemovePc, Step, Others, Steady, Done
    <3> QED BY <2>5, <3>1, <3>2 DEF Decrement
  <2> QED BY <2>1, <2>2, <2>3, <2>4, <2>5
<1>3. PICK to \in RemovePc \cup {"new"} \cup Done :
        /\ pc[t] \in RemovePc /\ Step(t, pc[t], to) /\ Others(t)
        /\ to = "rm_free" \/ UNCHANGED <<head, next, entry>>
  BY <1>2
<1>4. Arrives(S, U, t, to) /\ to \in Inside \cup Done
  BY <1>3, RemoveArrives
<1>5. to # "rm_free"
  <2>1. pc'[t] = to
    BY <1>3, <1>4, StepPc DEF Steady
  <2> QED BY <2>1 DEF Clean
<1> QED BY <1>3, <1>4, <1>5, ArrivesPaths

LEMMA AddQuietPaths ==
  ASSUME NEW S, NEW U, Steady(S, U), NEW t \in Thread, Typed',
         NEW to \in AddPc \cup {"done_0"}, pc[t] \in AddPc,
         pc[t] \in OwnPc \/ to \notin OwnPc,
         Step(t, pc[t], to), Others(t), UNCHANGED <<head, next, new>> \/ to = "done_0",
         UNCHANGED <<head, next>>, \A n \in Node : entry'[n].key = entry[n].key,
         to \notin {"replace_store", "link"},
         to = "add_only" => S = {},
         to = "add_head" => head # NULL,
         to \in {"add_first", "add_front"} => cur'[t] # NULL /\ \A s \in S : cur'[t] \in U[s],
         to \in WalkPc => cur'[t] # NULL,
         to \in {"check", "order", "next"} => next[cur'[t]] # NULL,
         to \in {"last", "last_replace", "last_link"} => \A s \in S : cur'[t] \notin Before(U, s),
         to = "last_replace" => entry[cur'[t]].key = key(t)
  PROVE  Paths(S, U)' /\ \A s \in S : entry'[s].key = entry[s].key
<1>1. PathThread(S, U, t)
  BY OwnNode
<1>2. call[t].op # "get"
  BY <1>1 DEF PathThread
<1>3. to \in Inside \cup Done
  BY DEF Inside, Done
<1>4. to # "get" /\ to # "done_1" /\ to \notin AskPc /\ (to = "done_0" => to \notin OwnPc)
  BY DEF AddPc, AskPc, OwnPc, GetPc, RemovePc
<1>5. Arrives(S, U, t, to)
  BY <1>2, <1>4 DEF Arrives
<1> QED BY <1>3, <1>5, ArrivesPaths

(* The branches of list_add.                                               *)
LEMMA AddBranchPaths ==
  ASSUME NEW S, NEW U, Steady(S, U), NEW t \in Thread, Typed',
         NEW from \in OwnPc, NEW to \in AddPc \ {"replace_store", "link"},
         \/ Goto(t, from, to) /\ (cur' = cur /\ new' = new)
         \/ \E n : Current(t, from, to, n) /\ cur'[t] = n,
         to = "add_only" => S = {},
         to = "add_head" => head # NULL,
         to \in {"add_first", "add_front"} => cur'[t] # NULL /\ \A s \in S : cur'[t] \in U[s],
         to \in WalkPc => cur'[t] # NULL,
         to \in {"check", "order", "next"} => next[cur'[t]] # NULL,
         to \in {"last", "last_replace", "last_link"} => \A s \in S : cur'[t] \notin Before(U, s),
         to = "last_replace" => entry[cur'[t]].key = key(t)
  PROVE  Paths(S, U)' /\ \A s \in S : entry'[s].key = entry[s].key
<1>1. /\ Step(t, pc[t], to) /\ pc[t] = from /\ Others(t) /\ UNCHANGED <<head, next, entry, new>>
  BY GotoFacts, CurrentFacts
<1>2. from \in AddPc
  BY DEF OwnPc
<1> QED BY <1>1, <1>2, AddQuietPaths

LEMMA AddFirstPaths ==
  ASSUME NEW S, NEW U, Steady(S, U), NEW t \in Thread, AddFirst(t), Typed'
  PROVE  \E W \in [S -> SUBSET Node] :
           Paths(S, W)' /\ \A s \in S : entry'[s].key = entry[s].key
<1> USE DEF AddPc, OwnPc, WalkPc
<1>0. /\ PathThread(S, U, t) /\ NULL \notin Node /\ t \in Node /\ U \in [S -> SUBSET Node]
      /\ S \subseteq Node
      /\ \A s \in S : /\ s \in U[s] /\ U[s] \subseteq Node /\ head \in U[s]
                      /\ \A n \in Before(U, s) : next[n] \in U[s]
  BY OwnNode DEF Steady
<1>1. CASE Goto(t, "add", IF head = NULL THEN "add_only" ELSE "add_head")
  <2> DEFINE to == IF head = NULL THEN "add_only" ELSE "add_head"
  <2>1. to \notin Done \cup {"rm", "new"} /\ to \in {"add_only", "add_head"}
    BY DEF Done
  <2>2. UNCHANGED <<cur, new>> /\ pc[t] = "add"
    BY <1>1, <2>1, GotoFacts
  <2>3. to = "add_only" => S = {}
    BY <1>0
  <2>4. to = "add_head" => head # NULL
    OBVIOUS
  <2>5. Goto(t, "add", to)
    BY <1>1
  <2> HIDE DEF to
  <2>6. Paths(S, U)' /\ \A s \in S : entry'[s].key = entry[s].key
    BY <2>1, <2>2, <2>3, <2>4, <2>5, AddBranchPaths
  <2> QED BY <1>0, <2>6
<1>2. CASE Current(t, "add_head", "add_first", head)
  <2>1. cur'[t] = head /\ pc[t] = "add_head"
    BY <1>2, CurrentFacts
  <2>2. head # NULL
    BY <1>0, <2>1 DEF PathThread
  <2> QED BY <1>0, <1>2, <2>1, <2>2, AddBranchPaths
<1>3. CASE Goto(t, "add_first", IF key(t) < entry[cur[t]].key THEN "add_front" ELSE "while")
  <2> DEFINE to == IF key(t) < entry[cur[t]].key THEN "add_front" ELSE "while"
  <2>1. to \notin Done \cup {"rm", "new"} /\ to \in {"add_front", "while"}
    BY DEF Done
  <2>2. UNCHANGED <<cur, new>> /\ pc[t] = "add_first"
    BY <1>3, <2>1, GotoFacts
  <2>3. cur[t] # NULL /\ \A s \in S : cur[t] \in U[s]
    BY <1>0, <2>2 DEF PathThread
  <2>4. Goto(t, "add_first", to)
    BY <1>3
  <2> HIDE DEF to
  <2> QED BY <1>0, <2>1, <2>2, <2>3, <2>4, AddBranchPaths
<1>4. CASE SetHead(t, "add_only", "inc", new[t])
  <2>1. /\ Step(t, "add_only", "inc") /\ pc[t] = "add_only" /\ head' = new[t]
        /\ UNCHANGED <<next, entry, cur, tmp, got, new>>
    BY <1>4 DEF SetHead, locals, Step
  <2>2. /\ pc'[t] = "inc" /\ (\A u \in Thread \ {t} : pc'[u] = pc[u]) /\ UNCHANGED <<call, asked>>
    BY <2>1, StepPc DEF Inside, Steady
  <2>3. S = {} /\ new[t] = t /\ call[t].op # "get"
    BY <1>0, <2>1 DEF PathThread
  <2>4. pc[t] \in PrivatePc /\ Others(t)
    BY <2>1 DEF PrivatePc, Others
  <2>5. Mild(S, U, U, t)
    BY <1>0, <2>1, <2>2, <2>3, <2>4 DEF Mild
  <2>6. PathThread(S, U, t)'
    BY <2>2, <2>3 DEF PathThread, PrivatePc, AskPc, GetPc, RemovePc
  <2>7. \A u \in Thread : PathThread(S, U, u)'
    BY <2>5, <2>6, OtherPaths
  <2>8. Paths(S, U)'
    BY <1>0, <2>3, <2>7 DEF Paths
  <2> QED BY <1>0, <2>1, <2>8
<1>5. CASE AddFront(t)
  <2>1. /\ Step(t, "add_front", "inc") /\ pc[t] = "add_front" /\ head' = new[t]
        /\ next' = [next EXCEPT ![new[t]] = cur[t]]
        /\ UNCHANGED <<entry, cur, tmp, got, new>>
    BY <1>5 DEF AddFront, locals, Step
  <2>2. /\ pc'[t] = "inc" /\ (\A u \in Thread \ {t} : pc'[u] = pc[u]) /\ UNCHANGED <<call, asked>>
    BY <2>1, StepPc DEF Inside, Steady
  <2>3. /\ new[t] = t /\ call[t].op # "get" /\ cur[t] # NULL /\ \A s \in S : cur[t] \in U[s]
    BY <1>0, <2>1 DEF PathThread
  <2>4. pc[t] \in PrivatePc /\ Others(t)
    BY <2>1 DEF PrivatePc, Others
  <2> DEFINE W == [s \in S |-> U[s] \cup {t}]
  <2>5. W \in [S -> SUBSET Node] /\ \A s \in S : W[s] = U[s] \cup {t}
    BY <1>0
  <2> HIDE DEF W
  <2>6. next'[t] = cur[t] /\ \A n \in Node \ {t} : next'[n] = next[n]
    BY <1>0, <2>1, <2>3 DEF Steady, Typed, TypeOK
  <2>7. Mild(S, U, W, t)
    BY <2>1, <2>2, <2>3, <2>4, <2>5, <2>6 DEF Mild
  <2>8. PathThread(S, W, t)'
    BY <2>2, <2>3 DEF PathThread, PrivatePc, AskPc, GetPc, RemovePc
  <2>9. \A u \in Thread : PathThread(S, W, u)'
    BY <2>7, <2>8, OtherPaths
  <2>10. \A s \in S : s \in W[s] /\ head' \in W[s] /\ \A n \in Before(W, s) : next'[n] \in W[s]
    BY <1>0, <2>1, <2>3, <2>5, <2>6 DEF Before
  <2>11. Paths(S, W)'
    BY <1>0, <2>5, <2>9, <2>10 DEF Paths, Before
  <2> QED BY <2>1, <2>5, <2>11
<1> QED BY <1>1, <1>2, <1>3, <1>4, <1>5 DEF AddFirst, AddFront

LEMMA AddWalkPaths ==
  ASSUME NEW S, NEW U, Steady(S, U), NEW t \in Thread, AddWalk(t), Typed'
  PROVE  Paths(S, U)' /\ \A s \in S : entry'[s].key = entry[s].key
<1> USE DEF AddPc, OwnPc, WalkPc
<1>0. /\ PathThread(S, U, t) /\ NULL \notin Node
      /\ \A s \in S : U[s] \subseteq Node /\ \A n \in Before(U, s) : next[n] \in U[s]
  BY OwnNode
<1>1. CASE Current(t, "next", "while", next[cur[t]])
  <2>1. cur'[t] = next[cur[t]] /\ pc[t] = "next"
    BY <1>1, CurrentFacts
  <2>2. next[cur[t]] # NULL
    BY <1>0, <2>1 DEF PathThread
  <2> QED BY <1>1, <2>1, <2>2, AddBranchPaths
<1>2. CASE Goto(t, "while", IF next[cur[t]] = NULL THEN "last" ELSE "check")
  <2> DEFINE to == IF next[cur[t]] = NULL THEN "last" ELSE "check"
  <2>1. to \notin Done \cup {"rm", "new"} /\ to \in {"last", "check"}
    BY DEF Done
  <2>2. UNCHANGED <<cur, new>> /\ pc[t] = "while"
    BY <1>2, <2>1, GotoFacts
  <2>3. cur[t] # NULL
    BY <1>0, <2>2 DEF PathThread
  <2>4. to = "check" => next[cur[t]] # NULL
    OBVIOUS
  <2>5. to = "last" => \A s \in S : cur[t] \notin Before(U, s)
    BY <1>0
  <2>6. Goto(t, "while", to)
    BY <1>2
  <2> HIDE DEF to
  <2> QED BY <2>1, <2>2, <2>3, <2>4, <2>5, <2>6, AddBranchPaths
<1>3. CASE Goto(t, "check", IF entry[cur[t]].key = key(t) THEN "replace" ELSE "order")
  <2> DEFINE to == IF entry[cur[t]].key = key(t) THEN "replace" ELSE "order"
  <2>1. to \notin Done \cup {"rm", "new"} /\ to \in {"replace", "order"}
    BY DEF Done
  <2>2. UNCHANGED <<cur, new>> /\ pc[t] = "check"
    BY <1>3, <2>1, GotoFacts
  <2>3. cur[t] # NULL /\ next[cur[t]] # NULL
    BY <1>0, <2>2 DEF PathThread
  <2>4. Goto(t, "check", to)
    BY <1>3
  <2> HIDE DEF to
  <2> QED BY <2>1, <2>2, <2>3, <2>4, AddBranchPaths
<1>4. CASE Goto(t, "order", IF key(t) < entry[next[cur[t]]].key THEN "copy" ELSE "next")
  <2> DEFINE to == IF key(t) < entry[next[cur[t]]].key THEN "copy" ELSE "next"
  <2>1. to \notin Done \cup {"rm", "new"} /\ to \in {"copy", "next"}
    BY DEF Done
  <2>2. UNCHANGED <<cur, new>> /\ pc[t] = "order"
    BY <1>4, <2>1, GotoFacts
  <2>3. cur[t] # NULL /\ next[cur[t]] # NULL
    BY <1>0, <2>2 DEF PathThread
  <2>4. Goto(t, "order", to)
    BY <1>4
  <2> HIDE DEF to
  <2> QED BY <2>1, <2>2, <2>3, <2>4, AddBranchPaths
<1> QED BY <1>1, <1>2, <1>3, <1>4 DEF AddWalk

LEMMA LinkBetweenPaths ==
  ASSUME NEW S, NEW U, Steady(S, U), NEW t \in Thread, LinkBetween(t), Typed'
  PROVE  \E W \in [S -> SUBSET Node] :
           Paths(S, W)' /\ \A s \in S : entry'[s].key = entry[s].key
<1> USE DEF AddPc, OwnPc, WalkPc
<1>0. /\ PathThread(S, U, t) /\ NULL \notin Node /\ t \in Node /\ U \in [S -> SUBSET Node]
      /\ S \subseteq Node /\ Typed
      /\ \A s \in S : /\ s \in U[s] /\ U[s] \subseteq Node /\ head \in U[s]
                      /\ \A n \in Before(U, s) : next[n] \in U[s]
  BY OwnNode DEF Steady
<1>1. CASE SetNext(t, "copy", "link", new[t], next[cur[t]])
  <2>1. /\ Step(t, "copy", "link") /\ pc[t] = "copy"
        /\ next' = [next EXCEPT ![new[t]] = next[cur[t]]]
        /\ UNCHANGED <<head, entry, cur, tmp, got, new>>
    BY <1>1 DEF SetNext, locals, Step
  <2>2. /\ pc'[t] = "link" /\ (\A u \in Thread \ {t} : pc'[u] = pc[u]) /\ UNCHANGED <<call, asked>>
        /\ key(t)' = key(t)
    BY <1>0, <2>1, StepPc DEF Inside, key
  <2>3. /\ new[t] = t /\ call[t].op # "get" /\ cur[t] # NULL /\ entry[t].key = key(t)
    BY <1>0, <2>1 DEF PathThread
  <2>4. pc[t] \in PrivatePc /\ Others(t) /\ \A s \in S : t \notin U[s]
    BY <1>0, <2>1 DEF PrivatePc, Others, PathThread
  <2>5. next'[t] = next[cur[t]] /\ \A n \in Node \ {t} : next'[n] = next[n]
    BY <1>0, <2>1, <2>3 DEF Typed, TypeOK
  <2>6. Mild(S, U, U, t)
    BY <1>0, <2>1, <2>2, <2>4, <2>5 DEF Mild
  <2>7. \A s \in S : cur[t] \in Before(U, s) => next'[t] \in U[s]
    BY <1>0, <2>5
  <2>8. PathThread(S, U, t)'
    BY <2>1, <2>2, <2>3, <2>4, <2>7 DEF PathThread, Before
  <2>9. \A u \in Thread : PathThread(S, U, u)'
    BY <2>6, <2>8, OtherPaths
  <2>10. \A s \in S : \A n \in Before(U, s) : next'[n] \in U[s]
    BY <1>0, <2>4, <2>5 DEF Before
  <2>11. Paths(S, U)'
    BY <1>0, <2>1, <2>9, <2>10 DEF Paths, Before
  <2> QED BY <1>0, <2>1, <2>11
<1>2. CASE SetNext(t, "link", "inc", cur[t], new[t])
  <2>1. /\ Step(t, "link", "inc") /\ pc[t] = "link"
        /\ next' = [next EXCEPT ![cur[t]] = new[t]]
        /\ UNCHANGED <<head, entry, cur, tmp, got, new>>
    BY <1>2 DEF SetNext, locals, Step
  <2>2. /\ pc'[t] = "inc" /\ (\A u \in Thread \ {t} : pc'[u] = pc[u]) /\ UNCHANGED <<call, asked>>
    BY <1>0, <2>1, StepPc DEF Inside
  <2>3. /\ new[t] = t /\ call[t].op # "get"
        /\ \A s \in S : cur[t] \in Before(U, s) => next[t] \in U[s]
    BY <1>0, <2>1 DEF PathThread
  <2>4. pc[t] \in PrivatePc /\ Others(t) /\ \A s \in S : t \notin U[s]
    BY <1>0, <2>1 DEF PrivatePc, Others, PathThread
  <2>5. cur[t] \in Led /\ cur[t] # t
    <3>1. "link" \in CurPc
      BY DEF CurPc, Inside
    <3> QED BY <2>1, <2>4, <3>1, LedFacts, OwnNode
  <2> DEFINE X == [s \in S |-> IF cur[t] \in Before(U, s) THEN U[s] \cup {t} ELSE U[s]]
  <2>6. PICK W \in [S -> SUBSET Node] :
          \A s \in S : W[s] = IF cur[t] \in Before(U, s) THEN U[s] \cup {t} ELSE U[s]
    <3>1. X \in [S -> SUBSET Node]
      BY <1>0
    <3>2. \A s \in S : X[s] = IF cur[t] \in Before(U, s) THEN U[s] \cup {t} ELSE U[s]
      OBVIOUS
    <3> HIDE DEF X
    <3> QED BY <3>1, <3>2
  <2> HIDE DEF X
  <2>7. /\ \A n \in Node \ {cur[t]} : next'[n] = next[n]
        /\ cur[t] \in Node => next'[cur[t]] = t
    BY <1>0, <2>1, <2>3 DEF Typed, TypeOK
  <2>8. Mild(S, U, W, t)
    BY <2>1, <2>2, <2>4, <2>5, <2>6, <2>7 DEF Mild
  <2>9. PathThread(S, W, t)'
    BY <2>2, <2>3 DEF PathThread, PrivatePc, AskPc, GetPc, RemovePc
  <2>10. \A u \in Thread : PathThread(S, W, u)'
    BY <2>8, <2>9, OtherPaths
  <2>11. ASSUME NEW s \in S, NEW n \in Before(W, s) PROVE next'[n] \in W[s]
    <3>1. n \in Node /\ n # s /\ (n \in U[s] \/ n = t)
      BY <1>0, <2>6 DEF Before
    <3>2. CASE n = cur[t]
      BY <2>5, <2>6, <2>7, <3>1, <3>2 DEF Before
    <3>3. CASE n # cur[t] /\ n = t
      <4>1. cur[t] \in Before(U, s)
        BY <2>4, <2>6, <3>3 DEF Before
      <4> QED BY <2>3, <2>6, <2>7, <3>1, <3>3, <4>1
    <3>4. CASE n # cur[t] /\ n # t
      BY <1>0, <2>6, <2>7, <3>1, <3>4 DEF Before
    <3> QED BY <3>2, <3>3, <3>4
  <2>12. \A s \in S : s \in W[s] /\ head' \in W[s]
    BY <1>0, <2>1, <2>6
  <2>13. Paths(S, W)'
    BY <1>0, <2>6, <2>10, <2>11, <2>12 DEF Paths, Before
  <2> QED BY <2>1, <2>6, <2>13
<1> QED BY <1>1, <1>2 DEF LinkBetween

LEMMA AddLastPaths ==
  ASSUME NEW S, NEW U, Steady(S, U), NEW t \in Thread, AddLast(t), Typed'
  PROVE  Paths(S, U)' /\ \A s \in S : entry'[s].key = entry[s].key
<1> USE DEF AddPc, OwnPc, WalkPc
<1>0. /\ PathThread(S, U, t) /\ NULL \notin Node /\ t \in Node /\ U \in [S -> SUBSET Node]
      /\ S \subseteq Node /\ Typed
      /\ \A s \in S : /\ s \in U[s] /\ U[s] \subseteq Node /\ head \in U[s]
                      /\ \A n \in Before(U, s) : next[n] \in U[s]
  BY OwnNode DEF Steady
<1>1. CASE Goto(t, "last", IF entry[cur[t]].key = key(t) THEN "last_replace" ELSE "last_link")
  <2> DEFINE to == IF entry[cur[t]].key = key(t) THEN "last_replace" ELSE "last_link"
  <2>1. to \notin Done \cup {"rm", "new"} /\ to \in {"last_replace", "last_link"}
    BY DEF Done
  <2>2. UNCHANGED <<cur, new>> /\ pc[t] = "last"
    BY <1>1, <2>1, GotoFacts
  <2>3. cur[t] # NULL /\ \A s \in S : cur[t] \notin Before(U, s)
    BY <1>0, <2>2 DEF PathThread
  <2>4. to = "last_replace" => entry[cur[t]].key = key(t)
    OBVIOUS
  <2>5. Goto(t, "last", to)
    BY <1>1
  <2> HIDE DEF to
  <2> QED BY <2>1, <2>2, <2>3, <2>4, <2>5, AddBranchPaths
<1>2. CASE pc[t] = "last_replace"
  <2>1. /\ Step(t, "last_replace", "done_0") /\ entry' = [entry EXCEPT ![cur[t]] = Added(t)]
        /\ UNCHANGED <<head, next>> /\ Leave(t, "done_0")
    BY <1>2 DEF AddLast, Goto, SetNext, Step
  <2>2. Others(t)
    BY <1>0, <2>1, LeaveTypes DEF Others
  <2>3. entry[cur[t]].key = key(t)
    BY <1>0, <1>2 DEF PathThread
  <2>4. \A n \in Node : entry'[n].key = entry[n].key
    BY <1>0, <2>1, <2>3 DEF Typed, TypeOK, Added
  <2> QED BY <1>2, <2>1, <2>2, <2>4, AddQuietPaths
<1>3. CASE SetNext(t, "last_link", "inc", cur[t], new[t])
  <2>1. /\ Step(t, "last_link", "inc") /\ pc[t] = "last_link"
        /\ next' = [next EXCEPT ![cur[t]] = new[t]]
        /\ UNCHANGED <<head, entry, cur, tmp, got, new>>
    BY <1>3 DEF SetNext, locals, Step
  <2>2. /\ pc'[t] = "inc" /\ (\A u \in Thread \ {t} : pc'[u] = pc[u]) /\ UNCHANGED <<call, asked>>
    BY <1>0, <2>1, StepPc DEF Inside
  <2>3. /\ new[t] = t /\ call[t].op # "get" /\ \A s \in S : cur[t] \notin Before(U, s)
    BY <1>0, <2>1 DEF PathThread
  <2>4. pc[t] \in PrivatePc /\ Others(t)
    BY <2>1 DEF PrivatePc, Others
  <2>5. cur[t] \in Led
    <3>1. "last_link" \in CurPc
      BY DEF CurPc, Inside
    <3> QED BY <2>1, <3>1, LedFacts
  <2>6. /\ \A n \in Node \ {cur[t]} : next'[n] = next[n]
        /\ cur[t] \in Node => next'[cur[t]] = t
    BY <1>0, <2>1, <2>3 DEF Typed, TypeOK
  <2>7. Mild(S, U, U, t)
    BY <1>0, <2>1, <2>2, <2>4, <2>5, <2>6 DEF Mild
  <2>8. PathThread(S, U, t)'
    BY <2>2, <2>3 DEF PathThread, PrivatePc, AskPc, GetPc, RemovePc
  <2>9. \A u \in Thread : PathThread(S, U, u)'
    BY <2>7, <2>8, OtherPaths
  <2>10. \A s \in S : \A n \in Before(U, s) : next'[n] \in U[s]
    BY <1>0, <2>3, <2>6 DEF Before
  <2>11. Paths(S, U)'
    BY <1>0, <2>1, <2>9, <2>10 DEF Paths, Before
  <2> QED BY <2>1, <2>11
<1> QED BY <1>1, <1>2, <1>3 DEF AddLast, Step

LEMMA IncrementPaths ==
  ASSUME NEW S, NEW U, Steady(S, U), NEW t \in Thread, Increment(t), Typed'
  PROVE  Paths(S, U)' /\ \A s \in S : entry'[s].key = entry[s].key
<1> USE DEF AddPc, OwnPc, WalkPc
<1>1. CASE Got(t, "inc", "inc_store", size)
  <2>1. /\ Step(t, pc[t], "inc_store") /\ pc[t] = "inc" /\ UNCHANGED <<head, next, entry, new>>
        /\ Others(t)
    BY <1>1 DEF Got, heap, Step, Others, Steady, Typed, TypeOK
  <2> QED BY <2>1, AddQuietPaths
<1>2. CASE SetSize(t, "inc_store", "done_0", got[t] + 1)
  <2>1. /\ Step(t, pc[t], "done_0") /\ pc[t] = "inc_store" /\ UNCHANGED <<head, next, entry>> /\ Others(t)
    BY <1>2, LeaveTypes DEF SetSize, Step, Others, Steady
  <2> QED BY <2>1, AddQuietPaths
<1> QED BY <1>1, <1>2 DEF Increment

(* Nothing was freed: malloc returns memory never used before.             *)
LEMMA AllocatePaths ==
  ASSUME NEW S, NEW U, Steady(S, U), NEW t \in Thread, Allocate(t), Typed', freed = {}, dangling = {},
         ~reused
  PROVE  /\ Paths(S, U)' /\ \A s \in S : entry'[s].key = entry[s].key
         /\ freed' = {} /\ dangling' = {} /\ ~reused'
<1> USE DEF AddPc, OwnPc, WalkPc
<1>0. /\ PathThread(S, U, t) /\ NULL \notin Node /\ t \in Node /\ U \in [S -> SUBSET Node]
      /\ S \subseteq Node /\ Typed
      /\ \A s \in S : /\ s \in U[s] /\ U[s] \subseteq Node /\ head \in U[s]
                      /\ \A n \in Before(U, s) : next[n] \in U[s]
  BY OwnNode DEF Steady
<1>1. /\ Step(t, "new", "add") /\ pc[t] = "new"
      /\ new' = [new EXCEPT ![t] = t] /\ next' = [next EXCEPT ![t] = NULL]
      /\ entry' = [entry EXCEPT ![t] = Added(t)]
      /\ freed' = {} /\ dangling' = {}
      /\ ~LedTo(t) => ~reused'
      /\ UNCHANGED <<head, cur, tmp, got>>
  <2>1. PICK n \in {t} \cup freed :
          /\ Step(t, "new", "add")
          /\ new' = [new EXCEPT ![t] = n]
          /\ next' = [next EXCEPT ![n] = NULL]
          /\ entry' = [entry EXCEPT ![n] = Added(t)]
          /\ freed' = freed \ {n} /\ dangling' = dangling \ {n}
          /\ reused' = (reused \/ LedTo(n))
          /\ UNCHANGED <<head, size, everFreed, cur, tmp, got>>
    BY DEF Allocate
  <2>2. n = t /\ freed' = {} /\ dangling' = {}
    BY <2>1
  <2>3. ~LedTo(t) => ~reused'
    BY <2>1, <2>2
  <2> QED BY <2>1, <2>2, <2>3 DEF Step
<1>2. /\ pc'[t] = "add" /\ (\A u \in Thread \ {t} : pc'[u] = pc[u]) /\ UNCHANGED <<call, asked>>
      /\ key(t)' = key(t)
  BY <1>0, <1>1, StepPc DEF Inside, key
<1>3. call[t].op # "get"
  BY <1>0, <1>1 DEF PathThread
<1>4. pc[t] \in PrivatePc /\ \A s \in S : t \notin U[s]
  BY <1>0, <1>1 DEF PrivatePc, AskPc, PathThread
<1>5. /\ next'[t] = NULL /\ (\A n \in Node \ {t} : next'[n] = next[n])
      /\ entry'[t].key = key(t) /\ (\A n \in Node \ {t} : entry'[n] = entry[n])
      /\ new'[t] = t /\ Others(t)
  BY <1>0, <1>1 DEF Typed, TypeOK, Added, Others
<1>6. Mild(S, U, U, t)
  BY <1>0, <1>1, <1>2, <1>4, <1>5 DEF Mild
<1>7. PathThread(S, U, t)'
  BY <1>2, <1>3, <1>4, <1>5 DEF PathThread
<1>8. \A u \in Thread : PathThread(S, U, u)'
  BY <1>6, <1>7, OtherPaths
<1>9. \A s \in S : \A n \in Before(U, s) : next'[n] \in U[s]
  BY <1>0, <1>4, <1>5 DEF Before
<1>10. Paths(S, U)'
  BY <1>0, <1>1, <1>8, <1>9 DEF Paths, Before
<1>11. t \notin Led
  BY <1>4, OwnNode
<1>12. ~LedTo(t)
  BY <1>11 DEF LedTo, Led
<1>13. \A s \in S : entry'[s].key = entry[s].key
  BY <1>0, <1>4, <1>5
<1> QED BY <1>1, <1>10, <1>12, <1>13

-----------------------------------------------------------------------------
(* Every step. *)

(* What is clean after a step was so before it.                            *)
LEMMA CleanBefore ==
  ASSUME Typed, NEW t \in Thread, Begin(t) \/ Advance(t), Clean'
  PROVE  Clean /\ ~FreeNode(t)
<1>0. ~everFreed' /\ \A u \in Thread : pc'[u] # "rm_free"
  BY DEF Clean
<1>1. ~FreeNode(t)
  BY <1>0 DEF FreeNode
<1>2. CASE Begin(t)
  <2>1. everFreed' = everFreed /\ pc[t] = "idle"
    BY <1>2 DEF Begin, heap
  <2>2. \A u \in Thread \ {t} : pc'[u] = pc[u]
    BY <1>2 DEF Begin, Typed, TypeOK
  <2> QED BY <1>0, <1>1, <2>1, <2>2 DEF Clean
<1>3. CASE Fault(t)
  BY <1>0, <1>1, <1>3 DEF Fault, heap, Clean
<1>4. CASE Advance(t) /\ ~Fault(t)
  <2>1. everFreed' = everFreed /\ pc[t] # "rm_free" /\ \E to : pc' = [pc EXCEPT ![t] = to]
    BY <1>0, <1>1, <1>4
       DEF Advance, Get, RemoveStart, UnlinkHead, RemoveWalk, Unlink, Decrement, Allocate,
           AddFirst, AddWalk, LinkBetween, Replace, AddLast, Increment,
           Goto, Current, Got, SetHead, SetNext, SetSize, Step, heap
  <2>2. \A u \in Thread \ {t} : pc'[u] = pc[u]
    BY <2>1 DEF Typed, TypeOK
  <2> QED BY <1>0, <1>1, <2>1, <2>2 DEF Clean
<1> QED BY <1>2, <1>3, <1>4

LEMMA AdvancePaths ==
  ASSUME NEW S, NEW U, Steady(S, U), NEW t \in Thread, Advance(t), Clean', Typed',
         freed = {}, dangling = {}, ~reused
  PROVE  /\ \E W \in [S -> SUBSET Node] :
              Paths(S, W)' /\ \A s \in S : entry'[s].key = entry[s].key
         /\ freed' = {} /\ dangling' = {} /\ ~reused'
<1>0. Typed /\ U \in [S -> SUBSET Node] /\ PathThread(S, U, t) /\ ~everFreed' /\ ~FreeNode(t)
  BY CleanBefore, OwnNode DEF Steady, Clean
<1>1. CASE Get(t)
  <2>1. UNCHANGED <<freed, dangling, reused>>
    BY <1>1 DEF Get, Goto, Current, heap
  <2> QED BY <1>0, <1>1, <2>1, GetPaths
<1>2. CASE RemoveStart(t) \/ UnlinkHead(t) \/ RemoveWalk(t) \/ Unlink(t) \/ Decrement(t)
  <2>1. UNCHANGED <<freed, dangling, reused>>
    BY <1>2 DEF RemoveStart, UnlinkHead, RemoveWalk, Unlink, Decrement, Goto, Current, Got,
                SetHead, SetNext, SetSize, heap
  <2> QED BY <1>0, <1>2, <2>1, RemovePaths
<1>3. CASE Allocate(t)
  BY <1>0, <1>3, AllocatePaths
<1>4. CASE AddFirst(t)
  <2>1. UNCHANGED <<freed, dangling, reused>>
    BY <1>4 DEF AddFirst, Goto, Current, SetHead, heap
  <2> QED BY <1>4, <2>1, AddFirstPaths
<1>5. CASE AddWalk(t)
  <2>1. UNCHANGED <<freed, dangling, reused>>
    BY <1>5 DEF AddWalk, Goto, Current, heap
  <2> QED BY <1>0, <1>5, <2>1, AddWalkPaths
<1>6. CASE LinkBetween(t)
  <2>1. UNCHANGED <<freed, dangling, reused>>
    BY <1>6 DEF LinkBetween, SetNext
  <2> QED BY <1>6, <2>1, LinkBetweenPaths
<1>7. CASE Replace(t)
  <2>1. pc[t] = "replace_store"
    BY <1>0, <1>7 DEF Replace, Step
  <2> QED BY <1>0, <2>1 DEF PathThread
<1>8. CASE AddLast(t)
  <2>1. UNCHANGED <<freed, dangling, reused>>
    BY <1>8 DEF AddLast, Goto, SetNext, heap
  <2> QED BY <1>0, <1>8, <2>1, AddLastPaths
<1>9. CASE Increment(t)
  <2>1. UNCHANGED <<freed, dangling, reused>>
    BY <1>9 DEF Increment, Got, SetSize, heap
  <2> QED BY <1>0, <1>9, <2>1, IncrementPaths
<1>10. CASE Fault(t)
  <2>1. UNCHANGED <<head, next, entry, freed, dangling, reused, pc, call, cur, new, asked>>
    BY <1>10 DEF Fault, heap, locals
  <2>2. \A u \in Thread : PathThread(S, U, u)
    BY DEF Steady, Paths
  <2>3. \A u \in Thread : PathThread(S, U, u)'
    BY <2>1, <2>2 DEF PathThread, Before, key
  <2>4. Paths(S, U)'
    BY <2>1, <2>3 DEF Steady, Paths, Before
  <2> QED BY <1>0, <2>1, <2>4
<1> QED BY <1>0, <1>1, <1>2, <1>3, <1>4, <1>5, <1>6, <1>7, <1>8, <1>9, <1>10 DEF Advance

LEMMA NextIntact ==
  ASSUME Typed, Typed', Pointed, Intact, NEW t \in Thread, (Begin(t) /\ Noted(t)) \/ Advance(t)
  PROVE  Intact'
<1> SUFFICES ASSUME Clean'
             PROVE  /\ ~reused' /\ freed' = {} /\ dangling' = {}
                    /\ \E S \in SUBSET Node : \E U \in [S -> SUBSET Node] :
                         Paths(S, U)' /\ settled' = {entry'[s].key : s \in S}
  BY DEF Intact
<1>1. Clean
  BY CleanBefore
<1>2. ~reused /\ freed = {} /\ dangling = {} /\ Fresh /\ Ordered
  BY <1>1 DEF Intact, Pointed
<1>3. PICK S \in SUBSET Node : \E U \in [S -> SUBSET Node] :
        Paths(S, U) /\ settled = {entry[s].key : s \in S}
  BY <1>1 DEF Intact
<1>4. PICK U \in [S -> SUBSET Node] : Paths(S, U) /\ settled = {entry[s].key : s \in S}
  BY <1>3
<1>5. Steady(S, U)
  BY <1>1, <1>2, <1>4 DEF Steady
<1>6. /\ \E W \in [S -> SUBSET Node] :
           Paths(S, W)' /\ \A s \in S : entry'[s].key = entry[s].key
      /\ freed' = {} /\ dangling' = {} /\ ~reused'
  <2>1. CASE Begin(t)
    <3>1. UNCHANGED <<freed, dangling, reused>>
      BY <2>1 DEF Begin, heap
    <3> QED BY <1>2, <1>4, <1>5, <2>1, <3>1, BeginPaths
  <2>2. CASE Advance(t)
    BY <1>2, <1>5, <2>2, AdvancePaths
  <2> QED BY <2>1, <2>2
<1>7. PICK W \in [S -> SUBSET Node] :
        Paths(S, W)' /\ \A s \in S : entry'[s].key = entry[s].key
  BY <1>6
<1>8. Fresh' /\ Ordered'
  BY <1>2, <1>6, BeginFresh, BeginOrdered, AdvanceFresh, AdvanceOrdered
<1>9. settled = {entry'[s].key : s \in S}
  BY <1>4, <1>7
<1>10. LinkTypes' /\ Rest
  BY DEF Typed, TypeOK, LinkTypes, Noted, Advance
<1>11. \E Z \in SUBSET Node : \E V \in [Z -> SUBSET Node] :
         Paths(Z, V)' /\ settled' = {entry'[s].key : s \in Z}
  BY <1>7, <1>8, <1>9, <1>10, RestIntact
<1> QED BY <1>6, <1>11

LEMMA NextPointed ==
  ASSUME Typed, Pointed, NEW t \in Thread, Begin(t) \/ Advance(t)
  PROVE  Pointed'
<1> SUFFICES ASSUME ~reused' PROVE Fresh' /\ Ordered'
  BY DEF Pointed
<1>1. CASE Begin(t)
  <2>1. ~reused
    BY <1>1 DEF Begin, heap
  <2> QED BY <1>1, <2>1, BeginFresh, BeginOrdered DEF Pointed
<1>2. CASE Advance(t)
  <2>1. ~reused
    BY <1>2 DEF Advance, Fault, Get, RemoveStart, UnlinkHead, RemoveWalk, Unlink, FreeNode,
                Decrement, Allocate, AddFirst, AddWalk, LinkBetween, Replace, AddLast, Increment,
                Goto, Current, Got, SetHead, SetNext, SetSize, heap
  <2> QED BY <1>2, <2>1, AdvanceFresh, AdvanceOrdered DEF Pointed
<1> QED BY <1>1, <1>2

(* As long as nothing is removed no access is a misuse.                    *)
LEMMA AllValid ==
  ASSUME Typed, Pointed, Intact, OnlyInserts, NEW t \in Thread, pc[t] \in Inside
  PROVE  Valid(t)
<1>1. Clean /\ freed = {} /\ dangling = {} /\ Fresh /\ Ordered
  BY OnlyInsertsClean DEF Intact, Pointed
<1>2. PICK S \in SUBSET Node : \E U \in [S -> SUBSET Node] : Paths(S, U)
  BY <1>1 DEF Intact
<1>3. PICK U \in [S -> SUBSET Node] : Paths(S, U)
  BY <1>2
<1>4. PathThread(S, U, t)
  BY <1>3 DEF Paths
<1>5. pc[t] \in GetPc \cup {"new"} \cup AddPc /\ pc[t] \notin RemovePc /\ pc[t] # "replace_store"
  BY <1>4 DEF OnlyInserts, Inside, RemovePc, PathThread
<1>6. pc[t] \in WalkPc \cup {"add_first", "add_front"} => cur[t] # NULL
  BY <1>4 DEF PathThread
<1>7. pc[t] \in {"check", "order", "next"} => next[cur[t]] # NULL
  BY <1>4 DEF PathThread
<1>8. pc[t] \in OwnPc => new[t] # NULL
  BY <1>4, NullIsNoNode DEF PathThread
<1>9. NULL \notin Uses(t)
  <2>1. pc[t] \in {"while", "order", "link", "next", "last_replace", "last_link", "copy"} =>
          cur[t] # NULL
    BY <1>6 DEF WalkPc
  <2>2. pc[t] \in {"copy", "add_front"} => new[t] # NULL
    BY <1>8 DEF OwnPc, AddPc
  <2>3. pc[t] \notin {"rm_head", "rm_while", "rm_compare", "rm_next", "rm_temp", "rm_skip",
                      "rm_unlink", "rm_skip_next"}
    BY <1>5 DEF RemovePc
  <2> QED BY <1>5, <2>1, <2>2, <2>3 DEF Uses
<1>10. NULL \notin UsesEntry(t)
  BY <1>5, <1>6, <1>7 DEF UsesEntry, WalkPc, GetPc, AddPc, RemovePc
<1> QED BY <1>1, <1>9, <1>10 DEF Valid

LEMMA NextNotBroken ==
  ASSUME Typed, Pointed, Intact, NotBroken, NEW t \in Thread, Begin(t) \/ Advance(t)
  PROVE  NotBroken'
<1>1. CASE Fault(t)
  <2> SUFFICES ASSUME OnlyInserts' PROVE FALSE
    BY DEF NotBroken
  <2>1. OnlyInserts /\ ~Valid(t)
    BY <1>1 DEF Fault, heap, OnlyInserts
  <2>2. CASE pc[t] \in Inside
    BY <2>1, <2>2, AllValid
  <2>3. CASE pc[t] \notin Inside
    <3>1. pc[t] \in Done \cup {"idle"}
      BY <2>3 DEF Typed, TypeOK
    <3>2. Uses(t) = {} /\ UsesEntry(t) = {}
      BY <3>1 DEF Uses, UsesEntry, Done
    <3> QED BY <2>1, <3>2 DEF Valid
  <2> QED BY <2>2, <2>3
<1>2. CASE Begin(t)
  BY <1>2 DEF Begin, NotBroken
<1>3. CASE Advance(t) /\ ~Fault(t)
  <2>1. ~broken'
    BY <1>3 DEF Advance, Get, RemoveStart, UnlinkHead, RemoveWalk, Unlink, FreeNode, Decrement,
                Allocate, AddFirst, AddWalk, LinkBetween, Replace, AddLast, Increment,
                Goto, Current, Got, SetHead, SetNext, SetSize, Step
  <2> QED BY <2>1 DEF NotBroken
<1> QED BY <1>1, <1>2, <1>3

-----------------------------------------------------------------------------
(* The theorems. *)

IInv == Typed /\ Pointed /\ Intact /\ NotBroken

LEMMA InitIInv == Init => IInv
BY InitTyped, InitFresh, InitOrdered, InitIntact DEF Init, NotBroken, Pointed, IInv

LEMMA NextIInv == IInv /\ [Next]_lvars => IInv'
<1> SUFFICES ASSUME IInv, [Next]_lvars PROVE IInv'
  OBVIOUS
<1>0. Typed /\ Pointed /\ Intact /\ NotBroken
  BY DEF IInv
<1>1. ASSUME NEW t \in Thread, Begin(t), Noted(t) PROVE IInv'
  <2>1. Typed'
    BY <1>0, <1>1, BeginTyped DEF Noted
  <2> QED BY <1>0, <1>1, <2>1, NextPointed, NextIntact, NextNotBroken DEF IInv
<1>2. ASSUME NEW t \in Thread, Advance(t) PROVE IInv'
  <2>1. Typed'
    BY <1>0, <1>2, AdvanceTyped
  <2> QED BY <1>0, <1>2, <2>1, NextPointed, NextIntact, NextNotBroken DEF IInv
<1>3. CASE UNCHANGED lvars
  <2>1. UNCHANGED <<head, size, next, entry, freed, dangling, everFreed, reused, broken, pc, call,
                    cur, tmp, got, new, settled, rest, adders, asked>>
    BY <1>3 DEF lvars, heap, locals, atrest
  <2>2. Typed'
    BY <1>0, <2>1 DEF Typed, TypeOK
  <2>3. Fresh => Fresh'
    <3>1. Led' = Led
      BY <2>1 DEF Led, Pointers
    <3> QED BY <2>1, <3>1 DEF Fresh, mine
  <2>4. Ordered => Ordered'
    BY <2>1 DEF Ordered, OrderedBy, OrderedThread, mine
  <2>5. Pointed'
    BY <1>0, <2>1, <2>3, <2>4 DEF Pointed
  <2>6. Intact'
    <3>1. ASSUME NEW S, NEW U, Paths(S, U) PROVE Paths(S, U)'
      BY <2>1, <3>1 DEF Paths, PathThread, Before, key
    <3>2. SUFFICES ASSUME Clean
                   PROVE  /\ ~reused /\ freed = {} /\ dangling = {}
                          /\ \E S \in SUBSET Node : \E U \in [S -> SUBSET Node] :
                               Paths(S, U)' /\ settled = {entry[s].key : s \in S}
      BY <2>1 DEF Intact, Clean
    <3> QED BY <1>0, <3>1, <3>2 DEF Intact
  <2>7. NotBroken'
    BY <1>0, <2>1 DEF NotBroken, OnlyInserts
  <2> QED BY <2>2, <2>5, <2>6, <2>7 DEF IInv
<1> QED BY <1>1, <1>2, <1>3 DEF Next

LEMMA IInvHolds == Spec => []IInv
BY InitIInv, NextIInv, PTL DEF Spec

LEMMA TypedLinks == Typed => LinkTypes
BY DEF Typed, TypeOK, LinkTypes

(* Whatever overlaps, the pointers, the counter and the variables of the   *)
(* threads keep their types.                                               *)
THEOREM SharedListTypes == Spec => []TypeOK
<1>1. IInv => TypeOK
  BY DEF IInv, Typed
<1> QED BY <1>1, IInvHolds, PTL

(* Whatever puts, lookups and removals overlap, and even after memory was  *)
(* freed under a walker and given to other nodes, the links form no cycle, *)
(* and a walk from the head ends, until malloc has returned the memory of  *)
(* a freed node to which a node or a thread still led.                     *)
THEOREM NoCycle == Spec => []ChainEnds
<1>1. IInv => ChainEnds
  BY OrderedEnds, TypedLinks DEF IInv, Pointed, ChainEnds
<1> QED BY <1>1, IInvHolds, PTL

(* As long as nothing is removed or replaced, overlapping insertions       *)
(* misuse no pointer and lose no key that was in the list when it was last *)
(* at rest.                                                                *)
THEOREM SettledStay == Spec => []InsertsKeepSettled
<1>1. ASSUME IInv PROVE InsertsKeepSettled
  <2> SUFFICES ASSUME OnlyInserts PROVE ~broken /\ settled \subseteq Reachable
    BY DEF InsertsKeepSettled
  <2>1. LinkTypes /\ Clean /\ Pointed /\ Intact /\ ~broken
    BY <1>1, OnlyInsertsClean, TypedLinks DEF IInv, NotBroken
  <2>2. PICK S \in SUBSET Node : \E U \in [S -> SUBSET Node] :
          Paths(S, U) /\ settled = {entry[s].key : s \in S}
    BY <2>1 DEF Intact
  <2>3. PICK U \in [S -> SUBSET Node] : Paths(S, U) /\ settled = {entry[s].key : s \in S}
    BY <2>2
  <2>4. Ordered
    BY <2>1 DEF Intact, Pointed
  <2>5. S \subseteq Members
    BY <2>1, <2>3, <2>4, SettledMember
  <2> QED BY <2>1, <2>3, <2>5 DEF Reachable
<1> QED BY <1>1, IInvHolds, PTL

(* A lookup that overlaps only lookups and insertions does not miss a key  *)
(* that was in the list when it was last at rest before the lookup.        *)
THEOREM SettledAreFound == Spec => []LookupsFindSettled
<1>1. ASSUME IInv PROVE LookupsFindSettled
  <2> SUFFICES ASSUME OnlyInserts, NEW t \in Thread, pc[t] = "done_1" /\ call[t].op = "get"
               PROVE  key(t) \notin asked[t]
    BY DEF LookupsFindSettled
  <2>1. Clean /\ Intact
    BY <1>1, OnlyInsertsClean DEF IInv
  <2>2. PICK S \in SUBSET Node : \E U \in [S -> SUBSET Node] : Paths(S, U)
    BY <2>1 DEF Intact
  <2>3. PICK U \in [S -> SUBSET Node] : Paths(S, U)
    BY <2>2
  <2> QED BY <2>3 DEF Paths, PathThread
<1> QED BY <1>1, IInvHolds, PTL
=============================================================================
