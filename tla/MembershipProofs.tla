--------------------------- MODULE MembershipProofs ---------------------------
(***************************************************************************)
(* Theorems about Membership, for every number of servers, restarts and    *)
(* broken connections.                                                     *)
(***************************************************************************)
EXTENDS Membership, FiniteSetTheorems, TLAPS

-----------------------------------------------------------------------------
(* The names of the children of /chain. *)

(* A name has fewer names before it than there are names.                  *)
LEMMA BeforeBounded ==
  ASSUME NEW zs, IsFiniteSet(Names(zs)), NEW m \in Names(zs), m.seq \in Nat
  PROVE  Cardinality(Before(zs, m)) \in 0..(Cardinality(Names(zs)) - 1)
<1>1. Before(zs, m) \in SUBSET (Names(zs) \ {m})
  BY DEF Before
<1>2. IsFiniteSet(Names(zs) \ {m})
      /\ Cardinality(Names(zs) \ {m}) = Cardinality(Names(zs)) - 1
  BY FS_RemoveElement
<1>3. IsFiniteSet(Before(zs, m))
      /\ Cardinality(Before(zs, m)) <= Cardinality(Names(zs) \ {m})
  BY <1>1, <1>2, FS_Subset
<1>4. Cardinality(Before(zs, m)) \in Nat /\ Cardinality(Names(zs)) \in Nat
  BY <1>3, FS_CardinalityType
<1> QED BY <1>2, <1>3, <1>4

(* Two names do not have the same number of names before them.             *)
LEMMA BeforeDiffers ==
  ASSUME NEW zs, IsFiniteSet(Names(zs)), \A x \in Names(zs) : x.seq \in Nat,
         NEW m \in Names(zs), NEW n \in Names(zs), m # n
  PROVE  Cardinality(Before(zs, m)) # Cardinality(Before(zs, n))
<1>1. m.seq # n.seq
  <2>1. PICK i, j : m = Name(i) /\ n = Name(j)
    BY DEF Names
  <2>2. m.seq = i /\ n.seq = j
    BY <2>1 DEF Name
  <2> QED BY <2>1, <2>2
<1>2. ASSUME NEW a \in Names(zs), NEW b \in Names(zs), a.seq < b.seq
      PROVE  Cardinality(Before(zs, a)) # Cardinality(Before(zs, b))
  <2>1. /\ Before(zs, a) \in SUBSET Before(zs, b)
        /\ Before(zs, a) # Before(zs, b)
    <3>1. a \in Before(zs, b) /\ a \notin Before(zs, a)
      BY <1>2 DEF Before
    <3>2. \A x \in Names(zs) : x.seq < a.seq => x.seq < b.seq
      BY <1>2
    <3> QED BY <3>1, <3>2 DEF Before
  <2>2. IsFiniteSet(Before(zs, b))
    BY FS_Subset DEF Before
  <2> QED BY <2>1, <2>2, FS_Subset
<1> QED
  <2>1. m.seq \in Nat /\ n.seq \in Nat
    OBVIOUS
  <2>2. m.seq < n.seq \/ n.seq < m.seq
    BY <1>1, <2>1
  <2> QED BY <1>2, <2>2

(* So sorting gives every place one of the names.                          *)
LEMMA ChildNamesSorted ==
  ASSUME NEW zs, IsFiniteSet(Names(zs)), \A x \in Names(zs) : x.seq \in Nat
  PROVE  /\ Cardinality(Names(zs)) \in Nat
         /\ Len(ChildNames(zs)) = Cardinality(Names(zs))
         /\ \A i \in 1..Cardinality(Names(zs)) :
              /\ ChildNames(zs)[i] \in Names(zs)
              /\ Cardinality(Before(zs, ChildNames(zs)[i])) = i - 1
<1> DEFINE N == Names(zs)
           c == Cardinality(N)
           f == [m \in N |-> Cardinality(Before(zs, m))]
<1>1. c \in Nat
  BY FS_CardinalityType
<1>2. f \in Injection(N, 0..(c - 1))
  <2>1. f \in [N -> 0..(c - 1)]
    BY BeforeBounded
  <2>2. \A m, n \in N : f[m] = f[n] => m = n
    BY BeforeDiffers
  <2> QED BY <2>1, <2>2 DEF Injection, IsInjective
<1>3. IsFiniteSet(0..(c - 1)) /\ Cardinality(0..(c - 1)) = c
  <2> HIDE DEF c
  <2>1. 0 \in Int /\ c - 1 \in Int
    BY <1>1
  <2>2. /\ IsFiniteSet(0..(c - 1))
        /\ Cardinality(0..(c - 1)) = IF 0 > c - 1 THEN 0 ELSE (c - 1) - 0 + 1
    BY <2>1, FS_Interval, Zenon
  <2> QED BY <1>1, <2>2
<1>4. f \in Surjection(N, 0..(c - 1))
  <2> DEFINE T == 0..(c - 1)
  <2>1. f \in Injection(N, T) /\ IsFiniteSet(T) /\ Cardinality(N) = Cardinality(T)
    BY <1>2, <1>3
  <2> HIDE DEF f, N, T
  <2>2. f \in Surjection(N, T)
    BY <2>1, FS_Injection
  <2> QED BY <2>2 DEF T
<1>5. \A i \in 1..c : \E m \in N : Cardinality(Before(zs, m)) = i - 1
  <2>1. \A j \in 0..(c - 1) : \E m \in N : f[m] = j
    <3> HIDE DEF f, N
    <3> QED BY <1>4 DEF Surjection
  <2>2. \A m \in N : f[m] = Cardinality(Before(zs, m))
    OBVIOUS
  <2> HIDE DEF f, N, c
  <2>3. \A i \in 1..c : i - 1 \in 0..(c - 1)
    BY <1>1
  <2> QED BY <2>1, <2>2, <2>3
<1>6. \A i \in 1..c : ChildNames(zs)[i] =
        CHOOSE m \in N : Cardinality(Before(zs, m)) = i - 1
  BY DEF ChildNames
<1>7. Len(ChildNames(zs)) = c
  BY <1>1 DEF ChildNames
<1> QED BY <1>1, <1>5, <1>6, <1>7

(* chain_watcher finds no full path among the names.                       *)
LEMMA PathIsNoName ==
  ASSUME NEW n \in Nat, NEW names, Len(names) \in Nat \ {0},
         \A i \in 1..Len(names) : \E k \in Nat : names[i] = Name(k),
         NEW next
  PROVE  chain_watcher(Path(n), next, names) = [next_server_path |-> next, is_tail |-> 0]
<1>1. \A i \in 1..Len(names) : names[i] # Path(n)
  <2>1. \A k : Name(k).dir # Path(n).dir
    BY DEF Path, Name
  <2> QED BY <2>1
<1>2. {i \in 1..Len(names) : names[i] = Path(n)} = {}
  BY <1>1
<1>3. Path(n) # names[Len(names)]
  BY <1>1
<1> QED BY <1>2, <1>3 DEF chain_watcher

-----------------------------------------------------------------------------
(* The inductive invariant. *)

(* Sequence numbers count the znodes, and no znode is of a life to come.   *)
ZnodesNumbered ==
  /\ \A z \in znodes : z.seq < nextSeq /\ z.owner.life <= life[z.owner.srv]
  /\ RestartSupersedes

(* A path that was stored is that of a znode of this life; before the      *)
(* session is established nothing is stored.                               *)
Own(s) ==
  /\ pc[s] # "off"
  /\ node_path[s] \notin {NULL, GARBAGE}
  /\ Session(s) \in alive
  => \E z \in znodes : node_path[s] = Path(z.seq) /\ z.owner = Session(s)

Fresh(s) ==
  /\ pc[s] = "off" => sess[s] = "new"
  /\ sess[s] = "new" => /\ node_path[s] \in {NULL, GARBAGE}
                        /\ w[s] = "idle" /\ events[s] = <<>>

PathsOwn == \A s \in Server : Own(s) /\ Fresh(s)

(* The two fields that chain_watcher would set.                            *)
FieldsUnset ==
  \A s \in Server : Started(s) => is_tail[s] = 0 /\ next_server_path[s] = NULL

MemberInv == TypeOK /\ ZnodesNumbered /\ FieldsUnset /\ PathsOwn

LEMMA InitMemberInv == Init => MemberInv
<1> SUFFICES ASSUME Init PROVE MemberInv
  OBVIOUS
<1>1. TypeOK
  BY MembershipAssumption
     DEF Init, TypeOK, MainPc, WatcherPc, SessState, PathType
<1>2. ZnodesNumbered /\ FieldsUnset /\ PathsOwn
  BY DEF Init, ZnodesNumbered, RestartSupersedes, FieldsUnset, Started, PathsOwn, Own, Fresh
<1> QED BY <1>1, <1>2 DEF MemberInv

LEMMA NextTypeOK == TypeOK /\ [Next]_mvars => TypeOK'
<1> SUFFICES ASSUME TypeOK, [Next]_mvars PROVE TypeOK'
  OBVIOUS
<1> USE DEF TypeOK, MainPc, WatcherPc, SessState
<1>1. ASSUME NEW s \in Server PROVE Session(s) \in SessionType /\ Path(nextSeq) \in PathType
  BY DEF Session, SessionType, Path, PathType
<1>2. ASSUME NEW s \in Server, StartProcess(s) PROVE TypeOK'
  BY <1>1, <1>2, MembershipAssumption DEF StartProcess, Main, skeleton, zk, PathType
<1>3. ASSUME NEW s \in Server, StoreHandle(s) PROVE TypeOK'
  BY <1>1, <1>3, MembershipAssumption DEF StoreHandle, Main, skeleton, zk, PathType
<1>4. ASSUME NEW s \in Server, StorePort(s) PROVE TypeOK'
  BY <1>1, <1>4, MembershipAssumption DEF StorePort, Main, skeleton, zk, PathType
<1>5. ASSUME NEW s \in Server, StoreFlags(s) PROVE TypeOK'
  BY <1>1, <1>5, MembershipAssumption DEF StoreFlags, Main, skeleton, zk, PathType
<1>6. ASSUME NEW s \in Server, Bind(s) PROVE TypeOK'
  BY <1>1, <1>6, MembershipAssumption DEF Bind, Main, skeleton, zk, PathType
<1>7. ASSUME NEW s \in Server, BindFails(s) PROVE TypeOK'
  BY <1>1, <1>7, MembershipAssumption DEF BindFails, EndSession, EndProcess, skeleton, zk, PathType
<1>8. ASSUME NEW s \in Server, OnConnected(s) PROVE TypeOK'
  <2>1. /\ events' \in [Server -> Seq({"connected", "connecting", "expired"})]
        /\ is_conected' \in [Server -> {0, 1, GARBAGE}]
    BY <1>8 DEF OnConnected, NextEvent
  <2>2. info' \in [Server -> Server \cup {GARBAGE}] /\ w' \in [Server -> WatcherPc]
    BY <1>8 DEF OnConnected
  <2>3. UNCHANGED <<pc, life, sess, node_path, is_tail, next_server_path,
                    znodes, alive, nextSeq, losses>>
    BY <1>8 DEF OnConnected, zk
  <2> QED BY <2>1, <2>2, <2>3
<1>9. ASSUME NEW s \in Server, OnDisconnected(s) PROVE TypeOK'
  <2>1. /\ events' \in [Server -> Seq({"connected", "connecting", "expired"})]
        /\ is_conected' \in [Server -> {0, 1, GARBAGE}]
    <3>1. events[s] # <<>> /\ events' = [events EXCEPT ![s] = Tail(@)]
      BY <1>9 DEF OnDisconnected, NextEvent
    <3>2. is_conected' = [is_conected EXCEPT ![s] = 0]
      BY <1>9 DEF OnDisconnected
    <3>3. Tail(events[s]) \in Seq({"connected", "connecting", "expired"})
      BY <3>1
    <3> QED BY <3>1, <3>2, <3>3
  <2>2. UNCHANGED <<pc, life, w, info, sess, node_path, is_tail, next_server_path,
                    znodes, alive, nextSeq, losses>>
    BY <1>9 DEF OnDisconnected, zk
  <2> QED BY <2>1, <2>2
<1>10. ASSUME NEW s \in Server, CreateSucceeds(s) PROVE TypeOK'
  BY <1>1, <1>10, MembershipAssumption DEF CreateSucceeds, MakeZnode, Return, skeleton, zk, PathType
<1>11. ASSUME NEW s \in Server, CreateFails(s) PROVE TypeOK'
  BY <1>1, <1>11, MembershipAssumption DEF CreateFails, Return, skeleton, zk, PathType
<1>12. ASSUME NEW s \in Server, ConnectSession(s) PROVE TypeOK'
  BY <1>1, <1>12, MembershipAssumption DEF ConnectSession, Tell, skeleton, zk, PathType
<1>13. ASSUME NEW s \in Server, FindExpired(s) PROVE TypeOK'
  BY <1>1, <1>13, MembershipAssumption DEF FindExpired, Tell, skeleton, zk, PathType
<1>14. ASSUME NEW s \in Server, CreateRefused(s) PROVE TypeOK'
  BY <1>1, <1>14, MembershipAssumption DEF CreateRefused, skeleton, zk, PathType
<1>15. ASSUME NEW s \in Server, LoseConnection(s) PROVE TypeOK'
  BY <1>1, <1>15, MembershipAssumption DEF LoseConnection, Tell, MaybeExecuted, MakeZnode, skeleton, zk, PathType
<1>16. ASSUME NEW s \in Server, Crash(s) PROVE TypeOK'
  BY <1>1, <1>16, MembershipAssumption DEF Crash, EndProcess, MaybeExecuted, MakeZnode, skeleton, zk, PathType
<1>17. ASSUME NEW s \in Server, UseUnsetHandle(s) PROVE TypeOK'
  BY <1>1, <1>17, MembershipAssumption DEF UseUnsetHandle, EndProcess, skeleton, zk, PathType
<1>18. ASSUME NEW x \in alive, ExpireSession(x) PROVE TypeOK'
  BY <1>18 DEF ExpireSession, EndSession, skeleton
<1>19. CASE UNCHANGED mvars
  BY <1>19 DEF mvars, skeleton, zk
<1> QED BY <1>2, <1>3, <1>4, <1>5, <1>6, <1>7, <1>8, <1>9, <1>10,
           <1>11, <1>12, <1>13, <1>14, <1>15, <1>16, <1>17, <1>18, <1>19
        DEF Next, Startup, Watcher, Library

(* What a step does to /chain: nothing, another znode, or fewer of them.   *)
LEMMA ChainSteps ==
  ASSUME TypeOK, Next
  PROVE  /\ \/ znodes' \subseteq znodes /\ nextSeq' = nextSeq
            \/ \E s \in Server : MakeZnode(s) /\ life' = life
         /\ \A s \in Server : life[s] \in Nat /\ life'[s] \in Nat /\ life[s] <= life'[s]
<1>0. life \in [Server -> Nat]
  BY DEF TypeOK
<1>1. ASSUME NEW s \in Server, StartProcess(s)
      PROVE  znodes' = znodes /\ nextSeq' = nextSeq /\ life' = [life EXCEPT ![s] = @ + 1]
  BY <1>1 DEF StartProcess, zk
<1>2. ASSUME NEW s \in Server, Startup(s) \/ BindFails(s)
      PROVE  znodes' \subseteq znodes /\ nextSeq' = nextSeq /\ life' = life
  BY <1>2 DEF Startup, StoreHandle, StorePort, StoreFlags, Bind, BindFails, EndSession,
              EndProcess, zk
<1>3. ASSUME NEW s \in Server, Watcher(s) \/ LoseConnection(s) \/ Crash(s)
      PROVE  ((znodes' = znodes /\ nextSeq' = nextSeq) \/ MakeZnode(s)) /\ life' = life
  BY <1>3 DEF Watcher, OnConnected, OnDisconnected, CreateSucceeds, CreateFails,
              LoseConnection, Crash, EndProcess, MaybeExecuted, zk
<1>4. ASSUME NEW s \in Server, Library(s) \/ UseUnsetHandle(s)
      PROVE  znodes' = znodes /\ nextSeq' = nextSeq /\ life' = life
  BY <1>4 DEF Library, ConnectSession, FindExpired, CreateRefused, UseUnsetHandle,
              EndProcess, zk
<1>5. ASSUME NEW x \in alive, ExpireSession(x)
      PROVE  znodes' \subseteq znodes /\ nextSeq' = nextSeq /\ life' = life
  BY <1>5 DEF ExpireSession, EndSession
<1>6. (\E s \in Server : StartProcess(s)) \/ life' = life
  BY <1>2, <1>3, <1>4, <1>5 DEF Next
<1>7. \A s \in Server : life[s] \in Nat /\ life'[s] \in Nat /\ life[s] <= life'[s]
  BY <1>0, <1>1, <1>6
<1> QED BY <1>1, <1>2, <1>3, <1>4, <1>5, <1>7 DEF Next

LEMMA NextZnodesNumbered ==
  TypeOK /\ ZnodesNumbered /\ [Next]_mvars => ZnodesNumbered'
<1> SUFFICES ASSUME TypeOK, ZnodesNumbered, [Next]_mvars PROVE ZnodesNumbered'
  OBVIOUS
<1>1. /\ nextSeq \in Nat
      /\ \A z \in znodes : z.seq \in Nat /\ z.owner.srv \in Server /\ z.owner.life \in Nat
  BY DEF TypeOK, SessionType
<1>2. CASE UNCHANGED mvars
  BY <1>2 DEF mvars, zk, ZnodesNumbered, RestartSupersedes
<1>3. ASSUME znodes' \subseteq znodes, nextSeq' = nextSeq,
             \A s \in Server : life[s] \in Nat /\ life'[s] \in Nat /\ life[s] <= life'[s]
      PROVE  ZnodesNumbered'
  BY <1>1, <1>3 DEF ZnodesNumbered, RestartSupersedes
<1>4. ASSUME NEW s \in Server, MakeZnode(s), life' = life, life[s] \in Nat
      PROVE  ZnodesNumbered'
  <2> DEFINE new == [seq |-> nextSeq, owner |-> Session(s), addr |-> info[s]]
  <2>1. znodes' = znodes \cup {new} /\ nextSeq' = nextSeq + 1
    BY <1>4 DEF MakeZnode
  <2>2. new.seq = nextSeq /\ new.owner.srv = s /\ new.owner.life = life[s]
    BY DEF Session
  <2> HIDE DEF new
  <2>3. \A z \in znodes' : z.seq < nextSeq' /\ z.owner.life <= life'[z.owner.srv]
    BY <1>1, <1>4, <2>1, <2>2 DEF ZnodesNumbered
  <2>4. RestartSupersedes'
    BY <1>1, <1>4, <2>1, <2>2 DEF ZnodesNumbered, RestartSupersedes
  <2> QED BY <2>3, <2>4 DEF ZnodesNumbered
<1> QED BY <1>2, <1>3, <1>4, ChainSteps

LEMMA NextFieldsUnset == TypeOK /\ FieldsUnset /\ [Next]_mvars => FieldsUnset'
<1> SUFFICES ASSUME TypeOK, FieldsUnset, [Next]_mvars PROVE FieldsUnset'
  OBVIOUS
<1>1. /\ pc \in [Server -> MainPc] /\ is_tail \in [Server -> {0, 1, GARBAGE}]
      /\ next_server_path \in [Server -> PathType]
  BY DEF TypeOK
<1>2. ASSUME NEW s \in Server, StoreFlags(s) PROVE FieldsUnset'
  BY <1>1, <1>2 DEF StoreFlags, Main, FieldsUnset, Started
<1>3. ASSUME NEW s \in Server, EndProcess(s) PROVE FieldsUnset'
  BY <1>1, <1>3 DEF EndProcess, FieldsUnset, Started
<1>4. ASSUME UNCHANGED <<is_tail, next_server_path>>,
             \A s \in Server : Started(s)' => Started(s)
      PROVE  FieldsUnset'
  BY <1>4 DEF FieldsUnset
<1>5. ASSUME UNCHANGED <<pc, is_tail, next_server_path>>
      PROVE  FieldsUnset'
  BY <1>5 DEF FieldsUnset, Started
<1>6. ASSUME NEW s \in Server,
             StartProcess(s) \/ StoreHandle(s) \/ StorePort(s) \/ Bind(s)
      PROVE  FieldsUnset'
  BY <1>1, <1>4, <1>6 DEF StartProcess, StoreHandle, StorePort, Bind, Main, Started, skeleton
<1>7. ASSUME NEW s \in Server, Watcher(s) \/ Library(s) \/ LoseConnection(s)
      PROVE  FieldsUnset'
  BY <1>5, <1>7 DEF Watcher, OnConnected, OnDisconnected, CreateSucceeds, CreateFails,
       NextEvent, Library, ConnectSession, FindExpired, CreateRefused, LoseConnection, skeleton
<1>8. ASSUME NEW x \in alive, ExpireSession(x) PROVE FieldsUnset'
  BY <1>5, <1>8 DEF ExpireSession, skeleton
<1>9. CASE UNCHANGED mvars
  BY <1>5, <1>9 DEF mvars, skeleton
<1> QED BY <1>2, <1>3, <1>6, <1>7, <1>8, <1>9
        DEF Next, Startup, BindFails, Crash, UseUnsetHandle

(* ZooKeeper keeps the session of s, if at all, with all its znodes.       *)
Kept(s) ==
  Session(s) \in alive' =>
    /\ Session(s) \in alive
    /\ \A z \in znodes : z.owner = Session(s) => z \in znodes'

(* A step that leaves the process of s alone, or changes only what the     *)
(* paths do not depend on.                                                 *)
LEMMA SamePath ==
  ASSUME NEW s \in Server, Own(s), Fresh(s), Kept(s),
         node_path'[s] = node_path[s], life'[s] = life[s],
         pc'[s] = "off" <=> pc[s] = "off",
         sess'[s] = "new" => /\ sess[s] = "new"
                             /\ w'[s] = w[s] /\ events'[s] = events[s],
         pc[s] = "off" => sess'[s] = sess[s]
  PROVE  Own(s)' /\ Fresh(s)'
<1>1. Session(s)' = Session(s)
  BY DEF Session
<1> QED BY <1>1 DEF Own, Fresh, Kept

(* The znodes of the other servers' sessions stay.                         *)
LEMMA OthersKept ==
  ASSUME NEW s \in Server, NEW r \in Server, r # s,
         \/ UNCHANGED zk
         \/ MakeZnode(s)
         \/ EndSession(Session(s))
         \/ alive' = alive \cup {Session(s)} /\ znodes' = znodes
  PROVE  Kept(r)
<1>1. Session(r) # Session(s)
  <2>1. Session(r).srv = r /\ Session(s).srv = s
    BY DEF Session
  <2> QED BY <2>1
<1> QED BY <1>1 DEF Kept, MakeZnode, EndSession, NodesOfSession, zk

LEMMA NextPathsOwn == TypeOK /\ PathsOwn /\ [Next]_mvars => PathsOwn'
<1> SUFFICES ASSUME TypeOK, PathsOwn, [Next]_mvars PROVE PathsOwn'
  OBVIOUS
<1>1. /\ pc \in [Server -> MainPc] /\ w \in [Server -> WatcherPc]
      /\ events \in [Server -> Seq({"connected", "connecting", "expired"})]
      /\ sess \in [Server -> SessState] /\ node_path \in [Server -> PathType]
      /\ life \in [Server -> Nat] /\ nextSeq \in Nat
  BY DEF TypeOK
<1>2. CASE UNCHANGED mvars
  BY <1>2, SamePath DEF mvars, zk, skeleton, Kept, PathsOwn
(* Steps that keep the stored path of s. *)
<1>3. ASSUME NEW s \in Server, UNCHANGED <<node_path, life>>,
             \/ UNCHANGED zk
             \/ MakeZnode(s),
             pc'[s] = "off" <=> pc[s] = "off",
             sess'[s] = "new" => sess[s] = "new" /\ w'[s] = w[s] /\ events'[s] = events[s],
             pc[s] = "off" => sess'[s] = sess[s],
             \A r \in Server : r # s => /\ pc'[r] = pc[r] /\ sess'[r] = sess[r]
                                       /\ w'[r] = w[r] /\ events'[r] = events[r]
      PROVE  PathsOwn'
  <2>1. Kept(s)
    BY <1>3 DEF Kept, MakeZnode, zk
  <2>2. \A r \in Server : r # s => Kept(r)
    BY <1>3, OthersKept
  <2> QED BY <1>3, <2>1, <2>2, SamePath DEF PathsOwn
(* Steps that store a path or forget one. *)
<1>4. ASSUME NEW s \in Server, Own(s)', Fresh(s)',
             \/ UNCHANGED zk
             \/ MakeZnode(s)
             \/ EndSession(Session(s))
             \/ alive' = alive \cup {Session(s)} /\ znodes' = znodes,
             \A r \in Server : r # s => /\ pc'[r] = pc[r] /\ sess'[r] = sess[r]
                                       /\ w'[r] = w[r] /\ events'[r] = events[r]
                                       /\ node_path'[r] = node_path[r]
                                       /\ life'[r] = life[r]
      PROVE  PathsOwn'
  <2>1. \A r \in Server : r # s => Kept(r)
    BY <1>4, OthersKept
  <2> QED BY <1>4, <2>1, SamePath DEF PathsOwn
<1>5. ASSUME NEW s \in Server, StartProcess(s) PROVE PathsOwn'
  <2>1. Own(s)' /\ Fresh(s)'
    BY <1>1, <1>5 DEF StartProcess, Main, PathsOwn, Own, Fresh, skeleton
  <2> QED BY <1>1, <1>4, <1>5, <2>1 DEF StartProcess, Main, skeleton
<1>6. ASSUME NEW s \in Server, StorePort(s) PROVE PathsOwn'
  <2>1. Own(s)' /\ Fresh(s)'
    BY <1>1, <1>6 DEF StorePort, Main, PathsOwn, Own, Fresh
  <2> QED BY <1>1, <1>4, <1>6, <2>1 DEF StorePort, Main
<1>7. ASSUME NEW s \in Server, StoreHandle(s) \/ StoreFlags(s) \/ Bind(s) PROVE PathsOwn'
  BY <1>1, <1>3, <1>7 DEF StoreHandle, StoreFlags, Bind, Main, skeleton
<1>8. ASSUME NEW s \in Server, BindFails(s) \/ Crash(s) \/ UseUnsetHandle(s)
      PROVE  PathsOwn'
  <2>1. EndProcess(s)
    BY <1>8 DEF BindFails, Crash, UseUnsetHandle
  <2>2. Own(s)' /\ Fresh(s)'
    BY <1>1, <2>1 DEF EndProcess, Own, Fresh
  <2>3. UNCHANGED zk \/ MakeZnode(s) \/ EndSession(Session(s))
    BY <1>8 DEF BindFails, Crash, UseUnsetHandle, MaybeExecuted
  <2> QED BY <1>1, <1>4, <2>1, <2>2, <2>3 DEF EndProcess
<1>9. ASSUME NEW s \in Server, OnConnected(s) \/ OnDisconnected(s) PROVE PathsOwn'
  <2>1. sess[s] # "new"
    BY <1>9 DEF OnConnected, OnDisconnected, NextEvent, PathsOwn, Fresh
  <2> QED BY <1>1, <1>3, <1>9, <2>1 DEF OnConnected, OnDisconnected, NextEvent
<1>10. ASSUME NEW s \in Server, CreateSucceeds(s) PROVE PathsOwn'
  <2>1. Own(s)'
    <3>1. node_path'[s] = Path(nextSeq)
      BY <1>1, <1>10 DEF CreateSucceeds
    <3>2. Session(s)' = Session(s)
      BY <1>10 DEF CreateSucceeds, Session
    <3>3. \E z \in znodes' : z.seq = nextSeq /\ z.owner = Session(s)
      <4> DEFINE new == [seq |-> nextSeq, owner |-> Session(s), addr |-> info[s]]
      <4>1. new \in znodes' /\ new.seq = nextSeq /\ new.owner = Session(s)
        BY <1>10 DEF CreateSucceeds, MakeZnode
      <4> QED BY <4>1
    <3> QED BY <3>1, <3>2, <3>3 DEF Own
  <2>2. Fresh(s)'
    BY <1>10 DEF CreateSucceeds, PathsOwn, Fresh
  <2> QED BY <1>1, <1>4, <1>10, <2>1, <2>2 DEF CreateSucceeds, Return
<1>11. ASSUME NEW s \in Server, CreateFails(s) PROVE PathsOwn'
  <2>1. sess[s] # "new"
    BY <1>11 DEF CreateFails, PathsOwn, Fresh
  <2> QED BY <1>1, <1>3, <1>11, <2>1 DEF CreateFails, Return
<1>12. ASSUME NEW s \in Server, ConnectSession(s) PROVE PathsOwn'
  <2>1. UNCHANGED zk \/ (alive' = alive \cup {Session(s)} /\ znodes' = znodes)
    BY <1>12 DEF ConnectSession, zk
  <2>2. Fresh(s)'
    BY <1>1, <1>12 DEF ConnectSession, Fresh, skeleton
  <2>3. Own(s)'
    <3>1. CASE sess[s] = "new"
      BY <1>12, <3>1 DEF ConnectSession, PathsOwn, Fresh, Own, skeleton
    <3>2. CASE sess[s] # "new"
      BY <1>12, <3>2 DEF ConnectSession, PathsOwn, Own, Session, skeleton
    <3> QED BY <3>1, <3>2
  <2> QED BY <1>1, <1>4, <1>12, <2>1, <2>2, <2>3 DEF ConnectSession, Tell, skeleton
<1>13. ASSUME NEW s \in Server, FindExpired(s) \/ CreateRefused(s) \/ LoseConnection(s)
       PROVE  PathsOwn'
  <2>1. UNCHANGED zk \/ MakeZnode(s)
    BY <1>13 DEF FindExpired, CreateRefused, LoseConnection, MaybeExecuted
  <2>2. sess[s] # "new" /\ sess'[s] # "new" /\ pc[s] # "off" /\ pc' = pc
    BY <1>1, <1>13 DEF FindExpired, CreateRefused, LoseConnection
  <2> QED BY <1>1, <1>3, <1>13, <2>1, <2>2
          DEF FindExpired, CreateRefused, LoseConnection, Tell, skeleton
<1>14. ASSUME NEW x \in alive, ExpireSession(x) PROVE PathsOwn'
  <2>1. \A s \in Server : Kept(s)
    BY <1>14 DEF ExpireSession, EndSession, NodesOfSession, Kept
  <2> QED BY <1>14, <2>1, SamePath DEF ExpireSession, PathsOwn, skeleton
<1> QED BY <1>2, <1>5, <1>6, <1>7, <1>8, <1>9, <1>10, <1>11, <1>12, <1>13, <1>14
        DEF Next, Startup, Watcher, Library

LEMMA SpecMemberInv == Spec => []MemberInv
<1>1. MemberInv /\ [Next]_mvars => MemberInv'
  BY NextTypeOK, NextZnodesNumbered, NextFieldsUnset, NextPathsOwn DEF MemberInv
<1> QED BY <1>1, InitMemberInv, PTL DEF Spec

(* Every variable keeps its type. *)
THEOREM MembershipTypeCorrect == Spec => []TypeOK
  BY SpecMemberInv, PTL DEF MemberInv

(* However often servers are restarted, sessions are resumed and requests  *)
(* are repeated, the sequence numbers of znodes are distinct, and those of *)
(* a restarted server follow those of its earlier lives.                   *)
THEOREM RestartsSupersede == Spec => []RestartSupersedes
<1>1. MemberInv => RestartSupersedes
  BY DEF MemberInv, ZnodesNumbered
<1> QED BY <1>1, SpecMemberInv, PTL

(* node_path names a znode of the server's own session, also when an       *)
(* earlier request of the same session was executed unnoticed.             *)
THEOREM NodePathsAreOwn == Spec => []NodePathIsOwn
<1>1. MemberInv => NodePathIsOwn
  BY DEF MemberInv, PathsOwn, Own, NodePathIsOwn
<1> QED BY <1>1, SpecMemberInv, PTL

(* No server is ever the tail, and none has a successor, in any execution  *)
(* and for any number of servers; nor would a call of chain_watcher change *)
(* it.  So the program as built never replicates and never serves a read.  *)
THEOREM NoServerEverInChain == Spec => []NoServerInChain
<1>1. MemberInv => NoServerInChain
  <2> SUFFICES ASSUME MemberInv, NEW s \in Server,
                      node_path[s] \notin {NULL, GARBAGE}, znodes # {}
               PROVE  chain_watcher(node_path[s], NULL, ChildNames(znodes))
                        = [next_server_path |-> NULL, is_tail |-> 0]
    BY DEF MemberInv, FieldsUnset, NoServerInChain
  <2>1. PICK n \in Nat : node_path[s] = Path(n)
    BY DEF MemberInv, TypeOK, PathType, Path
  <2>2. /\ nextSeq \in Nat
        /\ \A x \in Names(znodes) : x.seq \in 0..nextSeq /\ x = Name(x.seq)
    <3>1. nextSeq \in Nat /\ \A z \in znodes : z.seq \in 0..nextSeq
      BY DEF MemberInv, TypeOK, ZnodesNumbered
    <3>2. \A x \in Names(znodes) : \E z \in znodes : x = Name(z.seq)
      BY DEF Names
    <3>3. \A k : Name(k).seq = k
      BY DEF Name
    <3> QED BY <3>1, <3>2, <3>3
  <2>3. IsFiniteSet(Names(znodes))
    <3> DEFINE N == Names(znodes)
               T == 0..nextSeq
               f == [x \in N |-> x.seq]
    <3>1. f \in Injection(N, T)
      <4>1. f \in [N -> T]
        BY <2>2
      <4>2. \A x, y \in N : f[x] = f[y] => x = y
        BY <2>2
      <4> QED BY <4>1, <4>2 DEF Injection, IsInjective
    <3>2. IsFiniteSet(T)
      BY <2>2, FS_Interval
    <3> HIDE DEF f, N, T
    <3>3. IsFiniteSet(N)
      BY <3>1, <3>2, FS_Injection
    <3> QED BY <3>3 DEF N
  <2>4. Names(znodes) # {}
    BY DEF Names
  <2>5. Cardinality(Names(znodes)) \in Nat \ {0}
    BY <2>3, <2>4, FS_CardinalityType, FS_EmptySet
  <2>6. /\ Len(ChildNames(znodes)) \in Nat \ {0}
        /\ \A i \in 1..Len(ChildNames(znodes)) :
             \E k \in Nat : ChildNames(znodes)[i] = Name(k)
    BY <2>2, <2>3, <2>5, ChildNamesSorted
  <2> QED BY <2>1, <2>6, PathIsNoName
<1> QED BY <1>1, SpecMemberInv, PTL

-----------------------------------------------------------------------------
(* What a server believes of its registration. *)

Registered(s) ==
  Started(s) /\ is_conected[s] = 1 /\ w[s] = "idle" /\ events[s] = <<>>
  => sess[s] = "connected" /\ \E z \in znodes : z.owner = Session(s)

(* The conditions of Registered are no weaker, and the session goes on.    *)
LEMMA SameRegistration ==
  ASSUME NEW s \in Server, Registered(s),
         Started(s)' => Started(s), is_conected'[s] = is_conected[s], w'[s] = w[s],
         events'[s] = events[s], sess'[s] = sess[s], life'[s] = life[s],
         Started(s) /\ sess[s] = "connected" =>
           \A z \in znodes : z.owner = Session(s) => z \in znodes'
  PROVE  Registered(s)'
<1>1. Session(s)' = Session(s)
  BY DEF Session
<1> QED BY <1>1 DEF Registered

LEMMA NextRegistered ==
  TypeOK /\ ConnectedIsRegistered /\ [Next]_mvars => ConnectedIsRegistered'
<1> SUFFICES ASSUME TypeOK, \A s \in Server : Registered(s), [Next]_mvars
             PROVE  \A s \in Server : Registered(s)'
  BY DEF ConnectedIsRegistered, Registered
<1>1. /\ pc \in [Server -> MainPc] /\ w \in [Server -> WatcherPc]
      /\ events \in [Server -> Seq({"connected", "connecting", "expired"})]
      /\ sess \in [Server -> SessState] /\ is_conected \in [Server -> {0, 1, GARBAGE}]
      /\ life \in [Server -> Nat]
  BY DEF TypeOK
<1>2. CASE UNCHANGED mvars
  BY <1>2, SameRegistration DEF mvars, zk, skeleton, Started
(* A step of server s that the others do not notice. *)
<1>3. ASSUME NEW s \in Server, Registered(s)',
             \/ UNCHANGED zk
             \/ MakeZnode(s)
             \/ EndSession(Session(s))
             \/ znodes' = znodes,
             \A r \in Server : r # s =>
               /\ pc'[r] = pc[r] /\ is_conected'[r] = is_conected[r] /\ w'[r] = w[r]
               /\ events'[r] = events[r] /\ sess'[r] = sess[r] /\ life'[r] = life[r]
      PROVE  \A r \in Server : Registered(r)'
  <2>1. ASSUME NEW r \in Server, r # s PROVE Registered(r)'
    <3>1. \A z \in znodes : z.owner = Session(r) => z \in znodes'
      <4>1. Session(r) # Session(s)
        <5>1. Session(r).srv = r /\ Session(s).srv = s
          BY DEF Session
        <5> QED BY <2>1, <5>1
      <4> QED BY <1>3, <4>1 DEF MakeZnode, EndSession, NodesOfSession, zk
    <3> QED BY <1>3, <2>1, <3>1, SameRegistration DEF Started
  <2> QED BY <1>3, <2>1
<1>4. ASSUME NEW s \in Server, StartProcess(s) \/ StoreHandle(s) \/ StorePort(s)
      PROVE  \A r \in Server : Registered(r)'
  <2>1. ~Started(s)'
    BY <1>1, <1>4 DEF StartProcess, StoreHandle, StorePort, Main, Started
  <2>2. Registered(s)'
    BY <2>1 DEF Registered
  <2> QED BY <1>1, <1>3, <1>4, <2>2 DEF StartProcess, StoreHandle, StorePort, Main, skeleton
<1>5. ASSUME NEW s \in Server, StoreFlags(s) PROVE \A r \in Server : Registered(r)'
  <2>1. Registered(s)'
    BY <1>1, <1>5 DEF StoreFlags, Registered
  <2> QED BY <1>1, <1>3, <1>5, <2>1 DEF StoreFlags, Main
<1>6. ASSUME NEW s \in Server, Bind(s) PROVE \A r \in Server : Registered(r)'
  <2>1. Registered(s)'
    BY <1>1, <1>6, SameRegistration DEF Bind, Main, Started, skeleton, zk
  <2> QED BY <1>1, <1>3, <1>6, <2>1 DEF Bind, Main, skeleton
<1>7. ASSUME NEW s \in Server, BindFails(s) \/ Crash(s) \/ UseUnsetHandle(s)
      PROVE  \A r \in Server : Registered(r)'
  <2>1. EndProcess(s) /\ (UNCHANGED zk \/ MakeZnode(s) \/ EndSession(Session(s)))
    BY <1>7 DEF BindFails, Crash, UseUnsetHandle, MaybeExecuted
  <2>2. ~Started(s)'
    BY <1>1, <2>1 DEF EndProcess, Started
  <2>3. Registered(s)'
    BY <2>2 DEF Registered
  <2> QED BY <1>1, <1>3, <2>1, <2>3 DEF EndProcess
<1>8. ASSUME NEW s \in Server, OnConnected(s) PROVE \A r \in Server : Registered(r)'
  <2>1. w'[s] # "idle"
    BY <1>1, <1>8 DEF OnConnected
  <2>2. Registered(s)'
    BY <2>1 DEF Registered
  <2> QED BY <1>1, <1>3, <1>8, <2>2 DEF OnConnected, NextEvent
<1>9. ASSUME NEW s \in Server, OnDisconnected(s) \/ CreateFails(s)
      PROVE  \A r \in Server : Registered(r)'
  <2>1. is_conected'[s] = 0
    BY <1>1, <1>9 DEF OnDisconnected, CreateFails
  <2>2. Registered(s)'
    BY <2>1 DEF Registered
  <2> QED BY <1>1, <1>3, <1>9, <2>2 DEF OnDisconnected, CreateFails, NextEvent, Return
<1>10. ASSUME NEW s \in Server, CreateSucceeds(s) PROVE \A r \in Server : Registered(r)'
  <2>1. sess'[s] = "connected" /\ Session(s)' = Session(s)
    BY <1>10 DEF CreateSucceeds, Session
  <2>2. \E z \in znodes' : z.owner = Session(s)
    <3> DEFINE new == [seq |-> nextSeq, owner |-> Session(s), addr |-> info[s]]
    <3>1. new \in znodes' /\ new.owner = Session(s)
      BY <1>10 DEF CreateSucceeds, MakeZnode
    <3> QED BY <3>1
  <2>3. Registered(s)'
    BY <2>1, <2>2 DEF Registered
  <2> QED BY <1>1, <1>3, <1>10, <2>3 DEF CreateSucceeds, Return
<1>11. ASSUME NEW s \in Server, ConnectSession(s) \/ FindExpired(s) \/ LoseConnection(s)
       PROVE  \A r \in Server : Registered(r)'
  <2>1. PICK e \in {"connected", "connecting", "expired"} : events'[s] = Append(events[s], e)
    BY <1>1, <1>11 DEF ConnectSession, FindExpired, LoseConnection, Tell
  <2>2. events'[s] # <<>>
    <3>1. events[s] \in Seq({"connected", "connecting", "expired"})
      BY <1>1
    <3> QED BY <2>1, <3>1
  <2>3. Registered(s)'
    BY <2>2 DEF Registered
  <2>4. MakeZnode(s) \/ znodes' = znodes
    BY <1>11 DEF ConnectSession, FindExpired, LoseConnection, MaybeExecuted, zk
  <2> QED BY <1>1, <1>3, <1>11, <2>3, <2>4
          DEF ConnectSession, FindExpired, LoseConnection, Tell, skeleton
<1>12. ASSUME NEW s \in Server, CreateRefused(s) PROVE \A r \in Server : Registered(r)'
  <2>1. w'[s] # "idle"
    BY <1>1, <1>12 DEF CreateRefused
  <2>2. Registered(s)'
    BY <2>1 DEF Registered
  <2> QED BY <1>1, <1>3, <1>12, <2>2 DEF CreateRefused, skeleton
<1>13. ASSUME NEW x \in alive, ExpireSession(x) PROVE \A r \in Server : Registered(r)'
  <2>1. ASSUME NEW r \in Server, Started(r), sess[r] = "connected" PROVE Session(r) # x
    BY <1>13, <2>1 DEF ExpireSession, Session, Started
  <2> QED BY <1>13, <2>1, SameRegistration
          DEF ExpireSession, EndSession, NodesOfSession, Started, skeleton
<1> QED BY <1>2, <1>4, <1>5, <1>6, <1>7, <1>8, <1>9, <1>10, <1>11, <1>12, <1>13
        DEF Next, Startup, Watcher, Library

(* A server that takes itself for connected and has no event to come has   *)
(* its session and a znode, whatever sessions were lost, resumed or        *)
(* expired before.                                                         *)
THEOREM ConnectedAreRegistered == Spec => []ConnectedIsRegistered
<1>1. Init => ConnectedIsRegistered
  BY DEF Init, ConnectedIsRegistered, Started
<1>2. MemberInv => TypeOK
  BY DEF MemberInv
<1> QED BY <1>1, <1>2, NextRegistered, SpecMemberInv, PTL DEF Spec
=============================================================================
