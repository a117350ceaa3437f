------------------------------ MODULE Membership ------------------------------
(***************************************************************************)
(* How a server joins the chain: main() of source/server_hashtable.c,      *)
(* server_skeleton_init, connection_watcher and chain_watcher of           *)
(* source/server_skeleton.c, and as much of ZooKeeper as they use.         *)
(*                                                                         *)
(* A server is two threads: main, and the ZooKeeper client library, which  *)
(* zookeeper_init starts and which calls connection_watcher for each event *)
(* of the session, in order.  They share the skeleton without a lock (its  *)
(* mutex is initialised and never taken).  ZooKeeper itself is external:   *)
(* sessions with their ephemeral sequential znodes under /chain, which the *)
(* operator creates beforehand, and sessions that expire when their client *)
(* is cut off or dead.                                                     *)
(***************************************************************************)
EXTENDS Integers, SequencesExt

CONSTANTS
  Server,     \* servers; a server's port stands for the server
  MaxLives,   \* bound: times a server is started
  MaxLosses,  \* bound: connections to ZooKeeper that break
  NULL,       \* a null pointer or an empty path
  GARBAGE     \* what a variable holds that was never assigned

ASSUME MembershipAssumption ==
  /\ MaxLives \in Nat /\ MaxLosses \in Nat
  /\ NULL # GARBAGE /\ NULL # 0 /\ NULL # 1 /\ GARBAGE \notin {0, 1}
  /\ GARBAGE \notin Server

VARIABLES
  pc,         \* where main is
  life,       \* how many times the server was started
  w,          \* where the library's thread is
  info,       \* the address in connection_watcher's server_info
  events,     \* session events not yet handed to connection_watcher
  sess,       \* the session as the library sees it
  node_path, is_conected, is_tail, next_server_path,  \* the skeleton
  znodes,     \* the children of /chain
  alive,      \* the sessions that ZooKeeper keeps
  nextSeq,    \* the next sequence number under /chain
  losses      \* connections that broke so far

skeleton == <<node_path, is_conected, is_tail, next_server_path>>
zk       == <<znodes, alive, nextSeq>>
mvars    == <<pc, life, w, info, events, sess, skeleton, zk, losses>>

(* main: "off" no process; "init" zookeeper_init has started the library;  *)
(* "handle" server->zh is assigned; "fields" port and node_path too;       *)
(* "bind" server_skeleton_init is over; "serving" in network_main_loop.    *)
MainPc    == {"off", "init", "handle", "fields", "bind", "serving"}
WatcherPc == {"idle", "create", "fail"}
SessState == {"new", "connecting", "connected", "expired"}

Session(s) == [srv |-> s, life |-> life[s]]

(* A znode's full path, which zoo_create returns, and its name among the   *)
(* children, which zoo_get_children returns.                               *)
Path(n) == [dir |-> "/chain/", seq |-> n]
Name(n) == [dir |-> "", seq |-> n]

(* The znodes a session made. *)
NodesOfSession(x) == {z \in znodes : z.owner = x}

Init ==
  /\ pc = [s \in Server |-> "off"]
  /\ life = [s \in Server |-> 0]
  /\ w = [s \in Server |-> "idle"]
  /\ info = [s \in Server |-> GARBAGE]
  /\ events = [s \in Server |-> <<>>]
  /\ sess = [s \in Server |-> "new"]
  /\ node_path = [s \in Server |-> GARBAGE]
  /\ is_conected = [s \in Server |-> GARBAGE]
  /\ is_tail = [s \in Server |-> GARBAGE]
  /\ next_server_path = [s \in Server |-> GARBAGE]
  /\ znodes = {}
  /\ alive = {}
  /\ nextSeq = 0
  /\ losses = 0

-----------------------------------------------------------------------------
(* main *)

Main(s, from, to) == pc[s] = from /\ pc' = [pc EXCEPT ![s] = to]

(* A process starts: malloc, table_create and zookeeper_init.              *)
StartProcess(s) ==
  /\ Main(s, "off", "init")
  /\ life[s] < MaxLives
  /\ life' = [life EXCEPT ![s] = @ + 1]
  /\ UNCHANGED <<w, info, events, sess, skeleton, zk, losses>>

(* The process ends and its memory is gone. *)
EndProcess(s) ==
  /\ pc[s] # "off"
  /\ pc' = [pc EXCEPT ![s] = "off"]
  /\ w' = [w EXCEPT ![s] = "idle"]
  /\ info' = [info EXCEPT ![s] = GARBAGE]
  /\ events' = [events EXCEPT ![s] = <<>>]
  /\ sess' = [sess EXCEPT ![s] = "new"]
  /\ node_path' = [node_path EXCEPT ![s] = GARBAGE]
  /\ is_conected' = [is_conected EXCEPT ![s] = GARBAGE]
  /\ is_tail' = [is_tail EXCEPT ![s] = GARBAGE]
  /\ next_server_path' = [next_server_path EXCEPT ![s] = GARBAGE]
  /\ UNCHANGED <<life, losses>>

StoreHandle(s) ==
  /\ Main(s, "init", "handle")
  /\ UNCHANGED <<life, w, info, events, sess, skeleton, zk, losses>>

(* server->port and server->node_path, whatever the library's thread has   *)
(* done meanwhile.                                                         *)
StorePort(s) ==
  /\ Main(s, "handle", "fields")
  /\ node_path' = [node_path EXCEPT ![s] = NULL]
  /\ UNCHANGED <<life, w, info, events, sess, is_conected, is_tail,
                 next_server_path, zk, losses>>

(* Mutant: a new server takes itself for the tail. *)
StoreFlagsTail(s) ==
  /\ Main(s, "fields", "bind")
  /\ next_server_path' = [next_server_path EXCEPT ![s] = NULL]
  /\ is_conected' = [is_conected EXCEPT ![s] = 0]
  /\ is_tail' = [is_tail EXCEPT ![s] = 1]
  /\ UNCHANGED <<life, w, info, events, sess, node_path, zk, losses>>

(* The rest of server_skeleton_init. *)
StoreFlags(s) ==
  /\ Main(s, "fields", "bind")
  /\ next_server_path' = [next_server_path EXCEPT ![s] = NULL]
  /\ is_conected' = [is_conected EXCEPT ![s] = 0]
  /\ is_tail' = [is_tail EXCEPT ![s] = 0]
  /\ UNCHANGED <<life, w, info, events, sess, node_path, zk, losses>>

(* server_network_init: the port is free. *)
Bind(s) ==
  /\ Main(s, "bind", "serving")
  /\ UNCHANGED <<life, w, info, events, sess, skeleton, zk, losses>>

(* A session ends at ZooKeeper: its znodes go with it. *)
EndSession(x) ==
  /\ alive' = alive \ {x}
  /\ znodes' = znodes \ NodesOfSession(x)
  /\ UNCHANGED nextSeq

(* server_network_init fails: zookeeper_close ends a session that is       *)
(* connected, and leaves another to expire; the process ends.              *)
BindFails(s) ==
  /\ pc[s] = "bind"
  /\ IF sess[s] = "connected" THEN EndSession(Session(s)) ELSE UNCHANGED zk
  /\ EndProcess(s)

-----------------------------------------------------------------------------
(* connection_watcher *)

(* The library hands over the next event of the session. *)
NextEvent(s, type) ==
  /\ pc[s] # "off"
  /\ w[s] = "idle"
  /\ events[s] # <<>> /\ Head(events[s]) = type
  /\ events' = [events EXCEPT ![s] = Tail(@)]

(* ZOO_CONNECTED_STATE, up to the call of zoo_create.  The port may not be *)
(* assigned yet.                                                           *)
OnConnected(s) ==
  /\ NextEvent(s, "connected")
  /\ is_conected' = [is_conected EXCEPT ![s] = 1]
  /\ info' = [info EXCEPT ![s] = IF pc[s] \in {"init", "handle"}
                                 THEN GARBAGE ELSE s]
  /\ w' = [w EXCEPT ![s] = IF pc[s] = "init" THEN "fail" ELSE "create"]
  /\ UNCHANGED <<pc, life, sess, node_path, is_tail, next_server_path, zk, losses>>

(* Mutant: the flag is set to -1. *)
OnDisconnectedMinus(s) ==
  /\ \/ NextEvent(s, "connecting")
     \/ NextEvent(s, "expired")
  /\ is_conected' = [is_conected EXCEPT ![s] = -1]
  /\ UNCHANGED <<pc, life, w, info, sess, node_path, is_tail, next_server_path,
                 zk, losses>>

(* Mutant: the flag is left as it is. *)
OnDisconnectedQuietly(s) ==
  /\ \/ NextEvent(s, "connecting")
     \/ NextEvent(s, "expired")
  /\ UNCHANGED <<pc, life, w, info, sess, skeleton, zk, losses>>

(* Every other state of the session. *)
OnDisconnected(s) ==
  /\ \/ NextEvent(s, "connecting")
     \/ NextEvent(s, "expired")
  /\ is_conected' = [is_conected EXCEPT ![s] = 0]
  /\ UNCHANGED <<pc, life, w, info, sess, node_path, is_tail, next_server_path,
                 zk, losses>>

(* Mutant: the number of the znode is used again. *)
MakeZnodeAgain(s) ==
  /\ znodes' = znodes \cup {[seq |-> nextSeq, owner |-> Session(s), addr |-> info[s]]}
  /\ UNCHANGED <<alive, nextSeq>>

(* ZooKeeper makes the znode of a request that s has sent. *)
MakeZnode(s) ==
  /\ znodes' = znodes \cup {[seq |-> nextSeq, owner |-> Session(s), addr |-> info[s]]}
  /\ nextSeq' = nextSeq + 1
  /\ UNCHANGED alive

(* connection_watcher returns; its variables are gone. *)
Return(s) ==
  /\ w' = [w EXCEPT ![s] = "idle"]
  /\ info' = [info EXCEPT ![s] = GARBAGE]

(* zoo_create returns ZOK. *)
CreateSucceeds(s) ==
  /\ pc[s] # "off"
  /\ w[s] = "create"
  /\ sess[s] = "connected"
  /\ Session(s) \in alive
  /\ MakeZnode(s)
  /\ node_path' = [node_path EXCEPT ![s] = Path(nextSeq)]
  /\ Return(s)
  /\ UNCHANGED <<pc, life, events, sess, is_conected, is_tail,
                 next_server_path, losses>>

(* Mutant: the path is stored without looking at the result. *)
CreateFailsStoring(s) ==
  /\ pc[s] # "off"
  /\ w[s] = "fail"
  /\ is_conected' = [is_conected EXCEPT ![s] = 0]
  /\ node_path' = [node_path EXCEPT ![s] = Path(nextSeq)]
  /\ Return(s)
  /\ UNCHANGED <<pc, life, events, sess, is_tail, next_server_path, zk, losses>>

(* Mutant: connection_watcher does not return. *)
CreateFailsBlocking(s) ==
  /\ pc[s] # "off"
  /\ w[s] = "fail"
  /\ is_conected' = [is_conected EXCEPT ![s] = 0]
  /\ UNCHANGED <<pc, life, w, info, events, sess, node_path, is_tail,
                 next_server_path, zk, losses>>

(* zoo_create returns an error. *)
CreateFails(s) ==
  /\ pc[s] # "off"
  /\ w[s] = "fail"
  /\ is_conected' = [is_conected EXCEPT ![s] = 0]
  /\ Return(s)
  /\ UNCHANGED <<pc, life, events, sess, node_path, is_tail,
                 next_server_path, zk, losses>>

-----------------------------------------------------------------------------
(* chain_watcher: what it makes of the sorted names of the children.  No   *)
(* call registers it: zoo_get_children with its watch flag would notify    *)
(* connection_watcher, and is only called by chain_watcher.                *)

(* The names of the children, sorted: at each place the name that has so   *)
(* many names before it.                                                   *)
Names(zs) == {Name(z.seq) : z \in zs}
Before(zs, m) == {x \in Names(zs) : x.seq < m.seq}
ChildNames(zs) ==
  [i \in 1..Cardinality(Names(zs)) |->
     CHOOSE m \in Names(zs) : Cardinality(Before(zs, m)) = i - 1]

(* Mutant: the names of the znodes are compared without the directory. *)
chain_watcher_names(path, next, names) ==
  LET last == Len(names)
      mine == {i \in 1..last : names[i].seq = path.seq}
  IN  [next_server_path |->
         IF mine = {} THEN next
         ELSE IF Max(mine) < last THEN Path(names[Max(mine) + 1].seq) ELSE NULL,
       is_tail |-> IF path.seq = names[last].seq THEN 1 ELSE 0]

chain_watcher(path, next, names) ==
  LET last == Len(names)
      mine == {i \in 1..last : names[i] = path}
  IN  [next_server_path |->
         IF mine = {} THEN next
         ELSE IF Max(mine) < last THEN Path(names[Max(mine) + 1].seq) ELSE NULL,
       is_tail |-> IF path = names[last] THEN 1 ELSE 0]

-----------------------------------------------------------------------------
(* The library's connection, ZooKeeper and failures (external). *)

Tell(s, type) == events' = [events EXCEPT ![s] = Append(@, type)]

(* The session is established or resumed.  *)
ConnectSession(s) ==
  /\ pc[s] # "off"
  /\ \/ sess[s] = "new" /\ alive' = alive \cup {Session(s)}
     \/ sess[s] = "connecting" /\ Session(s) \in alive /\ UNCHANGED alive
  /\ sess' = [sess EXCEPT ![s] = "connected"]
  /\ Tell(s, "connected")
  /\ UNCHANGED <<pc, life, w, info, skeleton, znodes, nextSeq, losses>>

(* The library learns that its session expired; a call that waits fails.   *)
FindExpired(s) ==
  /\ pc[s] # "off"
  /\ sess[s] = "connecting" /\ Session(s) \notin alive
  /\ sess' = [sess EXCEPT ![s] = "expired"]
  /\ Tell(s, "expired")
  /\ w' = [w EXCEPT ![s] = IF @ = "create" THEN "fail" ELSE @]
  /\ UNCHANGED <<pc, life, info, skeleton, zk, losses>>

(* A request made after the session expired. *)
CreateRefused(s) ==
  /\ pc[s] # "off"
  /\ w[s] = "create"
  /\ sess[s] = "expired"
  /\ w' = [w EXCEPT ![s] = "fail"]
  /\ UNCHANGED <<pc, life, info, events, sess, skeleton, zk, losses>>

(* A request under way when its connection is cut may have been executed.  *)
MaybeExecuted(s) ==
  \/ UNCHANGED zk
  \/ w[s] = "create" /\ sess[s] = "connected" /\ Session(s) \in alive /\ MakeZnode(s)

(* The connection breaks: the call under way fails. *)
LoseConnection(s) ==
  /\ pc[s] # "off"
  /\ sess[s] = "connected"
  /\ losses < MaxLosses
  /\ losses' = losses + 1
  /\ sess' = [sess EXCEPT ![s] = "connecting"]
  /\ Tell(s, "connecting")
  /\ w' = [w EXCEPT ![s] = IF @ = "create" THEN "fail" ELSE @]
  /\ MaybeExecuted(s)
  /\ UNCHANGED <<pc, life, info, skeleton>>

(* A session without a connection expires, also that of a dead process.    *)
ExpireSession(x) ==
  /\ x \in alive
  /\ ~(pc[x.srv] # "off" /\ life[x.srv] = x.life /\ sess[x.srv] = "connected")
  /\ EndSession(x)
  /\ UNCHANGED <<pc, life, w, info, events, sess, skeleton, losses>>

(* The process ends without a word to ZooKeeper. *)
Crash(s) ==
  /\ EndProcess(s)
  /\ MaybeExecuted(s)

(* The library's thread calls zoo_create with a handle not yet stored.     *)
UseUnsetHandle(s) ==
  /\ pc[s] = "init"
  /\ w[s] = "fail"
  /\ EndProcess(s)
  /\ UNCHANGED zk

-----------------------------------------------------------------------------

Startup(s) == StoreHandle(s) \/ StorePort(s) \/ StoreFlags(s) \/ Bind(s)

Watcher(s) == OnConnected(s) \/ OnDisconnected(s) \/ CreateSucceeds(s) \/ CreateFails(s)

Library(s) == ConnectSession(s) \/ FindExpired(s) \/ CreateRefused(s)

Next ==
  \/ \E s \in Server :
       \/ StartProcess(s) \/ Startup(s) \/ BindFails(s)
       \/ Watcher(s) \/ Library(s)
       \/ LoseConnection(s) \/ Crash(s) \/ UseUnsetHandle(s)
  \/ \E x \in alive : ExpireSession(x)

(* Threads run and the library keeps trying to connect.  Failures and      *)
(* expirations may or may not happen.                                      *)
Fairness ==
  \A s \in Server :
    /\ WF_mvars(Startup(s) \/ BindFails(s))
    /\ WF_mvars(Watcher(s))
    /\ WF_mvars(Library(s))

Spec == Init /\ [][Next]_mvars /\ Fairness

-----------------------------------------------------------------------------
(* Invariants. *)

PathType == [dir : {"/chain/"}, seq : Nat] \cup {NULL, GARBAGE}
SessionType == [srv : Server, life : Nat]

(* Type invariant; a path in next_server_path names a znode.               *)
TypeOK ==
  /\ pc \in [Server -> MainPc]
  /\ life \in [Server -> Nat]
  /\ w \in [Server -> WatcherPc]
  /\ info \in [Server -> Server \cup {GARBAGE}]
  /\ events \in [Server -> Seq({"connected", "connecting", "expired"})]
  /\ sess \in [Server -> SessState]
  /\ node_path \in [Server -> PathType]
  /\ is_conected \in [Server -> {0, 1, GARBAGE}]
  /\ is_tail \in [Server -> {0, 1, GARBAGE}]
  /\ next_server_path \in [Server -> PathType]
  /\ znodes \subseteq [seq : Nat, owner : SessionType, addr : Server \cup {GARBAGE}]
  /\ alive \subseteq SessionType
  /\ nextSeq \in Nat
  /\ losses \in Nat

Started(s) == pc[s] \in {"bind", "serving"}

(* A server that runs believes it is connected to ZooKeeper only while it  *)
(* is and has a znode or its znode is being made, unless events are on     *)
(* their way.                                                              *)
ConnectedIsRegistered ==
  \A s \in Server :
    /\ Started(s)
    /\ is_conected[s] = 1
    /\ w[s] = "idle" /\ events[s] = <<>>
    => sess[s] = "connected" /\ \E z \in znodes : z.owner = Session(s)

(* node_path names a znode of the server's own session as long as          *)
(* ZooKeeper keeps the session.                                            *)
NodePathIsOwn ==
  \A s \in Server :
    /\ pc[s] # "off"
    /\ node_path[s] \notin {NULL, GARBAGE}
    /\ Session(s) \in alive
    => \E z \in znodes : node_path[s] = Path(z.seq) /\ z.owner = Session(s)

(* Sequence numbers are not reused, and those of a server that was         *)
(* restarted are larger than those of its earlier lives: clients, which    *)
(* take the last name, never prefer the znode of a dead process to that of *)
(* the process that replaced it.                                           *)
RestartSupersedes ==
  \A y, z \in znodes :
    /\ y.seq = z.seq => y = z
    /\ y.owner.srv = z.owner.srv /\ y.owner.life < z.owner.life => y.seq < z.seq

(* No server is ever the tail or has a successor.  Nothing sets the two    *)
(* fields but chain_watcher; and if a notification did reach it, it would  *)
(* leave them as they are, because it compares full paths with the names   *)
(* of the children.  This is what module KVServer takes for granted.       *)
NoServerInChain ==
  \A s \in Server : Started(s) =>
    /\ is_tail[s] = 0 /\ next_server_path[s] = NULL
    /\ node_path[s] \notin {NULL, GARBAGE} /\ znodes # {}
       => chain_watcher(node_path[s], NULL, ChildNames(znodes))
            = [next_server_path |-> NULL, is_tail |-> 0]

-----------------------------------------------------------------------------
(* Liveness. *)

(* Once connection_watcher asks for a znode with an assigned handle, the   *)
(* server gets registered: a broken connection leads to another attempt.   *)
(* Expiration of the session and the end of the process are the only ways  *)
(* out.                                                                    *)
RequestRegisters ==
  \A s \in Server :
    w[s] = "create" ~>
      \/ \E z \in znodes : z.owner = Session(s)
      \/ Session(s) \notin alive
      \/ pc[s] = "off"
=============================================================================
