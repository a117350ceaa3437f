-------------------------------- MODULE ChainKV --------------------------------
(***************************************************************************)
(* The whole system: the servers' processes as ZooKeeper sees them (module *)
(* Membership), the same processes as their clients see them (module       *)
(* KVServer), and the lookup by which a client finds its server            *)
(* (rtable_connect and get_tail_address of source/client_stub.c).          *)
(*                                                                         *)
(* The two halves meet in three places: a server takes connections once    *)
(* main has bound its port, the end of a process ends both halves, and the *)
(* operations that only read the table look at is_tail.                    *)
(*                                                                         *)
(* replicate_to_successor changes nothing, whatever next_server_path is:   *)
(* without a successor it prints a line, and with one it connects to port  *)
(* atoi("/chain/...") = 0, fails, and has no result.                       *)
(***************************************************************************)
EXTENDS Integers, SequencesExt

CONSTANTS
  Server, Client, Key, Value, NSlots, Hash, NULL, NONE, GARBAGE,
  Op,         \* the commands the users give
  MaxSent,    \* bound: requests a client sends
  MaxLives,   \* bound: times a server is started
  MaxStarts,  \* bound: times all servers together are started
  MaxLosses   \* bound: connections to ZooKeeper that break

ASSUME ChainAssumption == NONE \notin Server /\ GARBAGE \notin {0, 1}

VARIABLES
  pc, life, w, info, events, sess,
  node_path, is_conected, is_tail, next_server_path,
  znodes, alive, nextSeq, losses,
  up, tbl, connected, flight, wild, raced, lost, h, srv, link, req, rep, cl, cur, sent, res,
  look        \* where a client is in get_tail_address and rtable_connect

M  == INSTANCE Membership
KV == INSTANCE KVServer WITH Killable <- Server

mvars      == <<pc, life, w, info, events, sess, node_path, is_conected, is_tail,
                next_server_path, znodes, alive, nextSeq, losses>>
serverVars == <<up, tbl, connected, flight, wild, raced, lost>>
kvVars     == <<serverVars, h, srv, link, req, rep, cl, cur, sent, res>>
cvars      == <<mvars, kvVars, look>>

(* A lookup: "list" zoo_get_children, "get" zoo_get of the last child,     *)
(* "connect" network_connect to the address, "done" it has answered,       *)
(* "failed" rtable_connect has returned NULL without a connection.  The    *)
(* field seen is for a property: znodes below it are as old as the list.   *)
LookPc == {"list", "get", "connect", "done", "failed"}
Lookup == [pc |-> "list", node |-> NULL, addr |-> NULL, seen |-> 0]

Init ==
  /\ M!Init
  /\ KV!Init
  /\ look = [c \in Client |-> Lookup]

-----------------------------------------------------------------------------
(* The processes of the servers. *)

OnlyMembership == UNCHANGED <<kvVars, look>>

Starts == MapThenSumSet(LAMBDA s : life[s], Server)

(* main up to server_network_init, and what its failure makes of it.       *)
Boot(s) ==
  /\ \/ Starts < MaxStarts /\ M!StartProcess(s)
     \/ M!StoreHandle(s) \/ M!StorePort(s) \/ M!StoreFlags(s)
     \/ M!BindFails(s) \/ M!UseUnsetHandle(s)
  /\ OnlyMembership

(* server_network_init has bound the port: from now on the kernel accepts  *)
(* connections.                                                            *)
Listen(s) ==
  /\ M!Bind(s)
  /\ KV!Start(s)
  /\ UNCHANGED look

(* The ZooKeeper client library of a server, and ZooKeeper.                *)
ZooKeeper ==
  /\ \/ \E s \in Server : M!Watcher(s) \/ M!Library(s) \/ M!LoseConnection(s)
     \/ \E x \in alive : M!ExpireSession(x)
  /\ OnlyMembership

(* The process is stopped, before or after it serves, or goes down because *)
(* its memory was misused (KVServer!Collapse), which looks the same.       *)
Stop(s) ==
  /\ M!Crash(s)
  /\ IF up[s] THEN KV!Kill(s) ELSE UNCHANGED kvVars
  /\ UNCHANGED look

-----------------------------------------------------------------------------
(* The handler threads. *)

(* Mutant: the process lives on after the handler's fatal error.           *)
ProcessOutlives(s) == UNCHANGED mvars

(* What a step of a handler means for its process: nothing, or its end.    *)
Process(s) == IF up'[s] THEN UNCHANGED mvars ELSE M!Crash(s)

Serve(c) ==
  /\ KV!Serve(c) \/ KV!Misused(c)
  /\ Process(srv[c])
  /\ UNCHANGED look

(* invoke on an operation that reads the table: the opcodes it may set.    *)
(* On the tail the answer depends on the table; a table with keys and an   *)
(* empty slot would make GETTABLE read an array that is not there.         *)
invoke(tail, op) ==
  IF tail = 1
  THEN CASE op \in {"size", "stats"} -> {"ok"}
         [] op = "get"      -> {"ok", "error"}
         [] op = "getkeys"  -> {"ok", "error", "same"}
         [] op = "gettable" -> {"ok", "error", "crash"}
  ELSE IF op = "getkeys" THEN {"same"} ELSE {"error"}

ReadTable(c) ==
  /\ KV!HandlerStep(c, "read")
  /\ \E code \in invoke(is_tail[srv[c]], h[c].msg.op) :
       IF code = "crash"
       THEN KV!Die(srv[c])
       ELSE /\ KV!Answer(c, code, "send")
            /\ UNCHANGED <<serverVars, link, req, rep>>
  /\ Process(srv[c])
  /\ UNCHANGED look

-----------------------------------------------------------------------------
(* The clients: rtable_connect. *)

LookStep(c, from) == look[c].pc = from /\ UNCHANGED mvars

Fail(c) ==
  /\ look' = [look EXCEPT ![c].pc = "failed"]
  /\ UNCHANGED kvVars

(* Mutant: the first of the sorted names is taken.                         *)
ListChildrenFirst(c) ==
  /\ LookStep(c, "list")
  /\ \E z \in znodes :
       /\ \A y \in znodes : z.seq <= y.seq
       /\ look' = [look EXCEPT ![c] =
            [pc |-> "get", node |-> z.seq, addr |-> NULL, seen |-> nextSeq]]
  /\ UNCHANGED kvVars

(* zoo_get_children and qsort: the last of the sorted names, which is that *)
(* with the largest number, is taken for the tail.                         *)
ListChildren(c) ==
  /\ LookStep(c, "list")
  /\ \E z \in znodes :
       /\ \A y \in znodes : y.seq <= z.seq
       /\ look' = [look EXCEPT ![c] =
            [pc |-> "get", node |-> z.seq, addr |-> NULL, seen |-> nextSeq]]
  /\ UNCHANGED kvVars

(* No child: the code reads children.data[-1].  What it finds there is no  *)
(* name of a znode; the program ends, with or without a message.           *)
NoChild(c) ==
  /\ LookStep(c, "list")
  /\ znodes = {}
  /\ Fail(c)

(* Mutant: the child's number is taken for the address.                    *)
GetAddressName(c) ==
  /\ LookStep(c, "get")
  /\ \E z \in znodes :
       /\ z.seq = look[c].node
       /\ look' = [look EXCEPT ![c].pc = "connect", ![c].addr = z.seq]
  /\ UNCHANGED kvVars

(* zoo_get returns the data of the znode, without the null character that  *)
(* the code expects: what follows the port in the buffer may be read as    *)
(* more digits of it.                                                      *)
GetAddress(c) ==
  /\ LookStep(c, "get")
  /\ \E z \in znodes :
       /\ z.seq = look[c].node
       /\ \E a \in {z.addr, GARBAGE} :
            look' = [look EXCEPT ![c].pc = "connect", ![c].addr = a]
  /\ UNCHANGED kvVars

(* The znode is gone since its name was read. *)
NodeVanished(c) ==
  /\ LookStep(c, "get")
  /\ \A z \in znodes : z.seq # look[c].node
  /\ Fail(c)

(* ZooKeeper does not answer. *)
ZooKeeperFails(c) ==
  /\ LookStep(c, "list") \/ LookStep(c, "get")
  /\ Fail(c)

(* network_connect: the server at the address takes the connection, or     *)
(* nobody listens there.                                                   *)
Connect(c) ==
  /\ LookStep(c, "connect")
  /\ \E s \in Server :
       /\ look[c].addr = s
       /\ KV!Connect(c, s) \/ KV!ConnectRefused(c, s)
  /\ look' = [look EXCEPT ![c].pc = "done"]

(* The port is no server's. *)
ConnectNowhere(c) ==
  /\ LookStep(c, "connect")
  /\ look[c].addr = GARBAGE
  /\ Fail(c)

rtable_connect(c) ==
  \/ ListChildren(c) \/ NoChild(c)
  \/ GetAddress(c) \/ NodeVanished(c) \/ ZooKeeperFails(c)
  \/ Connect(c) \/ ConnectNowhere(c)

(* The calls of a connected client. *)
Use(c) ==
  /\ KV!Command(c) \/ KV!Read(c) \/ KV!Timeout(c) \/ KV!Quit(c)
  /\ UNCHANGED <<mvars, look>>

-----------------------------------------------------------------------------

Next ==
  \/ \E s \in Server : Boot(s) \/ Listen(s) \/ Stop(s)
  \/ ZooKeeper
  \/ \E c \in Client : Serve(c) \/ ReadTable(c) \/ rtable_connect(c) \/ Use(c)

Spec == Init /\ [][Next]_cvars

-----------------------------------------------------------------------------
(* Invariants. *)

(* Type invariant of the lookups; the rest are those of the two halves.    *)
TypeOK ==
  look \in [Client -> [pc : LookPc, node : Nat \cup {NULL},
                       addr : Server \cup {NULL, GARBAGE}, seen : Nat]]

(* The two halves never disagree on which processes run: a server takes    *)
(* connections exactly while main is in network_main_loop, whether it ends *)
(* by a handler, by a signal or by the operator; and an open connection or *)
(* a running thread belongs to such a process.                             *)
ProcessesAgree ==
  /\ \A s \in Server : up[s] <=> pc[s] = "serving"
  /\ \A c \in Client : link[c] = "open" \/ h[c].pc # "none" => pc[srv[c]] = "serving"

(* A client that has picked a child never prefers a dead process to the    *)
(* one that replaced it, however long it takes from one call to ZooKeeper  *)
(* to the next: no znode of a later life of the server it picked was there *)
(* to be picked.  And as long as the picked znode exists, the address read *)
(* from it is that of its owner unless it is no address.                   *)
LookupTakesNewest ==
  \A c \in Client : look[c].pc \in {"get", "connect"} =>
    \A z \in znodes : z.seq = look[c].node =>
      /\ look[c].pc = "connect" => look[c].addr \in {z.owner.srv, GARBAGE}
      /\ \A y \in znodes :
           y.owner.srv = z.owner.srv /\ y.seq < look[c].seen
             => y.owner.life <= z.owner.life

-----------------------------------------------------------------------------
(* Refinement. *)

(* Seen from the clients, the whole system behaves as module KVServer      *)
(* says: the server a client finds may be any, reads are refused on every  *)
(* server, and nothing else changes a table.  What KVServer guarantees is  *)
(* so guaranteed whatever happens to sessions and znodes.                  *)
ImplementsServers == KV!Init /\ [][KV!Next]_(kvVars)

-----------------------------------------------------------------------------
(* Statements of the documentation that the code does not keep. *)

Registered(s) == \E z \in znodes : z.owner = M!Session(s)

(* README: state is replicated synchronously along the chain, and a new    *)
(* server takes over the table before it serves.  A PUT that was answered  *)
(* is on one server alone.                                                 *)
AckedPutReplicated ==
  \A c \in Client : link[c] = "open" =>
    \A i \in DOMAIN rep[c] :
      rep[c][i].op = "put" /\ rep[c][i].code = "ok" =>
        \A s \in Server : up[s] /\ Registered(s) => KV!Held(s, rep[c][i].key)
============================================================================
